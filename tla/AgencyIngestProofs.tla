-------------------------- MODULE AgencyIngestProofs --------------------------
(***************************************************************************)
(* Proofs about the agency's ingest, for any number of vehicles, requests, *)
(* timestamps and batches and any combination of faults: type correctness, *)
(* that an event is accepted and streamed once, that the cache does not    *)
(* run ahead of the database, and that only a request that overlaps hides  *)
(* from the cache what another one has written.                            *)
(***************************************************************************)
EXTENDS AgencyOrder, SequenceTheorems, WellFoundedInduction, TLAPS

AllTasks == DeviceTasks \cup EventTasks \cup TelemetryTasks

(* What the INSERT returned lies in the batch; nothing is under way before *)
(* a request starts.                                                       *)
TypeInv ==
  /\ TypeOK
  /\ \A r \in Requests :
       /\ recorded[r] \subseteq DOMAIN call[r].batch
       /\ pc[r] = "idle" => recorded[r] = {} /\ tasks[r] = {}
       /\ pc[r] = "getDevice" => call[r].op # "register"

(***************************************************************************)
(* Natural numbers: a set that is not empty has a least element, and one   *)
(* that is bounded has a greatest.                                         *)
(***************************************************************************)
LEMMA LeastExists ==
  ASSUME NEW T, T \subseteq Nat, T # {}
  PROVE  \E x \in T : \A y \in T : x <= y
<1> DEFINE R == OpToRel(<, Nat)
<1>1. IsWellFoundedOn(R, Nat)
  BY NatLessThanWellFounded
<1>2. \A x, y \in Nat : <<x, y>> \in R <=> x < y
  BY DEF OpToRel
<1> HIDE DEF R
<1>3. PICK x \in T : \A y \in T : ~ (<<y, x>> \in R)
  BY <1>1, WFMin, Zenon
<1>4. \A y \in T : ~ (y < x)
  BY <1>2, <1>3
<1>5. \A y \in T : x <= y
  BY <1>4
<1> QED
  BY <1>5

LEMMA MaxFacts ==
  ASSUME NEW n \in Nat, NEW S, S \subseteq 1 .. n, S # {}
  PROVE  Max(S) \in S /\ \A i \in S : i <= Max(S)
<1> DEFINE T == {n - i : i \in S}
<1>0. \A i \in S : i \in Nat /\ n - i \in Nat
  OBVIOUS
<1>1. T \subseteq Nat /\ T # {}
  BY <1>0
<1>2. PICK x \in T : \A y \in T : x <= y
  BY <1>1, LeastExists
<1>3. PICK m \in S : x = n - m
  BY <1>2
<1>4. \A i \in S : n - m <= n - i
  BY <1>2, <1>3
<1>5. \A i \in S : m >= i
  BY <1>0, <1>4
<1> QED
  BY <1>0, <1>3, <1>5 DEF Max

(***************************************************************************)
(* What a request brings.                                                  *)
(***************************************************************************)
LEMMA CallFacts ==
  ASSUME NEW c \in Calls
  PROVE  /\ c.op \in AllOps /\ c.device \in Devices /\ c.vehicle \in VehicleIds
         /\ c.at \in Times
         /\ c.types \in TypeLists /\ c.types \in Seq(STRING) /\ Len(c.types) \in Nat \ {0}
         /\ c.batch \in Batches /\ c.batch \in Seq(Times) /\ Len(c.batch) \in Nat \ {0}
         /\ DOMAIN c.batch = 1 .. Len(c.batch)
         /\ \A i \in DOMAIN c.batch : c.batch[i] \in Times
         /\ Head(c.batch) = c.batch[1] /\ 1 \in DOMAIN c.batch
         /\ Times \subseteq Nat /\ c.vehicle # None
<1>1. /\ c.op \in AllOps /\ c.device \in Devices /\ c.vehicle \in VehicleIds
      /\ c.at \in Times /\ c.types \in TypeLists /\ c.batch \in Batches
  BY DEF Calls
<1>2. c.types \in Seq(STRING) /\ c.types # << >> /\ c.batch \in Seq(Times) /\ c.batch # << >>
  BY <1>1, ConstantsOK
<1> QED
  BY <1>1, <1>2, ConstantsOK

LEMMA RequestFacts ==
  ASSUME TypeOK, NEW r \in Requests
  PROVE  /\ call[r] \in Calls
         /\ At(r) \in Times /\ Point(r) \in Times
         /\ Point(r) = call[r].batch[1] /\ Point(r) \in Range(call[r].batch)
         /\ Range(call[r].batch) \subseteq Times
         /\ TheEvent(r) \in Events /\ TheEvent(r).device = call[r].device
         /\ TheEvent(r).at = At(r) /\ TheEvent(r).point = Point(r)
         /\ TheEvent(r).types = call[r].types
         /\ [device |-> call[r].device, at |-> Point(r)] \in Points(r)
         /\ Points(r) \subseteq [device : Devices, at : Times]
<1>1. call[r] \in Calls
  BY DEF TypeOK
<1>2. /\ At(r) \in Times /\ Point(r) \in Times
      /\ Point(r) = call[r].batch[1] /\ Point(r) \in Range(call[r].batch)
  BY <1>1, CallFacts DEF At, Point, Range
<1>3. Range(call[r].batch) \subseteq Times
  BY <1>1, CallFacts DEF Range
<1>4. call[r].device \in Devices /\ call[r].types \in TypeLists
  BY <1>1, CallFacts
<1> QED
  BY <1>1, <1>2, <1>3, <1>4 DEF TheEvent, Events, Points

Settling(r, t, next) ==
  /\ t \in tasks[r] /\ t \in AllTasks
  /\ tasks' = [tasks EXCEPT ![r] = (tasks[r] \ {t}) \cup next]
  /\ tasks' \in [Requests -> SUBSET AllTasks]
  /\ pc' \in [Requests -> Steps]
  /\ \A s \in Requests \ {r} : pc'[s] = pc[s] /\ tasks'[s] = tasks[s]
  /\ \/ pc'[r] = pc[r]
     \/ pc[r] = "refresh" /\ pc'[r] = "telemetryDb"
     \/ pc[r] = "fan" /\ pc'[r] = "ok"

LEMMA SettleFacts ==
  ASSUME TypeOK, NEW r \in Requests, NEW t, NEW next \in SUBSET AllTasks, NEW failed \in BOOLEAN,
         Settle(r, t, next, failed)
  PROVE  Settling(r, t, next)
<1>1. tasks \in [Requests -> SUBSET AllTasks] /\ pc \in [Requests -> Steps]
  BY DEF TypeOK, AllTasks
<1>2. t \in tasks[r] /\ tasks' = [tasks EXCEPT ![r] = (tasks[r] \ {t}) \cup next]
  BY DEF Settle
<1>3. \/ pc' = pc
      \/ pc[r] = "refresh" /\ pc' = [pc EXCEPT ![r] = "telemetryDb"]
      \/ pc[r] = "fan" /\ pc' = [pc EXCEPT ![r] = "ok"]
  BY DEF Settle, Goto
<1>4. "telemetryDb" \in Steps /\ "ok" \in Steps
  BY DEF Steps
<1> QED
  BY <1>1, <1>2, <1>3, <1>4 DEF Settling

LEMMA FlattenedFacts ==
  ASSUME NEW old \in Seq(STRING), NEW new \in Seq(STRING), Len(new) > 0
  PROVE  /\ Flattened(old, new) \in Seq(STRING)
         /\ Len(Flattened(old, new)) \in {Len(new), Len(old)}
         /\ Len(Flattened(old, new)) > 0
         /\ IsPrefix(new, Flattened(old, new))
<1> DEFINE tail == SubSeq(old, Len(new) + 1, Len(old))
<1>1. Len(new) + 1 \in Nat /\ Len(old) \in Nat /\ Len(new) \in Nat
  OBVIOUS
<1>2. tail \in Seq(STRING) /\ Len(tail) = IF Len(new) < Len(old) THEN Len(old) - Len(new) ELSE 0
  BY <1>1, SubSeqProperties
<1>3. /\ new \o tail \in Seq(STRING) /\ Len(new \o tail) = Len(new) + Len(tail)
      /\ \A i \in 1 .. Len(new) : (new \o tail)[i] = new[i]
  BY <1>2, ConcatProperties
<1>4. SubSeq(new \o tail, 1, Len(new)) = new
  BY <1>1, <1>2, SubSeqOfConcat1, SubSeqFull
<1>5. SubSeq(new, 1, Len(new)) = new
  BY SubSeqFull
<1> HIDE DEF tail
<1>6. Len(new) <= Len(new \o tail)
  BY <1>1, <1>2, <1>3
<1>7. IsPrefix(new, new \o tail)
  BY <1>4, <1>5, <1>6 DEF IsPrefix
<1>8. Flattened(old, new) = new \o tail
  BY DEF Flattened, tail
<1> QED
  BY <1>1, <1>2, <1>3, <1>7, <1>8

LEMMA NewFacts ==
  ASSUME TypeOK, NEW r \in Requests
  PROVE  New(r) \subseteq DOMAIN call[r].batch /\ New(r) \in SUBSET Nat
<1>1. DOMAIN call[r].batch = 1 .. Len(call[r].batch) /\ Len(call[r].batch) \in Nat
  BY CallFacts, RequestFacts
<1> QED
  BY <1>1 DEF New

LEMMA NewerFacts ==
  ASSUME TypeInv, NEW r \in Requests, Newer(r) # {}
  PROVE  /\ Max(Newer(r)) \in Newer(r) /\ \A i \in Newer(r) : i <= Max(Newer(r))
         /\ Max(Newer(r)) \in DOMAIN call[r].batch
         /\ call[r].batch[Max(Newer(r))] \in Times
<1> DEFINE n == Len(call[r].batch)
<1>1. DOMAIN call[r].batch = 1 .. n /\ n \in Nat /\ \A i \in 1 .. n : call[r].batch[i] \in Times
  BY CallFacts, RequestFacts DEF TypeInv
<1>2. Newer(r) \subseteq 1 .. n
  BY <1>1 DEF Newer, Offered, TypeInv
<1> HIDE DEF n
<1>3. Max(Newer(r)) \in Newer(r) /\ \A i \in Newer(r) : i <= Max(Newer(r))
  BY <1>1, <1>2, MaxFacts
<1> QED
  BY <1>1, <1>2, <1>3

(***************************************************************************)
(* Type correctness.                                                       *)
(***************************************************************************)
LEMMA InitTypeInv == Init => TypeInv
<1> SUFFICES ASSUME Init PROVE TypeInv
  OBVIOUS
<1>1. Calls # {}
  <2>1. PICK d \in Devices, v \in VehicleIds, l \in TypeLists, b \in Batches : TRUE
    BY ConstantsOK
  <2>2. b[1] \in Times
    BY <2>1, ConstantsOK
  <2>3. [op |-> "event", device |-> d, vehicle |-> v, at |-> b[1], types |-> l, batch |-> b] \in Calls
    BY <2>1, <2>2 DEF Calls, AllOps
  <2> QED
    BY <2>3
<1>2. (CHOOSE c \in Calls : TRUE) \in Calls
  BY <1>1
<1>3. (CHOOSE v \in VehicleIds : TRUE) \in VehicleIds
  BY ConstantsOK
<1>4. TypeOK
  BY <1>2, <1>3 DEF Init, TypeOK, Steps
<1> QED
  BY <1>4 DEF Init, TypeInv

(* The steps of a request that touch neither the cache nor the events.     *)
LEMMA ServeTypeInv ==
  ASSUME TypeInv, NEW r \in Requests, Start(r) \/ Serve(r)
  PROVE  TypeInv'
<1> USE DEF TypeInv, TypeOK
<1>c. call[r] \in Calls /\ call[r].device \in Devices /\ call[r].vehicle \in VehicleIds
  BY CallFacts
<1>1. CASE Start(r)
  <2>1. PICK c \in Calls : call' = [call EXCEPT ![r] = c] /\ Goto(r, FirstStep(c.op))
    BY <1>1 DEF Start
  <2>2. FirstStep(c.op) \in Steps \ {"idle"} /\ pc[r] = "idle"
        /\ (FirstStep(c.op) = "getDevice" => c.op # "register")
    BY <1>1 DEF FirstStep, Steps, Start
  <2>3. TypeOK'
    BY <1>1, <2>1, <2>2 DEF Start, Goto, database, cache, locals
  <2>4. ASSUME NEW s \in Requests
        PROVE  /\ recorded'[s] \subseteq DOMAIN call'[s].batch
               /\ pc'[s] = "getDevice" => call'[s].op # "register"
    BY <1>1, <2>1, <2>2 DEF Start, locals, Goto
  <2>5. ASSUME NEW s \in Requests, pc'[s] = "idle"
        PROVE  recorded'[s] = {} /\ tasks'[s] = {}
    BY <1>1, <2>1, <2>2, <2>5 DEF Start, locals, Goto
  <2> QED
    BY <2>3, <2>4, <2>5
<1>2. CASE InsertDevice(r)
  <2>1. PICK step \in {"fan", "error"} :
          Goto(r, step) /\ (tasks' = tasks \/ tasks' = [tasks EXCEPT ![r] = @ \cup DeviceTasks])
    BY <1>2 DEF InsertDevice, Launch
  <2>2. /\ devices' \in [Devices -> VehicleIds \cup {None}]
        /\ seen' \in [Requests -> VehicleIds \cup {None}]
    BY <1>c, <1>2 DEF InsertDevice
  <2>3. tasks' \in [Requests -> SUBSET AllTasks]
    BY <2>1 DEF AllTasks
  <2>4. pc' \in [Requests -> Steps]
    BY <2>1 DEF Goto, Steps
  <2>5. TypeOK'
    BY <1>2, <2>2, <2>3, <2>4 DEF InsertDevice, AllTasks, cache
  <2> QED
    BY <1>2, <2>1, <2>5 DEF InsertDevice, Goto
<1>3. CASE UpdateDevice(r)
  BY <1>c, <1>3 DEF UpdateDevice, Goto, Steps, cache, locals
<1>4. CASE ReadBack(r)
  BY <1>c, <1>4 DEF ReadBack, Goto, Launch, Steps, cache, database
<1>5. CASE GetDevice(r)
  <2>1. PICK step \in Steps \ {"idle", "getDevice"} : Goto(r, step)
    <3>1. call[r].op \in {"update", "event", "telemetry"}
      BY <1>c, <1>5, CallFacts DEF GetDevice, AllOps
    <3>2. \E step \in {"updateDb", "readCache", "telemetryDb", "report", "error"} : Goto(r, step)
      BY <1>5, <3>1 DEF GetDevice
    <3> QED
      BY <3>2 DEF Steps
  <2>2. seen' \in [Requests -> VehicleIds \cup {None}]
    BY <1>c, <1>5 DEF GetDevice
  <2> QED
    BY <1>5, <2>1, <2>2 DEF GetDevice, Goto, cache, database
<1>6. CASE ReportError(r)
  BY <1>6 DEF ReportError, Goto, Steps, cache, database, locals
<1>7. CASE ReadDeviceCache(r)
  <2>1. PICK step \in {"telemetryDb", "refresh"} :
          Goto(r, step) /\ (tasks' = tasks \/ tasks' = [tasks EXCEPT ![r] = @ \cup DeviceTasks])
    BY <1>7 DEF ReadDeviceCache, Launch
  <2> QED
    BY <1>7, <2>1 DEF ReadDeviceCache, Goto, Steps, cache, database, locals
<1>8. CASE InsertTelemetry(r)
  <2>1. New(r) \subseteq DOMAIN call[r].batch /\ New(r) \in SUBSET Nat
    BY NewFacts
  <2>2. Points(r) \subseteq [device : Devices, at : Times]
    BY RequestFacts
  <2>3. PICK step \in Steps \ {"idle", "getDevice"} :
          Goto(r, step) /\ (tasks' = tasks \/ tasks' = [tasks EXCEPT ![r] = @ \cup {"telemetryRead", "telemetryTopic"}])
    BY <1>8 DEF InsertTelemetry, Launch, Steps
  <2>4. tasks' \in [Requests -> SUBSET (DeviceTasks \cup EventTasks \cup TelemetryTasks)]
    BY <2>3 DEF TelemetryTasks
  <2>5. TypeOK'
    BY <1>8, <2>1, <2>2, <2>3, <2>4 DEF InsertTelemetry, Goto, cache
  <2> QED
    BY <1>8, <2>1, <2>3, <2>5 DEF InsertTelemetry, Goto
<1>9. CASE InsertEvent(r)
  <2>1. TheEvent(r) \in Events
    BY RequestFacts
  <2>2. PICK step \in {"fan", "report"}, new \in SUBSET AllTasks :
          Goto(r, step) /\ (tasks' = tasks \/ tasks' = [tasks EXCEPT ![r] = @ \cup new])
    BY <1>9 DEF InsertEvent, Launch, AllTasks, EventTasks, TelemetryTasks
  <2>3. tasks' \in [Requests -> SUBSET AllTasks]
    BY <2>2 DEF AllTasks
  <2>4. pc' \in [Requests -> Steps]
    BY <2>2 DEF Goto, Steps
  <2>5. TypeOK'
    BY <1>9, <2>1, <2>3, <2>4 DEF InsertEvent, AllTasks, cache, locals
  <2>6. pc[r] = "eventDb"
    BY <1>9 DEF InsertEvent
  <2> QED
    BY <1>9, <2>2, <2>5, <2>6 DEF InsertEvent, Goto, locals
<1> QED
  BY <1>1, <1>2, <1>3, <1>4, <1>5, <1>6, <1>7, <1>8, <1>9 DEF Serve

LEMMA RunTypeInv ==
  ASSUME TypeInv, NEW r \in Requests, Run(r)
  PROVE  TypeInv'
<1> DEFINE SettledOnly ==
      /\ pc' \in [Requests -> Steps] /\ tasks' \in [Requests -> SUBSET AllTasks]
      /\ \A s \in Requests :
           /\ pc'[s] = "idle" => pc[s] = "idle" /\ tasks'[s] = {}
           /\ pc'[s] = "getDevice" => pc[s] = "getDevice"
<1>0. ASSUME NEW t, NEW next \in SUBSET AllTasks, NEW failed \in BOOLEAN, Settle(r, t, next, failed)
      PROVE  SettledOnly
  <2>1. pc[r] # "idle"
    BY <1>0 DEF Settle, TypeInv
  <2> QED
    BY <1>0, <2>1, SettleFacts DEF TypeInv, Settling
<1> USE DEF TypeInv, TypeOK
<1>c. call[r] \in Calls /\ call[r].device \in Devices
  BY CallFacts
<1>1. CASE CacheDevice(r)
  <2>1. SettledOnly
    BY <1>0, <1>1 DEF CacheDevice
  <2> HIDE DEF SettledOnly
  <2> QED
    BY <1>1, <2>1, <1>c DEF CacheDevice, SettledOnly, AllTasks, database, locals
<1>2. CASE ReadEvents(r)
  <2>1. SettledOnly
    BY <1>0, <1>2 DEF ReadEvents, AllTasks, EventTasks
  <2> QED
    BY <1>2, <2>1, <1>c DEF ReadEvents, AllTasks, database, cache
<1>3. CASE WriteEventCache(r)
  <2> DEFINE d == call[r].device
             e == TheEvent(r)
             old == IF cachedEvent[d] = None THEN << >> ELSE cachedEvent[d].types
             new == Cached(e, old)
  <2>1. SettledOnly
    BY <1>0, <1>3 DEF WriteEventCache
  <2>2. /\ old \in Seq(STRING) /\ e.at \in Times /\ e.point \in Times
        /\ e.types \in TypeLists /\ e.types \in Seq(STRING) /\ Len(e.types) > 0
    <3>1. e.at \in Times /\ e.point \in Times /\ e.types = call[r].types
      BY RequestFacts
    <3>2. old \in Seq(STRING)
      <4>1. cachedEvent[d] \in CachedEvents \cup {None} /\ << >> \in Seq(STRING)
        BY <1>c
      <4> QED
        BY <4>1 DEF CachedEvents
    <3> QED
      BY <3>1, <3>2, <1>c, CallFacts
  <2>3. new \in CachedEvents /\ Len(new.types) \in {Len(e.types), Len(old)} /\ Len(new.types) > 0
    BY <2>2, FlattenedFacts DEF CachedEvents, Cached
  <2>4. \E l \in TypeLists : Len(new.types) \in 1 .. Len(l)
    <3>1. CASE Len(new.types) = Len(e.types)
      <4>1. Len(new.types) \in 1 .. Len(e.types)
        BY <2>2, <2>3, <3>1
      <4> QED
        BY <4>1, <2>2
    <3>2. CASE Len(new.types) = Len(old)
      <4>1. cachedEvent[d] # None
        BY <2>3, <3>2
      <4> QED
        BY <4>1, <3>2, <1>c
    <3> QED
      BY <2>3, <3>1, <3>2
  <2>5. \/ cachedEvent' = cachedEvent
        \/ cachedEvent' = [cachedEvent EXCEPT ![d] = None]
        \/ cachedEvent' = [cachedEvent EXCEPT ![d] = new]
    BY <1>3 DEF WriteEventCache, cache
  <2> HIDE DEF new, SettledOnly
  <2>6. cachedEvent' \in [Devices -> CachedEvents \cup {None}]
    BY <2>3, <2>5, <1>c
  <2>7. ASSUME NEW x \in Devices, cachedEvent'[x] # None
        PROVE  \E l \in TypeLists : Len(cachedEvent'[x].types) \in 1 .. Len(l)
    BY <2>4, <2>5, <2>7, <1>c
  <2>8. /\ cachedDevice' \in [Devices -> VehicleIds \cup {None}]
        /\ cachedTelemetry' \in [Devices -> Times \cup {None}]
        /\ location' \in [Devices -> Times \cup {None}]
    BY <1>3, <2>2, <1>c DEF WriteEventCache, cache
  <2>9. UNCHANGED <<database, eventTopic, call, locals>>
    BY <1>3 DEF WriteEventCache
  <2> QED
    BY <2>1, <2>6, <2>7, <2>8, <2>9 DEF SettledOnly, AllTasks, database, locals
<1>4. CASE ReadTelemetry(r)
  <2>1. SettledOnly
    BY <1>0, <1>4 DEF ReadTelemetry, AllTasks, TelemetryTasks
  <2> QED
    BY <1>4, <2>1, <1>c DEF ReadTelemetry, AllTasks, database, cache
<1>5. CASE WriteTelemetryCache(r)
  <2>1. SettledOnly
    BY <1>0, <1>5 DEF WriteTelemetryCache
  <2>2. Newer(r) # {} => call[r].batch[Max(Newer(r))] \in Times
    BY NewerFacts
  <2> QED
    BY <1>5, <2>1, <2>2, <1>c DEF WriteTelemetryCache, AllTasks, database, locals
<1>6. CASE StreamEvent(r)
  <2>1. SettledOnly
    BY <1>0, <1>6 DEF StreamEvent
  <2>2. [by |-> r, event |-> TheEvent(r)] \in [by : Requests, event : Events]
    BY RequestFacts
  <2> QED
    BY <1>6, <2>1, <2>2 DEF StreamEvent, AllTasks, database, cache, locals
<1>7. CASE StreamOther(r)
  <2>1. SettledOnly
    BY <1>0, <1>7 DEF StreamOther
  <2> QED
    BY <1>7, <2>1 DEF StreamOther, AllTasks, database, cache, locals
<1> QED
  BY <1>1, <1>2, <1>3, <1>4, <1>5, <1>6, <1>7 DEF Run

LEMMA FaultTypeInv ==
  ASSUME TypeInv, NEW r \in Requests, DatabaseFails(r) \/ TaskFails(r) \/ Die(r)
  PROVE  TypeInv'
<1>0. ASSUME NEW t, NEW failed \in BOOLEAN, Settle(r, t, {}, failed), t \in tasks[r]
      PROVE  /\ pc' \in [Requests -> Steps] /\ tasks' \in [Requests -> SUBSET AllTasks]
             /\ \A s \in Requests :
                  /\ pc'[s] = "idle" => pc[s] = "idle" /\ tasks'[s] = {}
                  /\ pc'[s] = "getDevice" => pc[s] = "getDevice"
  <2>1. pc[r] # "idle"
    BY <1>0 DEF TypeInv
  <2> QED
    BY <1>0, <2>1, SettleFacts DEF TypeInv, Settling
<1> USE DEF TypeInv, TypeOK
<1>1. CASE DatabaseFails(r)
  BY <1>1 DEF DatabaseFails, Goto, Steps, database, cache, locals
<1>2. CASE TaskFails(r)
  <2>1. PICK t \in tasks[r], failed \in BOOLEAN : Settle(r, t, {}, failed)
    BY <1>2 DEF TaskFails
  <2>2. /\ pc' \in [Requests -> Steps] /\ tasks' \in [Requests -> SUBSET AllTasks]
        /\ \A s \in Requests :
             /\ pc'[s] = "idle" => pc[s] = "idle" /\ tasks'[s] = {}
             /\ pc'[s] = "getDevice" => pc[s] = "getDevice"
    BY <1>0, <2>1
  <2> QED
    BY <1>2, <2>2 DEF TaskFails, AllTasks, database, cache, locals
<1>3. CASE Die(r)
  BY <1>3 DEF Die, Goto, Steps, database, cache, locals
<1> QED
  BY <1>1, <1>2, <1>3

LEMMA NextTypeInv == ASSUME TypeInv, [Next]_vars PROVE TypeInv'
<1>1. CASE UNCHANGED vars
  BY <1>1 DEF TypeInv, TypeOK, vars, database, cache, locals
<1>2. CASE Next
  BY <1>2, ServeTypeInv, RunTypeInv, FaultTypeInv DEF Next
<1> QED
  BY <1>1, <1>2

(* Every variable of the agency keeps its type.                            *)
THEOREM TypeCorrect == Spec => []TypeOK
<1>1. Init => TypeInv
  BY InitTypeInv
<1>2. TypeInv /\ [Next]_vars => TypeInv'
  BY NextTypeInv
<1>3. TypeInv => TypeOK
  BY DEF TypeInv
<1> QED
  BY <1>1, <1>2, <1>3, PTL DEF Spec

(***************************************************************************)
(* An event once, and a cache behind the database: the inductive           *)
(* invariant.                                                              *)
(***************************************************************************)
Underway == {"refresh", "telemetryDb", "eventDb", "report", "fan", "ok", "error", "lost"}
Recording(r) == call[r].op = "event" /\ pc[r] \in {"fan", "ok"}

(* What a request does belongs to its operation.                           *)
Stage(r) ==
  /\ tasks[r] # {} => pc[r] \in Underway
  /\ tasks[r] \cap (EventTasks \cup TelemetryTasks) # {} =>
       pc[r] \in {"fan", "ok"} /\ call[r].op \in {"event", "telemetry"}
  /\ tasks[r] \cap EventTasks # {} => call[r].op = "event"
  /\ pc[r] \in {"readCache", "refresh", "eventDb", "report"} => call[r].op = "event"
  /\ pc[r] = "telemetryDb" => call[r].op \in {"event", "telemetry"}
  /\ pc[r] = "deviceDb" => call[r].op = "register"
  /\ pc[r] \in {"updateDb", "readBack"} => call[r].op = "update"

(* The tables hold what the request is about to tell cache and streams.    *)
Backed(r) ==
  /\ pc[r] \in {"updateDb", "readBack", "readCache", "refresh", "telemetryDb", "eventDb", "fan", "ok"}
       \/ tasks[r] # {} => devices[call[r].device] # None
  /\ call[r].op \in {"event", "telemetry"} /\ pc[r] \in {"eventDb", "fan", "ok"} =>
       Points(r) \subseteq telemetry
  /\ Recording(r) => TheEvent(r) \in events

(* The events are identified by device and timestamp.                      *)
Keyed == \A e, f \in events : e.device = f.device /\ e.at = f.at => e = f

(* A message comes from the request that recorded its event.               *)
Traced ==
  \A m \in eventTopic :
    /\ call[m.by].op = "event" /\ pc[m.by] \in {"fan", "ok", "lost"}
    /\ m.event = TheEvent(m.by) /\ m.event \in events

(* No two requests recorded an event of the same device and timestamp.     *)
Owner(r) == Recording(r) \/ \E m \in eventTopic : m.by = r

OneOwner ==
  \A r \in Requests : \A s \in Requests \ {r} :
    Owner(r) /\ Owner(s) => call[r].device # call[s].device \/ At(r) # At(s)

SafeInv ==
  /\ TypeInv
  /\ \A r \in Requests : Stage(r) /\ Backed(r)
  /\ Keyed /\ Traced /\ OneOwner
  /\ CacheFollowsDatabase

Step(r) ==
  Start(r) \/ Serve(r) \/ Run(r) \/ DatabaseFails(r) \/ TaskFails(r) \/ Die(r)

(* A step is one request's: it leaves the others as they are, and removes  *)
(* nothing from the tables.                                                *)
LEMMA Others ==
  ASSUME TypeInv, NEW r \in Requests, Step(r), NEW s \in Requests \ {r}
  PROVE  /\ pc'[s] = pc[s] /\ tasks'[s] = tasks[s] /\ call'[s] = call[s]
         /\ recorded'[s] = recorded[s] /\ seen'[s] = seen[s]
         /\ priorEvent'[s] = priorEvent[s] /\ priorTelemetry'[s] = priorTelemetry[s]
<1>t. TypeOK
  BY DEF TypeInv
<1>1. ASSUME NEW t, NEW next \in SUBSET AllTasks, NEW failed \in BOOLEAN, Settle(r, t, next, failed)
      PROVE  pc'[s] = pc[s] /\ tasks'[s] = tasks[s]
  <2>1. Settling(r, t, next)
    BY <1>t, <1>1, SettleFacts
  <2> QED
    BY <2>1 DEF Settling
<1>2. CASE Run(r)
  <2>1. pc'[s] = pc[s] /\ tasks'[s] = tasks[s]
    BY <1>1, <1>2
    DEF Run, CacheDevice, ReadEvents, WriteEventCache, ReadTelemetry, WriteTelemetryCache,
        StreamEvent, StreamOther, AllTasks, EventTasks, TelemetryTasks
  <2>2. UNCHANGED <<call, recorded, seen>>
    BY <1>t, <1>2
    DEF Run, CacheDevice, ReadEvents, WriteEventCache, ReadTelemetry, WriteTelemetryCache,
        StreamEvent, StreamOther, locals
  <2>3. priorEvent'[s] = priorEvent[s] /\ priorTelemetry'[s] = priorTelemetry[s]
    BY <1>t, <1>2
    DEF Run, CacheDevice, ReadEvents, WriteEventCache, ReadTelemetry, WriteTelemetryCache,
        StreamEvent, StreamOther, locals, TypeOK
  <2> QED
    BY <2>1, <2>2, <2>3
<1>3. CASE TaskFails(r)
  BY <1>1, <1>3 DEF TaskFails, locals, AllTasks
<1>4. CASE Start(r) \/ DatabaseFails(r) \/ Die(r)
  BY <1>t, <1>4 DEF Start, DatabaseFails, Die, Goto, locals, TypeOK
<1>5. CASE Serve(r)
  BY <1>t, <1>5
  DEF Serve, InsertDevice, UpdateDevice, ReadBack, GetDevice, ReportError, ReadDeviceCache,
      InsertTelemetry, InsertEvent, Goto, Launch, locals, TypeOK
<1> QED
  BY <1>2, <1>3, <1>4, <1>5 DEF Step

(* The INSERT of an event that has no row.                                 *)
Inserted(r) ==
  /\ pc[r] = "eventDb" /\ pc' = [pc EXCEPT ![r] = "fan"]
  /\ tasks' = [tasks EXCEPT ![r] = @ \cup {"eventRead", "eventTopic", "telemetryRead", "telemetryTopic"}]
  /\ events' = events \cup {TheEvent(r)}
  /\ \A f \in events : f.device # call[r].device \/ f.at # At(r)
  /\ UNCHANGED <<devices, telemetry, cache, eventTopic, call, locals>>

LEMMA DatabaseSteps ==
  ASSUME TypeInv, NEW r \in Requests, Step(r)
  PROVE  /\ \A d \in Devices : devices[d] # None => devices'[d] # None
         /\ telemetry \subseteq telemetry'
         /\ telemetry' = telemetry \/ InsertTelemetry(r)
         /\ events' = events \/ Inserted(r)
         /\ call'[r] = call[r] \/ pc[r] = "idle"
<1> USE DEF TypeInv
<1>1. CASE Start(r)
  BY <1>1 DEF Start, database
<1>2. CASE Run(r) \/ DatabaseFails(r) \/ TaskFails(r) \/ Die(r)
  BY <1>2
  DEF Run, CacheDevice, ReadEvents, WriteEventCache, ReadTelemetry, WriteTelemetryCache,
      StreamEvent, StreamOther, DatabaseFails, TaskFails, Die, database
<1>3. CASE InsertEvent(r)
  <2>1. TheEvent(r).device = call[r].device /\ TheEvent(r).at = At(r)
    BY RequestFacts
  <2> QED
    BY <1>3, <2>1 DEF InsertEvent, Inserted, Launch, Goto
<1>4. CASE InsertTelemetry(r)
  BY <1>4 DEF InsertTelemetry
<1>5. CASE InsertDevice(r) \/ UpdateDevice(r)
  <2>1. call[r].vehicle # None
    BY RequestFacts, CallFacts
  <2> QED
    BY <1>5, <2>1 DEF InsertDevice, UpdateDevice, TypeOK
<1>6. CASE ReadBack(r) \/ GetDevice(r) \/ ReportError(r) \/ ReadDeviceCache(r)
  BY <1>6 DEF ReadBack, GetDevice, ReportError, ReadDeviceCache, database
<1> QED
  BY <1>1, <1>2, <1>3, <1>4, <1>5, <1>6 DEF Step, Serve

(* How the promises of a request go on.                                    *)
LEMMA RunSteps ==
  ASSUME TypeInv, NEW r \in Requests, Run(r) \/ TaskFails(r) \/ Die(r)
  PROVE  /\ UNCHANGED <<database, call>>
         /\ pc'[r] = pc[r] \/ (pc[r] = "refresh" /\ pc'[r] = "telemetryDb")
              \/ (pc[r] = "fan" /\ pc'[r] = "ok")
              \/ (Die(r) /\ pc'[r] = "lost" /\ tasks'[r] = {})
         /\ tasks'[r] \subseteq tasks[r]
              \/ ("eventRead" \in tasks[r] /\ tasks'[r] \subseteq tasks[r] \cup {"eventWrite"})
              \/ ("telemetryRead" \in tasks[r] /\ tasks'[r] \subseteq tasks[r] \cup {"telemetryWrite"})
<1>t. TypeOK
  BY DEF TypeInv
<1>1. ASSUME NEW t, NEW next \in SUBSET AllTasks, NEW failed \in BOOLEAN, Settle(r, t, next, failed)
      PROVE  /\ t \in tasks[r] /\ tasks'[r] \subseteq tasks[r] \cup next
             /\ pc'[r] = pc[r] \/ (pc[r] = "refresh" /\ pc'[r] = "telemetryDb")
                   \/ (pc[r] = "fan" /\ pc'[r] = "ok")
  <2>1. Settling(r, t, next)
    BY <1>t, <1>1, SettleFacts
  <2> QED
    BY <1>t, <2>1 DEF Settling, TypeOK
<1>2. CASE ReadEvents(r)
  <2>1. Settle(r, "eventRead", {"eventWrite"}, FALSE) /\ {"eventWrite"} \in SUBSET AllTasks
    BY <1>2 DEF ReadEvents, AllTasks, EventTasks
  <2> QED
    BY <1>1, <1>2, <2>1 DEF ReadEvents
<1>3. CASE ReadTelemetry(r)
  <2>1. Settle(r, "telemetryRead", {"telemetryWrite"}, FALSE) /\ {"telemetryWrite"} \in SUBSET AllTasks
    BY <1>3 DEF ReadTelemetry, AllTasks, TelemetryTasks
  <2> QED
    BY <1>1, <1>3, <2>1 DEF ReadTelemetry
<1>4. CASE \/ CacheDevice(r) \/ WriteEventCache(r) \/ WriteTelemetryCache(r)
           \/ StreamEvent(r) \/ StreamOther(r) \/ TaskFails(r)
  <2>1. \E t : \E failed \in BOOLEAN : Settle(r, t, {}, failed)
    BY <1>4
    DEF CacheDevice, WriteEventCache, WriteTelemetryCache, StreamEvent, StreamOther, TaskFails
  <2>3. PICK t : \E failed \in BOOLEAN : Settle(r, t, {}, failed)
    BY <2>1
  <2>4. PICK failed \in BOOLEAN : Settle(r, t, {}, failed)
    BY <2>3
  <2>5. /\ t \in tasks[r] /\ tasks'[r] \subseteq tasks[r]
        /\ pc'[r] = pc[r] \/ (pc[r] = "refresh" /\ pc'[r] = "telemetryDb")
              \/ (pc[r] = "fan" /\ pc'[r] = "ok")
    <3>1. {} \in SUBSET AllTasks
      OBVIOUS
    <3>2. Settling(r, t, {})
      BY <1>t, <2>4, <3>1, SettleFacts
    <3> QED
      BY <1>t, <3>2 DEF Settling, TypeOK
  <2>2. UNCHANGED <<database, call>>
    BY <1>4
    DEF CacheDevice, WriteEventCache, WriteTelemetryCache, StreamEvent, StreamOther, TaskFails
  <2> QED
    BY <2>5, <2>2
<1>5. CASE Die(r)
  BY <1>t, <1>5 DEF Die, Goto, TypeOK
<1> QED
  BY <1>2, <1>3, <1>4, <1>5 DEF Run

LEMMA StageStep ==
  ASSUME TypeInv, NEW r \in Requests, Stage(r), Step(r)
  PROVE  Stage(r)'
<1> USE DEF TypeInv
<1>0. call[r].op \in AllOps
  BY RequestFacts, CallFacts
<1>1. CASE Start(r)
  <2>1. PICK c \in Calls : call'[r] = c /\ pc'[r] = FirstStep(c.op) /\ tasks'[r] = {}
    BY <1>1 DEF Start, Goto, TypeOK
  <2>2. c.op \in AllOps
    BY CallFacts
  <2> QED
    BY <2>1, <2>2 DEF Stage, FirstStep, AllOps
<1>2. CASE Run(r) \/ TaskFails(r) \/ Die(r)
  <2>1. call' = call
    BY <1>2, RunSteps
  <2>2. pc'[r] \in {"fan", "ok"} \/ tasks'[r] \cap (EventTasks \cup TelemetryTasks) = {}
    BY <1>2, RunSteps DEF Stage, EventTasks, TelemetryTasks
  <2>3. tasks'[r] \cap EventTasks # {} => tasks[r] \cap EventTasks # {}
    BY <1>2, RunSteps DEF EventTasks
  <2>4. tasks'[r] \cap (EventTasks \cup TelemetryTasks) # {} => tasks[r] \cap (EventTasks \cup TelemetryTasks) # {}
    BY <1>2, RunSteps DEF EventTasks, TelemetryTasks
  <2>5. tasks'[r] # {} => tasks[r] # {}
    BY <1>2, RunSteps
  <2>6. tasks'[r] # {} => pc'[r] \in Underway
    BY <1>2, <2>5, RunSteps DEF Stage, Underway
  <2> QED
    BY <1>2, <2>1, <2>2, <2>3, <2>4, <2>6, RunSteps DEF Stage
<1>3. CASE DatabaseFails(r)
  BY <1>3 DEF DatabaseFails, Goto, Stage, Underway, TypeOK
<1>4. CASE InsertDevice(r) \/ UpdateDevice(r) \/ ReadBack(r)
  <2>1. tasks[r] = {} /\ UNCHANGED call
    BY <1>4 DEF InsertDevice, UpdateDevice, ReadBack, Stage, Underway
  <2>2. \/ pc'[r] = "fan" /\ tasks'[r] = DeviceTasks
        \/ pc'[r] = "error" /\ tasks'[r] = {}
        \/ pc'[r] = "readBack" /\ tasks'[r] = {} /\ call[r].op = "update"
    BY <1>4, <2>1 DEF InsertDevice, UpdateDevice, ReadBack, Goto, Launch, Stage, TypeOK
  <2> QED
    BY <2>1, <2>2 DEF Stage, Underway, DeviceTasks, EventTasks, TelemetryTasks
<1>5. CASE GetDevice(r)
  <2>1. pc[r] = "getDevice" /\ tasks[r] = {} /\ call[r].op \in {"update", "event", "telemetry"}
    BY <1>0, <1>5 DEF GetDevice, AllOps, Stage, Underway
  <2>2. \/ call[r].op = "update" /\ pc'[r] \in {"updateDb", "error"}
        \/ call[r].op = "event" /\ pc'[r] \in {"readCache", "report"}
        \/ call[r].op = "telemetry" /\ pc'[r] \in {"telemetryDb", "error"}
    BY <1>5, <2>1 DEF GetDevice, Goto, TypeOK
  <2> QED
    BY <1>5, <2>1, <2>2 DEF GetDevice, Stage
<1>6. CASE ReportError(r) \/ ReadDeviceCache(r)
  <2>1. UNCHANGED call /\ tasks[r] \cap (EventTasks \cup TelemetryTasks) = {}
    BY <1>6 DEF ReportError, ReadDeviceCache, Stage
  <2>2. CASE ReportError(r)
    <3>1. tasks' = tasks /\ pc'[r] \in {"error", "lost"}
      BY <2>2 DEF ReportError, Goto, TypeOK
    <3> QED
      BY <2>1, <3>1 DEF Stage, Underway
  <2>3. CASE ReadDeviceCache(r)
    <3>1. pc[r] = "readCache" /\ tasks[r] = {} /\ call[r].op = "event"
      BY <2>3 DEF ReadDeviceCache, Stage, Underway
    <3>2. \/ pc'[r] = "telemetryDb" /\ tasks'[r] = {}
          \/ pc'[r] = "refresh" /\ tasks'[r] = DeviceTasks
      BY <2>3, <3>1 DEF ReadDeviceCache, Goto, Launch, TypeOK
    <3> QED
      BY <2>1, <3>1, <3>2 DEF Stage, Underway, DeviceTasks, EventTasks, TelemetryTasks
  <2> QED
    BY <1>6, <2>2, <2>3
<1>7. CASE InsertTelemetry(r)
  BY <1>7
  DEF InsertTelemetry, Goto, Launch, Stage, Underway, TypeOK, EventTasks, TelemetryTasks
<1>8. CASE InsertEvent(r)
  BY <1>8
  DEF InsertEvent, Goto, Launch, Stage, Underway, TypeOK, EventTasks, TelemetryTasks
<1> QED
  BY <1>1, <1>2, <1>3, <1>4, <1>5, <1>6, <1>7, <1>8 DEF Step, Serve

LEMMA BackedOther ==
  ASSUME TypeInv, NEW r \in Requests, Step(r), NEW s \in Requests \ {r}, Backed(s)
  PROVE  Backed(s)'
<1>1. /\ \A d \in Devices : devices[d] # None => devices'[d] # None
      /\ telemetry \subseteq telemetry' /\ events \subseteq events'
  BY DatabaseSteps DEF Inserted
<1>2. pc'[s] = pc[s] /\ tasks'[s] = tasks[s] /\ call'[s] = call[s]
  BY Others
<1>3. call[s].device \in Devices
  BY RequestFacts, CallFacts DEF TypeInv
<1> QED
  BY <1>1, <1>2, <1>3 DEF Backed, Recording, Points, TheEvent, At, Point

LEMMA BackedStep ==
  ASSUME TypeInv, NEW r \in Requests, Stage(r), Backed(r), Step(r)
  PROVE  Backed(r)'
<1>t. TypeOK /\ call[r] \in Calls /\ call[r].device \in Devices /\ call[r].vehicle # None
  BY RequestFacts, CallFacts DEF TypeInv
<1>1. CASE Start(r)
  <2>1. pc'[r] \in {"getDevice", "deviceDb"} /\ tasks'[r] = {}
    BY <1>t, <1>1 DEF Start, Goto, TypeOK, TypeInv, FirstStep
  <2> QED
    BY <2>1 DEF Backed, Recording
<1>2. CASE Run(r) \/ TaskFails(r) \/ Die(r)
  <2>1. UNCHANGED <<database, call>>
    BY <1>2, RunSteps
  <2>2. tasks'[r] # {} => tasks[r] # {}
    BY <1>2, RunSteps
  <2>3. pc'[r] = pc[r] \/ (pc[r] = "refresh" /\ pc'[r] = "telemetryDb")
          \/ (pc[r] = "fan" /\ pc'[r] = "ok") \/ (pc'[r] = "lost" /\ tasks'[r] = {})
    BY <1>2, RunSteps
  <2> QED
    BY <2>1, <2>2, <2>3 DEF Backed, Recording, Points, TheEvent, At, Point, database
<1>3. CASE DatabaseFails(r) \/ ReportError(r)
  <2>1. pc'[r] \in {"report", "error", "lost"} /\ UNCHANGED <<tasks, database, call>>
    BY <1>t, <1>3 DEF DatabaseFails, ReportError, Goto, TypeOK
  <2> QED
    BY <2>1 DEF Backed, Recording, database
<1>4. CASE InsertDevice(r) \/ UpdateDevice(r) \/ ReadBack(r)
  <2>1. UNCHANGED <<call, telemetry, events>> /\ call[r].op \in {"register", "update"}
    BY <1>4 DEF InsertDevice, UpdateDevice, ReadBack, Stage, database
  <2>2. devices'[call[r].device] # None \/ (pc'[r] = "error" /\ tasks'[r] = tasks[r] /\ devices' = devices)
    BY <1>t, <1>4 DEF InsertDevice, UpdateDevice, ReadBack, Goto, Backed, TypeOK, database
  <2> QED
    BY <2>1, <2>2 DEF Backed, Recording
<1>5. CASE GetDevice(r) \/ ReadDeviceCache(r)
  <2>1. UNCHANGED <<call, database>> /\ pc[r] \in {"getDevice", "readCache"}
    BY <1>5 DEF GetDevice, ReadDeviceCache
  <2>2. \/ /\ pc'[r] \in {"updateDb", "readCache", "telemetryDb", "refresh"}
           /\ devices[call[r].device] # None
        \/ pc'[r] \in {"report", "error"} /\ tasks'[r] = tasks[r]
    <3>1. CASE GetDevice(r)
      <4>1. call[r].op \in {"update", "event", "telemetry"}
        BY <1>t, <3>1, CallFacts DEF GetDevice, TypeInv, AllOps
      <4> QED
        BY <1>t, <3>1, <4>1 DEF GetDevice, Goto, TypeOK
    <3>2. CASE ReadDeviceCache(r)
      <4>1. pc[r] = "readCache" /\ pc'[r] \in {"telemetryDb", "refresh"}
        BY <1>t, <3>2 DEF ReadDeviceCache, Goto, Launch, TypeOK
      <4> QED
        BY <4>1 DEF Backed
    <3> QED
      BY <1>5, <3>1, <3>2
  <2> QED
    BY <2>1, <2>2 DEF Backed, Recording, database
<1>6. CASE InsertTelemetry(r)
  <2>1. /\ UNCHANGED <<call, devices, events>> /\ telemetry' = telemetry \cup Points(r)
        /\ pc[r] = "telemetryDb" /\ devices[call[r].device] # None
    BY <1>6 DEF InsertTelemetry, Backed
  <2>2. pc'[r] = "eventDb" \/ (call[r].op # "event")
    BY <1>t, <1>6 DEF InsertTelemetry, Goto, TypeOK
  <2> QED
    BY <2>1, <2>2 DEF Backed, Recording, Points
<1>7. CASE InsertEvent(r)
  <2>1. /\ UNCHANGED <<call, devices, telemetry>>
        /\ pc[r] = "eventDb" /\ devices[call[r].device] # None
    BY <1>7 DEF InsertEvent, Backed
  <2>2. pc'[r] = "report" \/ (pc'[r] = "fan" /\ TheEvent(r) \in events')
    BY <1>t, <1>7 DEF InsertEvent, Goto, Launch, TypeOK
  <2> QED
    BY <2>1, <2>2 DEF Backed, Recording, Points, TheEvent, At, Point, Stage
<1> QED
  BY <1>1, <1>2, <1>3, <1>4, <1>5, <1>6, <1>7 DEF Step, Serve

(* Once its promises run a request keeps its call, and goes on to its end. *)
LEMMA FanStep ==
  ASSUME TypeInv, NEW r \in Requests, Step(r), pc[r] \in {"fan", "ok", "lost"}
  PROVE  call' = call /\ pc'[r] \in {"fan", "ok", "lost"}
<1>1. ~ Start(r) /\ ~ Serve(r) /\ ~ DatabaseFails(r)
  BY DEF Start, Serve, InsertDevice, UpdateDevice, ReadBack, GetDevice, ReportError,
         ReadDeviceCache, InsertTelemetry, InsertEvent, DatabaseFails
<1>2. Run(r) \/ TaskFails(r) \/ Die(r)
  BY <1>1 DEF Step
<1> QED
  BY <1>2, RunSteps

LEMMA KeyedStep ==
  ASSUME TypeInv, NEW r \in Requests, Keyed, Step(r)
  PROVE  Keyed'
<1>1. events' = events \/ Inserted(r)
  BY DatabaseSteps
<1>2. TheEvent(r).device = call[r].device /\ TheEvent(r).at = At(r)
  BY RequestFacts DEF TypeInv
<1> QED
  BY <1>1, <1>2 DEF Keyed, Inserted

(* Who may send on the event stream.                                       *)
LEMMA TopicStep ==
  ASSUME TypeInv, NEW r \in Requests, Stage(r), Backed(r), Step(r)
  PROVE  eventTopic' = eventTopic
           \/ /\ eventTopic' = eventTopic \cup {[by |-> r, event |-> TheEvent(r)]}
              /\ Recording(r) /\ TheEvent(r) \in events /\ call' = call
<1>1. CASE StreamEvent(r)
  <2>1. "eventTopic" \in tasks[r] /\ call' = call
        /\ eventTopic' = eventTopic \cup {[by |-> r, event |-> TheEvent(r)]}
    BY <1>1 DEF StreamEvent, Settle
  <2>2. Recording(r)
    BY <2>1 DEF Stage, EventTasks, Recording
  <2> QED
    BY <2>1, <2>2 DEF Backed
<1>2. CASE ~ StreamEvent(r)
  BY <1>2
  DEF Step, Start, Run, CacheDevice, ReadEvents, WriteEventCache, ReadTelemetry,
      WriteTelemetryCache, StreamOther, TaskFails, Die, DatabaseFails, Serve, InsertDevice,
      UpdateDevice, ReadBack, GetDevice, ReportError, ReadDeviceCache, InsertTelemetry, InsertEvent
<1> QED
  BY <1>1, <1>2

LEMMA TracedStep ==
  ASSUME TypeInv, NEW r \in Requests, Stage(r), Backed(r), Traced, Step(r)
  PROVE  Traced'
<1>1. events \subseteq events'
  BY DatabaseSteps DEF Inserted
<1>2. ASSUME NEW m \in eventTopic
      PROVE  /\ call'[m.by] = call[m.by] /\ m.event \in events'
             /\ pc'[m.by] \in {"fan", "ok", "lost"}
  <2>1. m.by \in Requests /\ pc[m.by] \in {"fan", "ok", "lost"} /\ m.event \in events
    BY DEF Traced, TypeInv, TypeOK
  <2>2. CASE m.by = r
    BY <1>1, <2>1, <2>2, FanStep
  <2>3. CASE m.by # r
    BY <1>1, <2>1, <2>3, Others
  <2> QED
    BY <2>2, <2>3
<1>3. ASSUME NEW m \in eventTopic'
      PROVE  /\ call'[m.by].op = "event" /\ pc'[m.by] \in {"fan", "ok", "lost"}
             /\ m.event = TheEvent(m.by)' /\ m.event \in events'
  <2>1. CASE m \in eventTopic
    BY <1>2, <2>1 DEF Traced, TheEvent, At, Point
  <2>2. CASE m \notin eventTopic
    <3>1. /\ m = [by |-> r, event |-> TheEvent(r)]
          /\ Recording(r) /\ TheEvent(r) \in events /\ call' = call
      BY <1>3, <2>2, TopicStep
    <3>2. m.by = r /\ m.event = TheEvent(r)
      BY <3>1
    <3>3. pc'[r] \in {"fan", "ok", "lost"}
      BY <3>1, FanStep DEF Recording
    <3> QED
      BY <1>1, <3>1, <3>2, <3>3 DEF Recording, TheEvent, At, Point
  <2> QED
    BY <2>1, <2>2
<1> QED
  BY <1>3 DEF Traced

(* Who owns an event owned it before, or has just inserted it.             *)
LEMMA OwnerStep ==
  ASSUME TypeInv, NEW r \in Requests, Stage(r), Backed(r), Traced, Step(r),
         NEW s \in Requests, Owner(s)'
  PROVE  /\ call'[s] = call[s]
         /\ Owner(s) \/ (s = r /\ Inserted(r))
<1>1. ASSUME NEW m \in eventTopic', m.by = s
      PROVE  Owner(s) /\ call'[s] = call[s]
  <2>1. CASE m \in eventTopic
    <3>1. Owner(s) /\ pc[s] \in {"fan", "ok", "lost"}
      BY <1>1, <2>1 DEF Owner, Traced
    <3> QED
      BY <3>1, FanStep, Others
  <2>2. CASE m \notin eventTopic
    <3>1. m = [by |-> r, event |-> TheEvent(r)] /\ Recording(r) /\ call' = call
      BY <1>1, <2>2, TopicStep
    <3> QED
      BY <1>1, <3>1 DEF Owner
  <2> QED
    BY <2>1, <2>2
<1>2. ASSUME Recording(s)', s # r
      PROVE  Owner(s) /\ call'[s] = call[s]
  BY <1>2, Others DEF Owner, Recording
<1>3. ASSUME Recording(r)', ~ Recording(r)
      PROVE  Inserted(r) /\ call' = call
  <2>0. pc'[r] \in {"fan", "ok"} /\ call'[r].op = "event"
    BY <1>3 DEF Recording
  <2>1. CASE Run(r) \/ TaskFails(r) \/ Die(r)
    <3>1. call' = call /\ pc[r] \in {"fan", "ok"}
      BY <2>0, <2>1, RunSteps
    <3> QED
      BY <1>3, <2>0, <3>1 DEF Recording
  <2>2. CASE Start(r) \/ DatabaseFails(r) \/ ReportError(r) \/ ReadDeviceCache(r) \/ UpdateDevice(r)
    BY <2>0, <2>2
    DEF Start, DatabaseFails, ReportError, ReadDeviceCache, UpdateDevice, Goto, Launch, FirstStep,
        TypeInv, TypeOK
  <2>3. CASE InsertDevice(r) \/ ReadBack(r)
    BY <2>0, <2>3 DEF InsertDevice, ReadBack, Stage
  <2>4. CASE GetDevice(r)
    <3>1. call[r].op \in {"update", "event", "telemetry"}
      BY <2>4, RequestFacts, CallFacts DEF GetDevice, TypeInv, AllOps
    <3> QED
      BY <2>0, <2>4, <3>1 DEF GetDevice, Goto, TypeInv, TypeOK
  <2>5. CASE InsertTelemetry(r)
    BY <2>0, <2>5 DEF InsertTelemetry, Goto, TypeInv, TypeOK
  <2>6. CASE InsertEvent(r)
    <3>1. TheEvent(r).device = call[r].device /\ TheEvent(r).at = At(r)
      BY RequestFacts DEF TypeInv
    <3> QED
      BY <2>0, <2>6, <3>1 DEF InsertEvent, Inserted, Launch, Goto, TypeInv, TypeOK
  <2> QED
    BY <2>1, <2>2, <2>3, <2>4, <2>5, <2>6 DEF Step, Serve
<1>4. CASE Recording(s)'
  BY <1>2, <1>3, <1>4, FanStep DEF Recording, Owner
<1> QED
  BY <1>1, <1>4 DEF Owner

LEMMA OneOwnerStep ==
  ASSUME TypeInv, NEW r \in Requests, \A s \in Requests : Stage(s) /\ Backed(s),
         Traced, OneOwner, Step(r)
  PROVE  OneOwner'
<1>1. ASSUME NEW s \in Requests, Owner(s)
      PROVE  \E f \in events : f.device = call[s].device /\ f.at = At(s)
  <2>1. TheEvent(s) \in events
    BY <1>1 DEF Owner, Backed, Traced
  <2> QED
    BY <2>1, RequestFacts DEF TypeInv
<1>2. ASSUME Inserted(r), NEW s \in Requests, Owner(s)
      PROVE  call[r].device # call[s].device \/ At(r) # At(s)
  BY <1>1, <1>2 DEF Inserted
<1>3. ASSUME NEW s \in Requests, NEW x \in Requests \ {s}, Owner(s)', Owner(x)'
      PROVE  call'[s].device # call'[x].device \/ At(s)' # At(x)'
  <2>1. call'[s] = call[s] /\ (Owner(s) \/ (s = r /\ Inserted(r)))
    BY <1>3, OwnerStep
  <2>2. call'[x] = call[x] /\ (Owner(x) \/ (x = r /\ Inserted(r)))
    BY <1>3, OwnerStep
  <2>3. call[s].device # call[x].device \/ At(s) # At(x)
    BY <1>2, <1>3, <2>1, <2>2 DEF OneOwner
  <2> QED
    BY <2>1, <2>2, <2>3 DEF At
<1> QED
  BY <1>3 DEF OneOwner

(* The cache holds what was recorded first.                                *)
LEMMA UniqueChoice ==
  ASSUME NEW E, \A e, f \in E : e.device = f.device /\ e.at = f.at => e = f, NEW x \in E
  PROVE  (CHOOSE e \in E : e.device = x.device /\ e.at = x.at) = x
OBVIOUS

EventBacked(d, cached) ==
  \E e \in events :
    /\ e.device = d /\ e.at = cached.at /\ e.point = cached.point
    /\ IsPrefix(e.types, cached.types)

PointBacked(d, t) == \E p \in telemetry : p.device = d /\ p.at = t

CacheBacked ==
  \A d \in Devices :
    /\ cachedDevice[d] # None => devices[d] # None
    /\ cachedEvent[d] # None => EventBacked(d, cachedEvent[d])
    /\ cachedTelemetry[d] # None => PointBacked(d, cachedTelemetry[d])
    /\ location[d] # None => PointBacked(d, location[d])

LEMMA CacheBackedFollows ==
  /\ Keyed => (CacheBacked <=> CacheFollowsDatabase)
  /\ (Keyed => (CacheBacked <=> CacheFollowsDatabase))'
<1>1. ASSUME Keyed, NEW d \in Devices, NEW cached
      PROVE  EventBacked(d, cached)
               <=> /\ Recorded(d, cached.at)
                   /\ cached.point = EventOf(d, cached.at).point
                   /\ IsPrefix(EventOf(d, cached.at).types, cached.types)
  <2>1. ASSUME NEW e \in events, e.device = d, e.at = cached.at
        PROVE  EventOf(d, cached.at) = e
    BY <1>1, <2>1, UniqueChoice, Zenon DEF EventOf, Keyed
  <2> QED
    BY <2>1 DEF EventBacked, Recorded
<1>2. ASSUME NEW d \in Devices
      PROVE  {cachedTelemetry[d], location[d]} \ {None}
                 \subseteq {p.at : p \in {q \in telemetry : q.device = d}}
               <=> /\ cachedTelemetry[d] # None => PointBacked(d, cachedTelemetry[d])
                   /\ location[d] # None => PointBacked(d, location[d])
  BY DEF PointBacked
<1>3. Keyed => (CacheBacked <=> CacheFollowsDatabase)
  BY <1>1, <1>2 DEF CacheBacked, CacheFollowsDatabase
<1>4. (Keyed => (CacheBacked <=> CacheFollowsDatabase))'
  BY <1>3, PTL
<1> QED
  BY <1>3, <1>4

LEMMA CacheBackedStep ==
  ASSUME TypeInv, NEW r \in Requests, Stage(r), Backed(r), CacheBacked, Step(r)
  PROVE  CacheBacked'
<1>t. TypeOK /\ call[r] \in Calls /\ call[r].device \in Devices
  BY RequestFacts, CallFacts DEF TypeInv
<1>1. /\ \A d \in Devices : devices[d] # None => devices'[d] # None
      /\ telemetry \subseteq telemetry' /\ events \subseteq events'
  BY DatabaseSteps DEF Inserted
<1>2. /\ \A d, cached : EventBacked(d, cached) => EventBacked(d, cached)'
      /\ \A d, t : PointBacked(d, t) => PointBacked(d, t)'
  BY <1>1 DEF EventBacked, PointBacked
<1>3. CASE UNCHANGED cache
  <2>1. UNCHANGED <<cachedDevice, cachedEvent, cachedTelemetry, location>>
    BY <1>3 DEF cache
  <2> QED
    BY <2>1, <1>1, <1>2 DEF CacheBacked
<1>4. CASE CacheDevice(r)
  <2>1. /\ cachedDevice' = [cachedDevice EXCEPT ![call[r].device] = seen[r]]
        /\ UNCHANGED <<cachedEvent, cachedTelemetry, location>>
        /\ tasks[r] # {}
    BY <1>4 DEF CacheDevice, Settle
  <2>2. devices'[call[r].device] # None
    BY <1>1, <1>t, <2>1 DEF Backed
  <2>3. ASSUME NEW d \in Devices, cachedDevice'[d] # None PROVE devices'[d] # None
    BY <1>1, <1>t, <2>1, <2>2, <2>3 DEF CacheBacked, TypeOK
  <2> QED
    BY <1>2, <2>1, <2>3 DEF CacheBacked
<1>5. CASE WriteEventCache(r)
  <2> DEFINE d == call[r].device
             e == TheEvent(r)
             old == IF cachedEvent[d] = None THEN << >> ELSE cachedEvent[d].types
             new == Cached(e, old)
  <2>1. Recording(r)
    BY <1>5 DEF WriteEventCache, Settle, Stage, EventTasks, Recording
  <2>2. e \in events /\ e.device = d /\ e.point = Point(r) /\ e.types = call[r].types
    BY <1>t, <2>1, RequestFacts DEF Backed
  <2>3. PointBacked(d, Point(r))
    <3>1. [device |-> d, at |-> Point(r)] \in telemetry
      BY <1>t, <2>1, RequestFacts DEF Backed, Recording
    <3> QED
      BY <3>1 DEF PointBacked
  <2>4. EventBacked(d, new)
    <3>1. old \in Seq(STRING)
      <4>1. cachedEvent[d] \in CachedEvents \cup {None} /\ << >> \in Seq(STRING)
        BY <1>t DEF TypeOK
      <4> QED
        BY <4>1 DEF CachedEvents
    <3>2. IsPrefix(e.types, new.types)
      BY <1>t, <2>2, <3>1, CallFacts, FlattenedFacts DEF Cached
    <3> QED
      BY <2>2, <3>2 DEF EventBacked, Cached
  <2>5. \/ cachedEvent' = cachedEvent
        \/ cachedEvent' = [cachedEvent EXCEPT ![d] = None]
        \/ cachedEvent' = [cachedEvent EXCEPT ![d] = new]
    BY <1>5 DEF WriteEventCache, cache
  <2>6. location' = location \/ location' = [location EXCEPT ![d] = Point(r)]
    BY <1>5, <2>2 DEF WriteEventCache, cache
  <2>7. /\ cachedDevice' = cachedDevice \/ cachedDevice' = [cachedDevice EXCEPT ![d] = None]
        /\ cachedTelemetry' = cachedTelemetry \/ cachedTelemetry' = [cachedTelemetry EXCEPT ![d] = None]
    BY <1>5 DEF WriteEventCache, cache
  <2> HIDE DEF new, d
  <2>8. ASSUME NEW x \in Devices
        PROVE  /\ cachedEvent'[x] # None => EventBacked(x, cachedEvent'[x])
               /\ location'[x] # None => PointBacked(x, location'[x])
               /\ cachedDevice'[x] # None => cachedDevice'[x] = cachedDevice[x]
               /\ cachedTelemetry'[x] # None => cachedTelemetry'[x] = cachedTelemetry[x]
    <3>1. cachedEvent'[x] # None => EventBacked(x, cachedEvent'[x])
      BY <1>t, <2>4, <2>5 DEF CacheBacked, TypeOK
    <3>2. location'[x] # None => PointBacked(x, location'[x])
      BY <1>t, <2>3, <2>6 DEF CacheBacked, TypeOK
    <3> QED
      BY <1>t, <2>7, <3>1, <3>2 DEF TypeOK
  <2> QED
    BY <1>1, <1>2, <2>8 DEF CacheBacked
<1>6. CASE WriteTelemetryCache(r)
  <2> DEFINE d == call[r].device
             last == call[r].batch[Max(Newer(r))]
  <2>1. UNCHANGED <<cachedDevice, cachedEvent>>
        /\ \/ UNCHANGED <<cachedTelemetry, location>>
           \/ /\ Newer(r) # {}
              /\ cachedTelemetry' = [cachedTelemetry EXCEPT ![d] = last]
              /\ location' = [location EXCEPT ![d] = last]
    BY <1>6 DEF WriteTelemetryCache
  <2>2. Points(r) \subseteq telemetry
    BY <1>6 DEF WriteTelemetryCache, Settle, Stage, TelemetryTasks, Backed
  <2>3. Newer(r) # {} => PointBacked(d, last)
    <3>1. SUFFICES ASSUME Newer(r) # {} PROVE PointBacked(d, last)
      OBVIOUS
    <3>2. last \in Range(call[r].batch)
      BY <3>1, NewerFacts DEF Range
    <3>3. [device |-> d, at |-> last] \in Points(r)
      BY <3>2 DEF Points
    <3>4. [device |-> d, at |-> last] \in telemetry
      BY <2>2, <3>3
    <3> QED
      BY <3>4 DEF PointBacked
  <2> HIDE DEF d, last
  <2>4. ASSUME NEW x \in Devices
        PROVE  /\ cachedTelemetry'[x] # None => PointBacked(x, cachedTelemetry'[x])
               /\ location'[x] # None => PointBacked(x, location'[x])
    BY <1>t, <2>1, <2>3 DEF CacheBacked, TypeOK
  <2> QED
    BY <1>1, <1>2, <2>1, <2>4 DEF CacheBacked
<1>7. CASE ~ CacheDevice(r) /\ ~ WriteEventCache(r) /\ ~ WriteTelemetryCache(r)
  <2>1. UNCHANGED cache
    BY <1>7
    DEF Step, Start, Run, ReadEvents, ReadTelemetry, StreamEvent, StreamOther, TaskFails, Die,
        DatabaseFails, Serve, InsertDevice, UpdateDevice, ReadBack, GetDevice, ReportError,
        ReadDeviceCache, InsertTelemetry, InsertEvent
  <2> QED
    BY <1>3, <2>1
<1> QED
  BY <1>4, <1>5, <1>6, <1>7

LEMMA InitSafeInv == Init => SafeInv
<1> SUFFICES ASSUME Init PROVE SafeInv
  OBVIOUS
<1>1. TypeInv
  BY InitTypeInv
<1>2. ASSUME NEW r \in Requests PROVE Stage(r) /\ Backed(r) /\ ~ Owner(r)
  BY DEF Init, Stage, Backed, Recording, Owner
<1>3. Keyed /\ Traced
  BY DEF Init, Keyed, Traced
<1>4. CacheBacked
  BY DEF Init, CacheBacked
<1> QED
  BY <1>1, <1>2, <1>3, <1>4, CacheBackedFollows DEF SafeInv, OneOwner

LEMMA NextSafeInv == ASSUME SafeInv, [Next]_vars PROVE SafeInv'
<1>1. TypeInv'
  BY NextTypeInv DEF SafeInv
<1>2. CASE UNCHANGED vars
  <2> USE <1>2 DEF vars, database, cache, locals
  <2>1. \A r \in Requests : (Stage(r) => Stage(r)') /\ (Backed(r) => Backed(r)')
    BY DEF Stage, Backed, Recording, Points, TheEvent, At, Point
  <2>2. (Keyed => Keyed') /\ (Traced => Traced')
    BY DEF Keyed, Traced, TheEvent, At, Point
  <2>3. OneOwner => OneOwner'
    BY DEF OneOwner, Owner, Recording, At
  <2>4. CacheFollowsDatabase => CacheFollowsDatabase'
    BY DEF CacheFollowsDatabase, Recorded, EventOf
  <2> QED
    BY <1>1, <2>1, <2>2, <2>3, <2>4 DEF SafeInv
<1>3. CASE Next
  <2>1. PICK r \in Requests : Step(r)
    BY <1>3 DEF Next, Step
  <2>2. /\ TypeInv /\ Keyed /\ Traced /\ OneOwner /\ CacheBacked
        /\ \A s \in Requests : Stage(s) /\ Backed(s)
    BY CacheBackedFollows DEF SafeInv
  <2>3. ASSUME NEW s \in Requests PROVE Stage(s)' /\ Backed(s)'
    <3>1. CASE s = r
      BY <2>1, <2>2, <3>1, StageStep, BackedStep
    <3>2. CASE s # r
      <4>1. Backed(s)'
        BY <2>1, <2>2, <3>2, BackedOther
      <4>2. Stage(s)'
        BY <2>1, <2>2, <3>2, Others DEF Stage
      <4> QED
        BY <4>1, <4>2
    <3> QED
      BY <3>1, <3>2
  <2>4. Keyed'
    BY <2>1, <2>2, KeyedStep
  <2>5. Traced'
    BY <2>1, <2>2, TracedStep
  <2>6. OneOwner'
    BY <2>1, <2>2, OneOwnerStep
  <2>7. CacheFollowsDatabase'
    BY <2>1, <2>2, <2>4, CacheBackedStep, CacheBackedFollows
  <2> QED
    BY <1>1, <2>3, <2>4, <2>5, <2>6, <2>7 DEF SafeInv
<1> QED
  BY <1>2, <1>3

(* An event is accepted, stored and streamed once, whatever interleaves or *)
(* fails: the request that inserted the row is its owner, and no other.    *)
THEOREM EventStoredOnce == Spec => []EventOnce
<1>1. Init => SafeInv
  BY InitSafeInv
<1>2. SafeInv /\ [Next]_vars => SafeInv'
  BY NextSafeInv
<1>3. SafeInv => EventOnce
  <2> SUFFICES ASSUME SafeInv PROVE EventOnce
    OBVIOUS
  <2>1. AcceptedOnce
    <3>1. ASSUME NEW r \in Requests, pc[r] = "ok", call[r].op = "event"
          PROVE  TheEvent(r) \in events /\ Points(r) \subseteq telemetry
                   /\ devices[call[r].device] # None /\ Owner(r)
      BY <3>1 DEF SafeInv, Backed, Recording, Owner
    <3> QED
      BY <3>1 DEF AcceptedOnce, SafeInv, OneOwner
  <2>2. StreamedOnce
    <3>1. ASSUME NEW m \in eventTopic, NEW n \in eventTopic,
                 m.event.device = n.event.device, m.event.at = n.event.at
          PROVE  m = n
      <4>1. /\ m \in [by : Requests, event : Events] /\ n \in [by : Requests, event : Events]
            /\ Owner(m.by) /\ Owner(n.by)
            /\ m.event = TheEvent(m.by) /\ n.event = TheEvent(n.by)
        BY DEF SafeInv, Traced, TypeInv, TypeOK, Owner
      <4>2. /\ m.event.device = call[m.by].device /\ m.event.at = At(m.by)
            /\ n.event.device = call[n.by].device /\ n.event.at = At(n.by)
        BY <4>1, RequestFacts DEF SafeInv, TypeInv
      <4>3. m.by = n.by
        BY <3>1, <4>1, <4>2 DEF SafeInv, OneOwner
      <4> QED
        BY <4>1, <4>3
    <3> QED
      BY <3>1 DEF StreamedOnce, SafeInv, Traced
  <2> QED
    BY <2>1, <2>2 DEF EventOnce
<1> QED
  BY <1>1, <1>2, <1>3, PTL DEF Spec

(* What the cache holds of a device was recorded first, whatever requests  *)
(* interleave and wherever they fail.                                      *)
THEOREM CacheBehindDatabase == Spec => []CacheFollowsDatabase
<1>1. Init => SafeInv
  BY InitSafeInv
<1>2. SafeInv /\ [Next]_vars => SafeInv'
  BY NextSafeInv
<1>3. SafeInv => CacheFollowsDatabase
  BY DEF SafeInv
<1> QED
  BY <1>1, <1>2, <1>3, PTL DEF Spec

(***************************************************************************)
(* The order of the writes to the cache.                                   *)
(***************************************************************************)
WriteTask(kind) == IF kind = "event" THEN "eventWrite" ELSE "telemetryWrite"
Pending(kind, s) == WriteTask(kind) \in tasks[s]

(* The timestamp that a request found in the cache before it writes.       *)
Prior(kind, s) ==
  IF kind = "telemetry" THEN priorTelemetry[s]
  ELSE IF priorEvent[s] = None THEN None
  ELSE priorEvent[s].at

(* Telemetry that goes to the cache was returned by the INSERT.            *)
Returned(r) ==
  call[r].op = "telemetry" =>
    /\ pc[r] \in {"getDevice", "telemetryDb"} => recorded[r] = {}
    /\ pc[r] \in {"fan", "ok"} => recorded[r] # {}

Bringing(kind, r) ==
  /\ pc[r] \in {"fan", "ok", "lost"}
  /\ call[r].op = "event" \/ call[r].op = kind
  /\ call[r].op = "telemetry" => recorded[r] # {}

HistoryOK ==
  /\ earlier \in [Requests -> SUBSET Requests]
  /\ written \subseteq Requests \X Kinds
  /\ \A r \in Requests : \A q \in earlier[r] : Settled(q)
  /\ \A w \in written : Bringing(w[2], w[1])

(* What a request found is not older than what requests that were over     *)
(* when it started have written; and if it will not write because of what  *)
(* it found, then the cache still holds something that is not older.       *)
FoundInOrder(kind, s) ==
  Pending(kind, s) /\ ~ Decommissioned(call[s].device) =>
    /\ \A q \in earlier[s] :
         <<q, kind>> \in written /\ call[q].device = call[s].device =>
           Holds(kind, Prior(kind, s), q)
    /\ Prior(kind, s) # None /\ Prior(kind, s) >= Mark(kind, s) =>
         Holds(kind, CachedTime(kind, call[s].device), s)

OrderInv ==
  /\ SafeInv
  /\ HistoryOK
  /\ \A r \in Requests : Returned(r)
  /\ \A s \in Requests : \A kind \in Kinds : FoundInOrder(kind, s)
  /\ NewestKept

LEMMA OfferedFacts ==
  ASSUME TypeInv, NEW r \in Requests, NEW S, S \subseteq Offered(r), S # {}
  PROVE  /\ Max(S) \in S /\ \A i \in S : i <= Max(S)
         /\ Offered(r) \subseteq Nat
         /\ \A i \in Offered(r) : call[r].batch[i] \in Times /\ call[r].batch[i] \in Nat
<1>1. PICK n \in Nat : DOMAIN call[r].batch = 1 .. n /\ \A i \in 1 .. n : call[r].batch[i] \in Times
  BY CallFacts, RequestFacts DEF TypeInv
<1>2. Offered(r) \subseteq 1 .. n
  BY <1>1 DEF Offered, TypeInv
<1>3. Max(S) \in S /\ \A i \in S : i <= Max(S)
  <2>1. S \subseteq 1 .. n
    BY <1>2
  <2> QED
    BY <2>1, MaxFacts
<1>4. Times \subseteq Nat
  BY ConstantsOK
<1>5. \A i \in Offered(r) : call[r].batch[i] \in Times
  BY <1>1, <1>2
<1>6. Offered(r) \subseteq Nat
  BY <1>2
<1> QED
  BY <1>3, <1>4, <1>5, <1>6

LEMMA MarkFacts ==
  ASSUME TypeInv, NEW kind \in Kinds, NEW r \in Requests, Bringing(kind, r)
  PROVE  /\ Mark(kind, r) \in Brought(kind, r)
         /\ Brought(kind, r) \subseteq Times /\ Times \subseteq Nat
         /\ kind = "telemetry" => Offered(r) # {}
<1>1. Times \subseteq Nat
  BY ConstantsOK
<1>2. CASE kind = "event"
  BY <1>1, <1>2, RequestFacts DEF Mark, Brought, TypeInv
<1>3. CASE kind = "telemetry"
  <2>1. Offered(r) # {}
    <3>1. call[r] \in Calls
      BY RequestFacts DEF TypeInv
    <3>2. 1 \in DOMAIN call[r].batch
      BY <3>1, CallFacts
    <3> QED
      BY <1>3, <3>2 DEF Bringing, Offered
  <2>2. Max(Offered(r)) \in Offered(r) /\ \A i \in Offered(r) : call[r].batch[i] \in Times
    BY <2>1, OfferedFacts
  <2>3. kind # "event"
    BY <1>3
  <2> QED
    BY <1>1, <2>1, <2>2, <2>3 DEF Mark, Brought
<1> QED
  BY <1>2, <1>3 DEF Kinds

(* A request that is about to write brings something.                      *)
LEMMA PendingFacts ==
  ASSUME NEW kind \in Kinds, NEW s \in Requests, Stage(s), Returned(s), Pending(kind, s)
  PROVE  Bringing(kind, s) /\ ~ Settled(s) /\ pc[s] \in {"fan", "ok"}
  BY DEF Pending, WriteTask, Bringing, Stage, Returned, Kinds, EventTasks, TelemetryTasks, Settled

(* What a step leaves alone of a request that has started.                 *)
OrderStep(r) ==
  /\ Step(r)
  /\ \/ Start(r) /\ earlier' = [earlier EXCEPT ![r] = {s \in Requests : Settled(s)}]
     \/ pc[r] # "idle" /\ earlier' = earlier

LEMMA StartedStep ==
  ASSUME TypeInv, NEW r \in Requests, OrderStep(r), Stage(r), Returned(r),
         NEW s \in Requests, pc[s] # "idle", earlier \in [Requests -> SUBSET Requests]
  PROVE  /\ pc'[s] # "idle" /\ call'[s] = call[s] /\ earlier'[s] = earlier[s]
         /\ call[s].op = "event" \/ recorded[s] \subseteq recorded'[s] \/ call[s].op \notin Kinds
         /\ pc[s] \in {"fan", "ok", "lost"} =>
              pc'[s] \in {"fan", "ok", "lost"} /\ recorded'[s] = recorded[s]
<1>1. CASE s # r
  <2>1. pc'[s] = pc[s] /\ call'[s] = call[s] /\ recorded'[s] = recorded[s]
    BY <1>1, Others DEF OrderStep
  <2>2. earlier'[s] = earlier[s]
    BY <1>1 DEF OrderStep
  <2> QED
    BY <2>1, <2>2
<1>2. CASE s = r
  <2>1. ~ Start(r) /\ Step(r)
    BY <1>2 DEF OrderStep, Start
  <2>2. earlier' = earlier /\ call'[r] = call[r]
    BY <1>2, <2>1, DatabaseSteps DEF OrderStep
  <2>3. pc'[r] # "idle"
    <3>1. CASE Run(r) \/ TaskFails(r) \/ Die(r)
      BY <1>2, <3>1, RunSteps
    <3>2. CASE Serve(r) \/ DatabaseFails(r)
      <4>1. call[r].op \in AllOps
        BY RequestFacts, CallFacts DEF TypeInv
      <4> QED
        BY <3>2, <4>1
        DEF Serve, DatabaseFails, InsertDevice, UpdateDevice, ReadBack, GetDevice, ReportError,
            ReadDeviceCache, InsertTelemetry, InsertEvent, Goto, Launch, TypeInv, TypeOK, AllOps
    <3> QED
      BY <2>1, <3>1, <3>2 DEF Step
  <2>4. CASE InsertTelemetry(r)
    BY <1>2, <2>2, <2>3, <2>4 DEF InsertTelemetry, Returned, Kinds
  <2>5. CASE ~ InsertTelemetry(r)
    <3>1. recorded' = recorded
      BY <2>1, <2>5
      DEF Step, Run, CacheDevice, ReadEvents, WriteEventCache, ReadTelemetry, WriteTelemetryCache,
          StreamEvent, StreamOther, DatabaseFails, TaskFails, Die, locals, Serve, InsertDevice,
          UpdateDevice, ReadBack, GetDevice, ReportError, ReadDeviceCache, InsertEvent
    <3>2. pc[r] \in {"fan", "ok", "lost"} => pc'[r] \in {"fan", "ok", "lost"}
      BY <2>1, FanStep
    <3> QED
      BY <1>2, <2>2, <2>3, <3>1, <3>2
  <2> QED
    BY <2>4, <2>5
<1> QED
  BY <1>1, <1>2

(* An excuse stays one, and what a request has brought does not change.    *)
LEMMA ExcusedStep ==
  ASSUME SafeInv, HistoryOK, \A s \in Requests : Returned(s), NEW r \in Requests, OrderStep(r),
         NEW kind \in Kinds, NEW q \in Requests, Bringing(kind, q)
  PROVE  /\ Bringing(kind, q)' /\ Mark(kind, q)' = Mark(kind, q)
         /\ Excused(kind, q) => Excused(kind, q)'
<1>t. TypeInv /\ Stage(r) /\ Returned(r) /\ earlier \in [Requests -> SUBSET Requests]
  BY DEF SafeInv, HistoryOK
<1>1. /\ pc[q] # "idle" /\ call'[q] = call[q] /\ earlier'[q] = earlier[q]
      /\ pc'[q] \in {"fan", "ok", "lost"} /\ recorded'[q] = recorded[q]
  BY <1>t, StartedStep DEF Bringing
<1>2. Bringing(kind, q)' /\ Mark(kind, q)' = Mark(kind, q)
  BY <1>1 DEF Bringing, Mark, At, Offered
<1>3. ASSUME NEW x \in Requests, Overlapping(q, x), pc[x] # "idle",
             call[x].device = call[q].device, call[x].op = "event" \/ call[x].op = kind,
             NEW y \in Brought(kind, x), y < Mark(kind, q)
      PROVE  Excused(kind, q)'
  <2>1. /\ pc'[x] # "idle" /\ call'[x] = call[x] /\ earlier'[x] = earlier[x]
        /\ call[x].op = "event" \/ recorded[x] \subseteq recorded'[x]
    BY <1>t, <1>3, StartedStep
  <2>2. Overlapping(q, x)'
    BY <1>1, <1>3, <2>1 DEF Overlapping
  <2>3. y \in Brought(kind, x)'
    BY <1>3, <2>1 DEF Brought, At, Offered
  <2>4. y < Mark(kind, q)'
    BY <1>2, <1>3
  <2>5. call'[x].device = call'[q].device /\ (call'[x].op = "event" \/ call'[x].op = kind)
    BY <1>1, <1>3, <2>1
  <2> QED
    BY <2>1, <2>2, <2>3, <2>4, <2>5 DEF Excused
<1> QED
  BY <1>2, <1>3 DEF Excused

(* A request that is settled does nothing more.                            *)
LEMMA SettledStep ==
  ASSUME TypeInv, NEW r \in Requests, Step(r), NEW q \in Requests, Settled(q)
  PROVE  Settled(q)'
<1>1. CASE q # r
  BY <1>1, Others DEF Settled
<1>2. CASE q = r
  <2>1. pc[r] \in {"ok", "error", "lost"} /\ tasks[r] = {}
    BY <1>2 DEF Settled, Over, Answered
  <2> QED
    BY <1>2, <2>1
    DEF Step, Start, Run, CacheDevice, ReadEvents, WriteEventCache, ReadTelemetry,
        WriteTelemetryCache, StreamEvent, StreamOther, Settle, DatabaseFails, TaskFails, Die, Serve,
        InsertDevice, UpdateDevice, ReadBack, GetDevice, ReportError, ReadDeviceCache,
        InsertTelemetry, InsertEvent
<1> QED
  BY <1>1, <1>2

LEMMA ReturnedStep ==
  ASSUME TypeInv, NEW r \in Requests, Step(r), Stage(r), NEW s \in Requests, Returned(s)
  PROVE  Returned(s)'
<1>t. TypeOK /\ call[r].op \in AllOps
  BY RequestFacts, CallFacts DEF TypeInv
<1>1. CASE s # r
  BY <1>1, Others DEF Returned
<1>2. CASE s = r /\ Start(r)
  <2>1. recorded'[r] = {} /\ pc'[r] \in {"getDevice", "deviceDb"}
    BY <1>t, <1>2 DEF Start, locals, Goto, FirstStep, TypeInv, TypeOK
  <2> QED
    BY <1>2, <2>1 DEF Returned
<1>3. CASE s = r /\ InsertTelemetry(r)
  <2>1. /\ call' = call /\ recorded'[r] = New(r)
        /\ call[r].op = "telemetry" =>
             pc'[r] = "error" \/ (pc'[r] = "fan" /\ New(r) # {})
    BY <1>t, <1>3 DEF InsertTelemetry, Goto, Launch, TypeOK
  <2> QED
    BY <1>3, <2>1 DEF Returned
<1>4. CASE s = r /\ (Run(r) \/ TaskFails(r) \/ Die(r))
  <2>1. UNCHANGED <<recorded, call>>
    BY <1>4
    DEF Run, CacheDevice, ReadEvents, WriteEventCache, ReadTelemetry, WriteTelemetryCache,
        StreamEvent, StreamOther, TaskFails, Die, locals
  <2> QED
    BY <1>4, <2>1, RunSteps DEF Returned, Stage
<1>5. CASE s = r /\ (DatabaseFails(r) \/ ReportError(r) \/ ReadDeviceCache(r) \/ InsertEvent(r))
  <2>1. /\ call' = call /\ recorded' = recorded
        /\ pc'[r] \in {"report", "error", "lost"} \/ call[r].op = "event"
    BY <1>t, <1>5
    DEF DatabaseFails, ReportError, ReadDeviceCache, InsertEvent, Goto, Stage, TypeOK, locals
  <2> QED
    BY <1>5, <2>1 DEF Returned
<1>6. CASE s = r /\ (InsertDevice(r) \/ UpdateDevice(r) \/ ReadBack(r))
  BY <1>6 DEF InsertDevice, UpdateDevice, ReadBack, Stage, Returned
<1>7. CASE s = r /\ GetDevice(r)
  <2>1. /\ call' = call /\ recorded' = recorded /\ pc[r] = "getDevice"
        /\ pc'[r] \notin {"fan", "ok"}
    BY <1>t, <1>7 DEF GetDevice, Goto, TypeInv, TypeOK, AllOps
  <2> QED
    BY <1>7, <2>1 DEF Returned
<1> QED
  BY <1>1, <1>2, <1>3, <1>4, <1>5, <1>6, <1>7 DEF Step, Serve

(***************************************************************************)
(* What a write does to the cached timestamp: it is taken forward, or it   *)
(* is left as it is because the one that was found is not older.           *)
(***************************************************************************)
Written(kind, r, d) ==
  \/ \E v \in Brought(kind, r) :
       /\ v >= Mark(kind, r) /\ (Prior(kind, r) = None \/ v > Prior(kind, r))
       /\ CachedTime(kind, d)' = v
  \/ /\ Prior(kind, r) # None /\ Prior(kind, r) >= Mark(kind, r)
     /\ CachedTime(kind, d)' = CachedTime(kind, d)

WriteOf(kind, r) == IF kind = "event" THEN WriteEventCache(r) ELSE WriteTelemetryCache(r)

LEMMA WriteTasks ==
  ASSUME TypeInv, NEW r \in Requests, NEW kind \in Kinds, WriteOf(kind, r)
  PROVE  /\ Pending(kind, r)
         /\ \A k \in Kinds : Pending(k, r)' => Pending(k, r) /\ k # kind
         /\ \A k \in Kinds, s \in Requests : Prior(k, s)' = Prior(k, s)
         /\ UNCHANGED <<events, call, recorded>>
<1>1. Settle(r, WriteTask(kind), {}, FALSE) /\ UNCHANGED <<events, call, locals>>
  BY DEF WriteOf, WriteTask, WriteEventCache, WriteTelemetryCache, Kinds, database
<1>2. Settling(r, WriteTask(kind), {})
  <2>1. {} \in SUBSET AllTasks
    OBVIOUS
  <2> QED
    BY <1>1, <2>1, SettleFacts DEF TypeInv
<1>3. WriteTask(kind) \in tasks[r] /\ tasks'[r] = tasks[r] \ {WriteTask(kind)}
  BY <1>2 DEF Settling, TypeInv, TypeOK
<1>4. \A k \in Kinds, s \in Requests : Prior(k, s)' = Prior(k, s)
  BY <1>1 DEF Prior, locals
<1> QED
  BY <1>1, <1>3, <1>4 DEF Pending, locals

LEMMA EventWritten ==
  ASSUME SafeInv, NEW r \in Requests, WriteEventCache(r), NEW d, d = call[r].device
  PROVE  /\ \A x \in Devices, k \in Kinds :
              (x # d \/ k # "event") /\ ~ Decommissioned(x)' => CachedTime(k, x)' = CachedTime(k, x)
         /\ ~ Decommissioned(d)' => Written("event", r, d)
<1>t. TypeInv /\ TypeOK /\ Stage(r) /\ Backed(r)
  BY DEF SafeInv, TypeInv
<1>c. /\ d \in Devices /\ At(r) \in Times /\ At(r) \in Nat
      /\ TheEvent(r).device = d /\ TheEvent(r).at = At(r)
  BY <1>t, RequestFacts, CallFacts
<1>1. TheEvent(r) \in events /\ events' = events
  BY <1>t DEF WriteEventCache, Settle, Stage, EventTasks, Backed, Recording, database
<1>2. CASE Decommissions(TheEvent(r))
  <2>1. Decommissioned(d)'
    BY <1>1, <1>2, <1>c DEF Decommissioned, EventsOf, Decommissions
  <2>2. \A x \in Devices : x # d =>
          cachedEvent'[x] = cachedEvent[x] /\ cachedTelemetry'[x] = cachedTelemetry[x]
    BY <1>2, <1>t DEF WriteEventCache, TypeOK, cache
  <2>3. \A x \in Devices, k \in Kinds : x # d => CachedTime(k, x)' = CachedTime(k, x)
    BY <2>2 DEF CachedTime
  <2> QED
    BY <2>1, <2>3
<1>3. CASE ~ Decommissions(TheEvent(r)) /\ Outdates(TheEvent(r), priorEvent[r])
  <2> DEFINE e == TheEvent(r)
             old == IF cachedEvent[d] = None THEN << >> ELSE cachedEvent[d].types
             new == Cached(e, old)
  <2>1. cachedEvent' = [cachedEvent EXCEPT ![d] = new] /\ cachedTelemetry' = cachedTelemetry
    BY <1>3 DEF WriteEventCache
  <2>2. new.at = At(r) /\ new # None
    <3>1. new = [at |-> e.at, point |-> e.point, types |-> Flattened(old, e.types)]
      BY DEF Cached
    <3>2. new.at = At(r)
      BY <3>1, <1>c
    <3>3. new # None
      <4>1. e.types \in Seq(STRING) /\ Len(e.types) > 0
        <5>1. call[r] \in Calls /\ e.types = call[r].types
          BY <1>t, RequestFacts
        <5> QED
          BY <5>1, CallFacts
      <4>2. old \in Seq(STRING)
        <5>1. cachedEvent[d] \in CachedEvents \cup {None} /\ << >> \in Seq(STRING)
          BY <1>c, <1>t DEF TypeOK
        <5> QED
          BY <5>1 DEF CachedEvents
      <4>3. Flattened(old, e.types) \in Seq(STRING)
        BY <4>1, <4>2, FlattenedFacts
      <4>4. e.at \in Times /\ e.point \in Times
        BY <1>t, RequestFacts
      <4>5. new \in CachedEvents
        BY <3>1, <4>3, <4>4 DEF CachedEvents
      <4> QED
        BY <4>5, ConstantsOK
    <3> QED
      BY <3>2, <3>3
  <2> HIDE DEF new
  <2>3. \A x \in Devices : x # d => cachedEvent'[x] = cachedEvent[x]
    BY <2>1, <1>t DEF TypeOK
  <2>4. cachedEvent'[d] = new
    BY <2>1, <1>c, <1>t DEF TypeOK
  <2>5. CachedTime("event", d)' = At(r)
    BY <2>2, <2>4 DEF CachedTime
  <2>6. Prior("event", r) = None \/ At(r) > Prior("event", r)
    <3>1. priorEvent[r] # None => priorEvent[r].at < At(r)
      BY <1>3, <1>c DEF Outdates
    <3>2. priorEvent[r] \in CachedEvents \cup {None} /\ Times \subseteq Nat
      BY <1>t, ConstantsOK DEF TypeOK
    <3> QED
      BY <3>1, <3>2, <1>c DEF Prior, CachedEvents
  <2>7. Written("event", r, d)
    BY <2>5, <2>6, <1>c DEF Written, Brought, Mark
  <2>8. \A x \in Devices, k \in Kinds :
          x # d \/ k # "event" => CachedTime(k, x)' = CachedTime(k, x)
    BY <2>1, <2>3 DEF CachedTime, Kinds
  <2> QED
    BY <2>7, <2>8
<1>4. CASE ~ Decommissions(TheEvent(r)) /\ ~ Outdates(TheEvent(r), priorEvent[r])
  <2>1. UNCHANGED <<cachedEvent, cachedTelemetry, call>>
    BY <1>4 DEF WriteEventCache, cache
  <2>2. priorEvent[r] # None /\ ~ (priorEvent[r].at < At(r))
    BY <1>4, <1>c DEF Outdates
  <2>3. Prior("event", r) = priorEvent[r].at /\ Prior("event", r) \in Nat
    <3>1. priorEvent[r] \in CachedEvents /\ Times \subseteq Nat
      BY <1>t, <2>2, ConstantsOK DEF TypeOK
    <3> QED
      BY <2>2, <3>1 DEF Prior, CachedEvents
  <2>4. Prior("event", r) # None /\ Prior("event", r) >= Mark("event", r)
    BY <2>2, <2>3, <1>c, ConstantsOK DEF Mark
  <2>5. \A x \in Devices, k \in Kinds : CachedTime(k, x)' = CachedTime(k, x)
    BY <2>1 DEF CachedTime
  <2> QED
    BY <2>4, <2>5, <1>c DEF Written, Kinds
<1> QED
  BY <1>2, <1>3, <1>4

LEMMA TelemetryWritten ==
  ASSUME SafeInv, NEW r \in Requests, Returned(r), WriteTelemetryCache(r),
         NEW d, d = call[r].device
  PROVE  /\ \A x \in Devices, k \in Kinds :
              x # d \/ k # "telemetry" => CachedTime(k, x)' = CachedTime(k, x)
         /\ Written("telemetry", r, d)
<1> DEFINE b == call[r].batch
           S == Offered(r)
           N == Newer(r)
           prior == priorTelemetry[r]
<1>t. TypeInv /\ TypeOK /\ Stage(r)
  BY DEF SafeInv, TypeInv
<1>1. d \in Devices
  BY <1>t, RequestFacts, CallFacts
<1>2. Pending("telemetry", r)
  BY DEF WriteTelemetryCache, Settle, Pending, WriteTask
<1>3. S # {} /\ "telemetry" \in Kinds
  BY <1>t, <1>2, PendingFacts, MarkFacts DEF Kinds
<1>4. /\ Max(S) \in S /\ \A i \in S : i <= Max(S)
      /\ S \subseteq Nat /\ \A i \in S : b[i] \in Times /\ b[i] \in Nat
  BY <1>t, <1>3, OfferedFacts
<1>5. prior \in Nat \cup {None} /\ None \notin Nat
  BY <1>t, ConstantsOK DEF TypeOK
<1>6. N = {i \in S : prior = None \/ b[i] > prior}
  BY DEF Newer
<1>7. /\ Mark("telemetry", r) = b[Max(S)] /\ Brought("telemetry", r) = {b[i] : i \in S}
      /\ Prior("telemetry", r) = prior
  BY DEF Mark, Brought, Prior
<1>8. /\ IF N = {} THEN cachedTelemetry' = cachedTelemetry
         ELSE cachedTelemetry' = [cachedTelemetry EXCEPT ![d] = b[Max(N)]]
      /\ cachedEvent' = cachedEvent
  BY DEF WriteTelemetryCache
<1>9. CASE N = {}
  <2>1. prior # None /\ ~ (b[Max(S)] > prior)
    BY <1>4, <1>6, <1>9
  <2>2. prior >= b[Max(S)]
    BY <2>1, <1>4, <1>5
  <2>3. \A x \in Devices, k \in Kinds : CachedTime(k, x)' = CachedTime(k, x)
    BY <1>8, <1>9 DEF CachedTime
  <2> QED
    BY <2>1, <2>2, <2>3, <1>1, <1>3, <1>7 DEF Written
<1>10. CASE N # {}
  <2>1. Max(N) \in N /\ N \subseteq S
    <3>1. N \subseteq S
      BY <1>6
    <3> QED
      BY <3>1, <1>t, <1>10, OfferedFacts
  <2>2. PICK v : v = b[Max(N)]
    OBVIOUS
  <2>3. v \in Brought("telemetry", r) /\ v \in Nat /\ (prior = None \/ v > prior)
    BY <2>1, <2>2, <1>4, <1>6, <1>7
  <2>4. v >= b[Max(S)]
    <3>1. CASE Max(S) \in N
      <4>1. Max(N) <= Max(S) /\ Max(S) <= Max(N)
        BY <2>1, <3>1, <1>t, <1>4, <1>10, OfferedFacts
      <4>2. Max(N) = Max(S)
        BY <4>1, <2>1, <1>4
      <4> QED
        BY <4>2, <2>2, <2>3
    <3>2. CASE Max(S) \notin N
      <4>1. prior # None /\ ~ (b[Max(S)] > prior)
        BY <3>2, <1>4, <1>6
      <4> QED
        BY <4>1, <2>3, <1>4, <1>5
    <3> QED
      BY <3>1, <3>2
  <2>5. cachedTelemetry'[d] = v /\ \A x \in Devices : x # d => cachedTelemetry'[x] = cachedTelemetry[x]
    BY <2>2, <1>t, <1>1, <1>8, <1>10 DEF TypeOK
  <2>6. CachedTime("telemetry", d)' = v
    BY <2>5 DEF CachedTime
  <2>7. \A x \in Devices, k \in Kinds :
          x # d \/ k # "telemetry" => CachedTime(k, x)' = CachedTime(k, x)
    BY <2>5, <1>8 DEF CachedTime
  <2>8. Written("telemetry", r, d)
    BY <2>3, <2>4, <2>6, <1>7 DEF Written
  <2> QED
    BY <2>7, <2>8
<1> QED
  BY <1>9, <1>10

(* A step that writes neither hash: what a request found, it has just read. *)
LEMMA OtherWrites ==
  ASSUME TypeInv, NEW r \in Requests, Start(r) \/ OtherStep(r)
  PROVE  /\ Step(r) /\ (OtherStep(r) => pc[r] # "idle")
         /\ UNCHANGED <<cachedEvent, cachedTelemetry>>
         /\ \A k \in Kinds :
              Pending(k, r)' =>
                \/ Prior(k, r)' = CachedTime(k, call[r].device)
                \/ Pending(k, r) /\ Prior(k, r)' = Prior(k, r)
<1>t. TypeOK
  BY DEF TypeInv
<1>0. /\ Step(r) /\ (OtherStep(r) => pc[r] # "idle")
      /\ UNCHANGED <<cachedEvent, cachedTelemetry>>
  <2>1. tasks[r] # {} => pc[r] # "idle"
    BY DEF TypeInv
  <2> QED
    BY <2>1
    DEF OtherStep, Step, Start, Serve, InsertDevice, UpdateDevice, ReadBack, GetDevice, ReportError,
        ReadDeviceCache, InsertTelemetry, InsertEvent, Run, CacheDevice, ReadEvents, ReadTelemetry,
        StreamEvent, StreamOther, Settle, DatabaseFails, TaskFails, Die, cache
<1>1. CASE ReadEvents(r)
  <2>1. Settling(r, "eventRead", {"eventWrite"})
    BY <1>t, <1>1, SettleFacts DEF ReadEvents, AllTasks, EventTasks
  <2>2. /\ tasks'[r] \subseteq tasks[r] \cup {"eventWrite"} /\ priorTelemetry' = priorTelemetry
        /\ priorEvent'[r] = cachedEvent[call[r].device]
    BY <1>t, <1>1, <2>1 DEF Settling, ReadEvents, TypeOK
  <2>3. Prior("event", r)' = CachedTime("event", call[r].device)
    BY <2>2 DEF Prior, CachedTime
  <2>4. /\ Pending("telemetry", r)' => Pending("telemetry", r)
        /\ Prior("telemetry", r)' = Prior("telemetry", r)
    BY <2>2 DEF Pending, WriteTask, Prior
  <2> QED
    BY <1>0, <2>3, <2>4 DEF Kinds
<1>2. CASE ReadTelemetry(r)
  <2>1. Settling(r, "telemetryRead", {"telemetryWrite"})
    BY <1>t, <1>2, SettleFacts DEF ReadTelemetry, AllTasks, TelemetryTasks
  <2>2. /\ tasks'[r] \subseteq tasks[r] \cup {"telemetryWrite"} /\ priorEvent' = priorEvent
        /\ priorTelemetry'[r] = cachedTelemetry[call[r].device]
    BY <1>t, <1>2, <2>1 DEF Settling, ReadTelemetry, TypeOK
  <2>3. Prior("telemetry", r)' = CachedTime("telemetry", call[r].device)
    BY <2>2 DEF Prior, CachedTime
  <2>4. /\ Pending("event", r)' => Pending("event", r)
        /\ Prior("event", r)' = Prior("event", r)
    BY <2>2 DEF Pending, WriteTask, Prior
  <2> QED
    BY <1>0, <2>3, <2>4 DEF Kinds
<1>3. CASE ~ ReadEvents(r) /\ ~ ReadTelemetry(r)
  <2>1. UNCHANGED <<priorEvent, priorTelemetry>>
    BY <1>3
    DEF OtherStep, Start, Serve, InsertDevice, UpdateDevice, ReadBack, GetDevice, ReportError,
        ReadDeviceCache, InsertTelemetry, InsertEvent, CacheDevice, StreamEvent, StreamOther,
        DatabaseFails, TaskFails, Die, locals
  <2>2. tasks'[r] \cap {"eventWrite", "telemetryWrite"} \subseteq tasks[r]
    <3>1. CASE Start(r) \/ DatabaseFails(r) \/ Die(r)
      BY <1>t, <3>1 DEF Start, DatabaseFails, Die, TypeOK
    <3>2. CASE Serve(r)
      <4>1. tasks' = tasks \/ \E P \in {DeviceTasks, {"telemetryRead", "telemetryTopic"},
                {"eventRead", "eventTopic", "telemetryRead", "telemetryTopic"}} :
              tasks' = [tasks EXCEPT ![r] = @ \cup P]
        BY <3>2
        DEF Serve, InsertDevice, UpdateDevice, ReadBack, GetDevice, ReportError, ReadDeviceCache,
            InsertTelemetry, InsertEvent, Launch
      <4> QED
        BY <1>t, <4>1 DEF DeviceTasks, TypeOK
    <3>3. CASE CacheDevice(r) \/ StreamEvent(r) \/ StreamOther(r) \/ TaskFails(r)
      <4>1. PICK t : \E failed \in BOOLEAN : Settle(r, t, {}, failed)
        BY <3>3 DEF CacheDevice, StreamEvent, StreamOther, TaskFails
      <4>2. {} \in SUBSET AllTasks
        OBVIOUS
      <4>3. Settling(r, t, {})
        BY <1>t, <4>1, <4>2, SettleFacts
      <4> QED
        BY <1>t, <4>3 DEF Settling, TypeOK
    <3> QED
      BY <1>3, <3>1, <3>2, <3>3 DEF OtherStep
  <2>3. \A k \in Kinds : Pending(k, r)' => Pending(k, r) /\ Prior(k, r)' = Prior(k, r)
    BY <2>1, <2>2 DEF Pending, WriteTask, Prior, Kinds
  <2> QED
    BY <1>0, <2>3
<1> QED
  BY <1>1, <1>2, <1>3

(***************************************************************************)
(* The steps of OrderNext preserve OrderInv.                               *)
(***************************************************************************)
LEMMA HistoryStep ==
  ASSUME OrderInv, NEW r \in Requests, OrderStep(r),
         \/ written' = written
         \/ \E kind \in Kinds : Pending(kind, r) /\ written' = written \cup {<<r, kind>>}
  PROVE  HistoryOK'
<1>t. TypeInv /\ Stage(r) /\ Returned(r) /\ HistoryOK /\ Step(r)
  BY DEF OrderInv, SafeInv, OrderStep
<1>1. ASSUME NEW q \in Requests, Settled(q) PROVE Settled(q)'
  BY <1>1, <1>t, SettledStep
<1>2. earlier' \in [Requests -> SUBSET Requests]
  BY <1>t DEF OrderStep, HistoryOK
<1>3. ASSUME NEW s \in Requests, NEW q \in earlier'[s] PROVE Settled(q)'
  <2>1. q \in Requests /\ Settled(q)
    BY <1>3, <1>t DEF OrderStep, HistoryOK
  <2> QED
    BY <2>1, <1>1
<1>4. ASSUME NEW kind \in Kinds, NEW q \in Requests, Bringing(kind, q) PROVE Bringing(kind, q)'
  BY <1>4, ExcusedStep DEF OrderInv
<1>5. \A kind \in Kinds : Pending(kind, r) => Bringing(kind, r)
  BY <1>t, PendingFacts
<1>6. written' \subseteq Requests \X Kinds
  BY <1>t DEF HistoryOK
<1>7. ASSUME NEW w \in written' PROVE Bringing(w[2], w[1])'
  <2>1. w[1] \in Requests /\ w[2] \in Kinds
    BY <1>6
  <2>2. Bringing(w[2], w[1])
    BY <1>5, <1>t DEF HistoryOK
  <2>3. PICK k \in Kinds, q \in Requests : k = w[2] /\ q = w[1]
    BY <2>1
  <2>4. Bringing(k, q)'
    BY <2>2, <2>3, <1>4
  <2> QED
    BY <2>3, <2>4
<1> QED
  BY <1>2, <1>3, <1>6, <1>7 DEF HistoryOK

LEMMA TimeFacts ==
  ASSUME TypeOK, NEW kind \in Kinds
  PROVE  /\ None \notin Nat
         /\ \A d \in Devices : CachedTime(kind, d) \in Nat \cup {None}
         /\ \A s \in Requests : Prior(kind, s) \in Nat \cup {None}
<1>1. None \notin Nat /\ Times \subseteq Nat
  BY ConstantsOK
<1>2. ASSUME NEW e \in CachedEvents PROVE e.at \in Nat
  BY <1>1 DEF CachedEvents
<1>3. \A d \in Devices : cachedTelemetry[d] \in Nat \cup {None} /\ cachedEvent[d] \in CachedEvents \cup {None}
  BY <1>1 DEF TypeOK
<1>4. \A s \in Requests : priorTelemetry[s] \in Nat \cup {None} /\ priorEvent[s] \in CachedEvents \cup {None}
  BY <1>1 DEF TypeOK
<1> QED
  BY <1>1, <1>2, <1>3, <1>4 DEF CachedTime, Prior

(* What holds of a time that does not change goes on to hold.              *)
LEMMA HoldsStep ==
  ASSUME OrderInv, NEW r \in Requests, OrderStep(r),
         NEW kind \in Kinds, NEW q \in Requests, Bringing(kind, q), NEW t, Holds(kind, t, q)
  PROVE  Holds(kind, t, q)'
<1>1. Mark(kind, q)' = Mark(kind, q) /\ (Excused(kind, q) => Excused(kind, q)')
  BY ExcusedStep DEF OrderInv
<1> QED
  BY <1>1 DEF Holds

LEMMA OtherOrder ==
  ASSUME OrderInv, NEW r \in Requests, OrderStep(r), Start(r) \/ OtherStep(r), written' = written
  PROVE  /\ NewestKept'
         /\ \A s \in Requests : \A kind \in Kinds : FoundInOrder(kind, s)'
<1>t. /\ TypeInv /\ TypeOK /\ HistoryOK /\ NewestKept
      /\ \A s \in Requests : Stage(s) /\ Returned(s) /\ call[s].device \in Devices
  BY RequestFacts, CallFacts DEF OrderInv, SafeInv, TypeInv
<1>1. UNCHANGED <<cachedEvent, cachedTelemetry>>
  BY <1>t, OtherWrites
<1>2. \A kind \in Kinds, d \in Devices : CachedTime(kind, d)' = CachedTime(kind, d)
  BY <1>1 DEF CachedTime
<1>3. events \subseteq events'
  BY <1>t, DatabaseSteps DEF OrderStep, Inserted
<1>4. \A d \in Devices : Decommissioned(d) => Decommissioned(d)'
  BY <1>3 DEF Decommissioned, EventsOf
<1>5. NewestKept'
  <2>1. ASSUME NEW w \in written, ~ Decommissioned(call[w[1]].device)'
        PROVE  Holds(w[2], CachedTime(w[2], call[w[1]].device), w[1])'
    <3>1. PICK q \in Requests, k \in Kinds : q = w[1] /\ k = w[2]
      BY <1>t DEF HistoryOK
    <3>2. Bringing(k, q) /\ pc[q] # "idle"
      BY <3>1, <1>t DEF HistoryOK, Bringing
    <3>3. PICK d \in Devices : d = call[q].device
      BY <1>t
    <3>4. call'[q] = call[q]
      BY <3>2, <1>t, StartedStep DEF HistoryOK
    <3>5. ~ Decommissioned(d)'
      BY <2>1, <3>1, <3>3, <3>4
    <3>6. PICK t : t = CachedTime(k, d)
      OBVIOUS
    <3>7. Holds(k, t, q)
      BY <3>1, <3>3, <3>5, <3>6, <1>4, <1>t DEF NewestKept
    <3>8. Holds(k, t, q)' /\ t = CachedTime(k, d)'
      BY <3>2, <3>6, <3>7, <1>2, HoldsStep
    <3>9. Holds(k, CachedTime(k, d), q)'
      BY <3>8
    <3> QED
      BY <3>1, <3>3, <3>4, <3>9
  <2> QED
    BY <2>1 DEF NewestKept
<1>6. ASSUME NEW s \in Requests, NEW kind \in Kinds, Pending(kind, s)', ~ Decommissioned(call[s].device)'
      PROVE  /\ \A q \in earlier'[s] :
                  <<q, kind>> \in written /\ call'[q].device = call'[s].device =>
                    Holds(kind, Prior(kind, s), q)'
             /\ Prior(kind, s)' # None /\ Prior(kind, s)' >= Mark(kind, s)' =>
                  Holds(kind, CachedTime(kind, call[s].device), s)'
  <2>1. \/ s = r /\ Prior(kind, s)' = CachedTime(kind, call[s].device)
        \/ Pending(kind, s) /\ Prior(kind, s)' = Prior(kind, s)
    <3>1. CASE s = r
      BY <1>6, <3>1, <1>t, OtherWrites
    <3>2. CASE s # r
      <4>1. tasks'[s] = tasks[s] /\ priorEvent'[s] = priorEvent[s] /\ priorTelemetry'[s] = priorTelemetry[s]
        BY <3>2, <1>t, Others DEF OrderStep
      <4> QED
        BY <1>6, <4>1 DEF Pending, Prior
    <3> QED
      BY <3>1, <3>2
  <2>2. pc[s] # "idle"
    <3>1. CASE Start(r) /\ s = r
      BY <1>6, <3>1, <1>t DEF Start, Pending, TypeInv
    <3>2. CASE Pending(kind, s)
      BY <3>2, <1>t DEF Pending, TypeInv
    <3>3. CASE ~ Start(r) /\ s = r
      BY <3>3, <1>t, OtherWrites
    <3> QED
      BY <2>1, <3>1, <3>2, <3>3
  <2>3. call'[s] = call[s] /\ earlier'[s] = earlier[s]
    BY <2>2, <1>t, StartedStep DEF HistoryOK
  <2>4. PICK d \in Devices : d = call[s].device /\ d = call'[s].device
    BY <2>3, <1>t
  <2>5. ~ Decommissioned(d) /\ ~ Decommissioned(d)'
    BY <1>4, <1>6, <2>4
  <2>6. PICK p : p = Prior(kind, s)'
    OBVIOUS
  <2>7. ASSUME NEW q \in earlier[s], <<q, kind>> \in written, call'[q].device = d
        PROVE  Holds(kind, p, q)'
    <3>1. q \in Requests /\ Bringing(kind, q) /\ pc[q] # "idle"
      BY <2>7, <1>t DEF HistoryOK, Bringing
    <3>2. call[q].device = d
      BY <2>7, <3>1, <1>t, StartedStep DEF HistoryOK
    <3>3. Holds(kind, p, q)
      <4>1. CASE Prior(kind, s)' = CachedTime(kind, call[s].device)
        BY <4>1, <2>4, <2>5, <2>6, <2>7, <3>2, <1>t DEF NewestKept
      <4>2. CASE Pending(kind, s) /\ Prior(kind, s)' = Prior(kind, s)
        BY <4>2, <2>4, <2>5, <2>6, <2>7, <3>2 DEF OrderInv, FoundInOrder
      <4> QED
        BY <2>1, <4>1, <4>2
    <3> QED
      BY <3>1, <3>3, HoldsStep
  <2>8. ASSUME p # None, p >= Mark(kind, s)' PROVE Holds(kind, CachedTime(kind, d), s)'
    <3>1. CASE Prior(kind, s)' = CachedTime(kind, call[s].device)
      <4>1. CachedTime(kind, d)' = p
        BY <3>1, <2>4, <2>6, <1>2
      <4> QED
        BY <4>1, <2>8 DEF Holds
    <3>2. CASE Pending(kind, s) /\ Prior(kind, s)' = Prior(kind, s)
      <4>1. Bringing(kind, s)
        BY <3>2, <1>t, PendingFacts
      <4>2. Mark(kind, s)' = Mark(kind, s)
        BY <4>1, ExcusedStep DEF OrderInv
      <4>3. PICK t : t = CachedTime(kind, d)
        OBVIOUS
      <4>4. Holds(kind, t, s)
        BY <3>2, <4>2, <4>3, <2>4, <2>5, <2>6, <2>8 DEF OrderInv, FoundInOrder
      <4>5. Holds(kind, t, s)' /\ t = CachedTime(kind, d)'
        BY <4>1, <4>3, <4>4, <1>2, HoldsStep
      <4> QED
        BY <4>5
    <3> QED
      BY <2>1, <3>1, <3>2
  <2> QED
    BY <2>3, <2>4, <2>6, <2>7, <2>8
<1>7. \A s \in Requests : \A kind \in Kinds : FoundInOrder(kind, s)'
  BY <1>6 DEF FoundInOrder
<1> QED
  BY <1>5, <1>7

(* What an overlapping request writes for the device is not older, or it   *)
(* is the excuse.                                                          *)
LEMMA Overtaken ==
  ASSUME TypeInv, NEW kind \in Kinds, NEW q \in Requests, NEW r \in Requests,
         Bringing(kind, q), Bringing(kind, r), Overlapping(q, r),
         call[q].device = call[r].device, NEW v \in Brought(kind, r)
  PROVE  Holds(kind, v, q)
<1>1. v \in Nat /\ Mark(kind, q) \in Nat /\ None \notin Nat
  BY MarkFacts, ConstantsOK
<1>2. CASE v >= Mark(kind, q)
  BY <1>1, <1>2 DEF Holds
<1>3. CASE v < Mark(kind, q)
  <2>1. Excused(kind, q)
    BY <1>3 DEF Excused, Bringing
  <2> QED
    BY <1>1, <2>1 DEF Holds
<1> QED
  BY <1>1, <1>2, <1>3

LEMMA WriteOrder ==
  ASSUME OrderInv, NEW r \in Requests, NEW kind \in Kinds, WriteOf(kind, r), OrderStep(r),
         written' = written \cup {<<r, kind>>}, earlier' = earlier
  PROVE  /\ NewestKept'
         /\ \A s \in Requests : \A k \in Kinds : FoundInOrder(k, s)'
<1>t. /\ TypeInv /\ TypeOK /\ HistoryOK /\ NewestKept /\ SafeInv
      /\ \A s \in Requests : Stage(s) /\ Returned(s) /\ call[s].device \in Devices
  BY RequestFacts, CallFacts DEF OrderInv, SafeInv, TypeInv
<1>d. PICK d \in Devices : d = call[r].device
  BY <1>t
<1>1. /\ Pending(kind, r)
      /\ \A k \in Kinds : Pending(k, r)' => Pending(k, r) /\ k # kind
      /\ \A k \in Kinds, s \in Requests : Prior(k, s)' = Prior(k, s)
      /\ UNCHANGED <<events, call>>
  BY <1>t, WriteTasks
<1>2. Bringing(kind, r) /\ ~ Settled(r)
  BY <1>1, <1>t, PendingFacts
<1>3. /\ \A k \in Kinds, x \in Devices :
           (x # d \/ k # kind) /\ ~ Decommissioned(x)' => CachedTime(k, x)' = CachedTime(k, x)
      /\ ~ Decommissioned(d)' => Written(kind, r, d)
  <2>1. CASE kind = "event"
    BY <2>1, <1>t, <1>d, EventWritten DEF WriteOf
  <2>2. CASE kind = "telemetry"
    BY <2>2, <1>t, <1>d, TelemetryWritten DEF WriteOf
  <2> QED
    BY <2>1, <2>2 DEF Kinds
<1>4. \A x \in Devices : Decommissioned(x)' <=> Decommissioned(x)
  BY <1>1 DEF Decommissioned, EventsOf
<1>5. ASSUME NEW q \in Requests, q # r, q \notin earlier[r], r \notin earlier[q] PROVE Overlapping(q, r)
  BY <1>5 DEF Overlapping
<1>6. \A s \in Requests : r \notin earlier[s]
  BY <1>2, <1>t DEF HistoryOK
<1>7. ASSUME NEW q \in Requests, Bringing(kind, q), call[q].device = d, ~ Decommissioned(d),
             <<q, kind>> \in written \cup {<<r, kind>>}, NEW t, t = CachedTime(kind, d)'
      PROVE  Holds(kind, t, q)
  <2>1. /\ Prior(kind, r) \in Nat \cup {None} /\ None \notin Nat
        /\ Mark(kind, q) \in Nat /\ Brought(kind, r) \subseteq Nat
    BY <1>t, <1>2, <1>7, TimeFacts, MarkFacts
  <2>2. FoundInOrder(kind, r) /\ Written(kind, r, d)
    BY <1>3, <1>4, <1>7 DEF OrderInv
  <2>3. ASSUME NEW v \in Brought(kind, r), v >= Mark(kind, r),
               Prior(kind, r) = None \/ v > Prior(kind, r), t = v
        PROVE  Holds(kind, t, q)
    <3>1. CASE q = r
      BY <2>1, <2>3, <3>1 DEF Holds
    <3>2. CASE q # r /\ q \in earlier[r]
      <4>1. Holds(kind, Prior(kind, r), q)
        BY <1>1, <1>d, <1>7, <2>2, <3>2 DEF FoundInOrder
      <4> QED
        BY <2>1, <2>3, <4>1 DEF Holds
    <3>3. CASE q # r /\ q \notin earlier[r]
      <4>1. Overlapping(q, r)
        BY <1>5, <1>6, <3>3
      <4> QED
        BY <1>2, <1>7, <1>d, <1>t, <2>3, <4>1, Overtaken
    <3> QED
      BY <3>1, <3>2, <3>3
  <2>4. ASSUME Prior(kind, r) # None, Prior(kind, r) >= Mark(kind, r), t = CachedTime(kind, d)
        PROVE  Holds(kind, t, q)
    <3>1. CASE q = r
      BY <1>1, <1>d, <1>7, <2>2, <2>4, <3>1 DEF FoundInOrder
    <3>2. CASE q # r
      BY <1>7, <2>4, <3>2, <1>t DEF NewestKept
    <3> QED
      BY <3>1, <3>2
  <2> QED
    BY <1>7, <2>2, <2>3, <2>4 DEF Written
<1>8. NewestKept'
  <2>1. ASSUME NEW w \in written', ~ Decommissioned(call[w[1]].device)'
        PROVE  Holds(w[2], CachedTime(w[2], call[w[1]].device), w[1])'
    <3>1. PICK q \in Requests, k \in Kinds : w = <<q, k>> /\ q = w[1] /\ k = w[2]
      BY <1>t DEF HistoryOK
    <3>2. Bringing(k, q)
      BY <3>1, <1>2, <1>t DEF HistoryOK
    <3>3. PICK x \in Devices : x = call[q].device /\ x = call'[q].device
      BY <1>t, <1>1
    <3>4. ~ Decommissioned(x)' /\ ~ Decommissioned(x)
      BY <2>1, <3>1, <3>3, <1>4
    <3>5. PICK t : t = CachedTime(k, x)'
      OBVIOUS
    <3>6. Holds(k, t, q)
      <4>1. CASE x = d /\ k = kind
        BY <4>1, <3>1, <3>2, <3>3, <3>4, <3>5, <1>7
      <4>2. CASE x # d \/ k # kind
        <5>1. w \in written
          BY <4>2, <3>1, <3>3, <1>d
        <5>2. t = CachedTime(k, x)
          BY <4>2, <3>4, <3>5, <1>3
        <5> QED
          BY <5>1, <5>2, <3>1, <3>3, <3>4, <1>t DEF NewestKept
      <4> QED
        BY <4>1, <4>2
    <3>7. Holds(k, t, q)'
      BY <3>2, <3>6, HoldsStep
    <3> QED
      BY <3>1, <3>3, <3>5, <3>7
  <2> QED
    BY <2>1 DEF NewestKept
<1>9. ASSUME NEW s \in Requests, NEW k \in Kinds, Pending(k, s)', ~ Decommissioned(call[s].device)'
      PROVE  /\ \A q \in earlier'[s] :
                  <<q, k>> \in written' /\ call'[q].device = call'[s].device =>
                    Holds(k, Prior(k, s), q)'
             /\ Prior(k, s)' # None /\ Prior(k, s)' >= Mark(k, s)' =>
                  Holds(k, CachedTime(k, call[s].device), s)'
  <2>1. Pending(k, s) /\ (s # r \/ k # kind)
    <3>1. CASE s = r
      BY <1>1, <1>9, <3>1
    <3>2. CASE s # r
      BY <1>9, <3>2, <1>t, Others DEF Pending, OrderStep
    <3> QED
      BY <3>1, <3>2
  <2>2. Bringing(k, s) /\ ~ Settled(s)
    BY <2>1, <1>t, PendingFacts
  <2>3. PICK x \in Devices : x = call[s].device /\ x = call'[s].device
    BY <1>t, <1>1
  <2>4. ~ Decommissioned(x)' /\ ~ Decommissioned(x)
    BY <1>4, <1>9, <2>3
  <2>5. PICK p : p = Prior(k, s) /\ p = Prior(k, s)'
    BY <1>1
  <2>6. ASSUME NEW q \in earlier[s], <<q, k>> \in written', call'[q].device = x
        PROVE  Holds(k, p, q)'
    <3>1. q \in Requests /\ <<q, k>> \in written /\ call[q].device = x
      BY <2>6, <1>1, <1>6, <1>t DEF HistoryOK
    <3>2. Bringing(k, q)
      BY <3>1, <1>t DEF HistoryOK
    <3>3. Holds(k, p, q)
      BY <2>1, <2>3, <2>4, <2>5, <2>6, <3>1 DEF OrderInv, FoundInOrder
    <3> QED
      BY <3>1, <3>2, <3>3, HoldsStep
  <2>7. ASSUME p # None, p >= Mark(k, s)' PROVE Holds(k, CachedTime(k, x), s)'
    <3>1. Mark(k, s)' = Mark(k, s)
      BY <2>2, ExcusedStep DEF OrderInv
    <3>2. Holds(k, CachedTime(k, x), s)
      BY <2>1, <2>3, <2>4, <2>5, <2>7, <3>1 DEF OrderInv, FoundInOrder
    <3>3. PICK t : t = CachedTime(k, x)'
      OBVIOUS
    <3>4. Holds(k, t, s)
      <4>1. CASE x # d \/ k # kind
        BY <4>1, <2>4, <3>2, <3>3, <1>3
      <4>2. CASE x = d /\ k = kind
        <5>1. s # r
          BY <2>1, <4>2
        <5>2. Overlapping(s, r)
          <6>1. s \notin earlier[r]
            BY <2>2, <1>t DEF HistoryOK
          <6> QED
            BY <5>1, <6>1, <1>5, <1>6
        <5>3. Written(kind, r, d)
          BY <1>3, <2>4, <4>2
        <5>4. CASE \E v \in Brought(kind, r) : CachedTime(kind, d)' = v
          BY <1>2, <1>d, <1>t, <2>2, <2>3, <3>3, <4>2, <5>2, <5>4, Overtaken
        <5>5. CASE CachedTime(kind, d)' = CachedTime(kind, d)
          BY <3>2, <3>3, <4>2, <5>5
        <5> QED
          BY <5>3, <5>4, <5>5 DEF Written
      <4> QED
        BY <4>1, <4>2
    <3>5. Holds(k, t, s)'
      BY <2>2, <3>4, HoldsStep
    <3> QED
      BY <3>3, <3>5
  <2> QED
    BY <2>3, <2>5, <2>6, <2>7
<1>10. \A s \in Requests : \A k \in Kinds : FoundInOrder(k, s)'
  BY <1>9 DEF FoundInOrder
<1> QED
  BY <1>8, <1>10

LEMMA NextOrderInv == ASSUME OrderInv, [OrderNext]_<<vars, history>> PROVE OrderInv'
<1>t. TypeInv /\ SafeInv /\ \A r \in Requests : Stage(r) /\ Returned(r)
  BY DEF OrderInv, SafeInv
<1>1. CASE UNCHANGED <<vars, history>>
  <2>1. UNCHANGED vars /\ UNCHANGED history
    BY <1>1
  <2>2. SafeInv'
    BY <2>1, <1>t, NextSafeInv
  <2> USE <2>1 DEF vars, history, database, cache, locals
  <2>3. HistoryOK' /\ \A r \in Requests : Returned(r)'
    BY DEF OrderInv, HistoryOK, Returned, Bringing, Settled
  <2>4. NewestKept'
    BY DEF OrderInv, NewestKept, Holds, Excused, Overlapping, Brought, Mark, CachedTime, Offered, At,
           Decommissioned, EventsOf
  <2>5. \A s \in Requests : \A kind \in Kinds : FoundInOrder(kind, s)'
    BY DEF OrderInv, FoundInOrder, Pending, Prior, Holds, Excused, Overlapping, Brought, Mark,
           CachedTime, Offered, At, Decommissioned, EventsOf
  <2> QED
    BY <2>2, <2>3, <2>4, <2>5 DEF OrderInv
<1>2. ASSUME NEW r \in Requests, OrderStep(r), HistoryOK', NewestKept',
             \A s \in Requests : \A kind \in Kinds : FoundInOrder(kind, s)'
      PROVE  OrderInv'
  <2>1. SafeInv'
    BY <1>2, <1>t, NextSafeInv DEF OrderStep, Step, Next
  <2>2. \A s \in Requests : Returned(s)'
    BY <1>2, <1>t, ReturnedStep DEF OrderStep
  <2> QED
    BY <1>2, <2>1, <2>2 DEF OrderInv
<1>3. ASSUME NEW r \in Requests, StartAfter(r) \/ (OtherStep(r) /\ UNCHANGED history)
      PROVE  OrderInv'
  <2>1. (Start(r) \/ OtherStep(r)) /\ OrderStep(r) /\ written' = written
    BY <1>3, <1>t, OtherWrites DEF StartAfter, OrderStep, history
  <2> QED
    BY <1>2, <2>1, HistoryStep, OtherOrder
<1>4. ASSUME NEW r \in Requests, NEW kind \in Kinds, WriteOf(kind, r), Record(r, kind)
      PROVE  OrderInv'
  <2>1. Pending(kind, r)
    BY <1>4, <1>t, WriteTasks
  <2>2. pc[r] # "idle"
    BY <2>1, <1>t DEF Pending, TypeInv
  <2>3. OrderStep(r) /\ earlier' = earlier /\ written' = written \cup {<<r, kind>>}
    BY <1>4, <2>2 DEF OrderStep, Step, Run, WriteOf, Record
  <2> QED
    BY <1>2, <1>4, <2>1, <2>3, HistoryStep, WriteOrder
<1>5. CASE OrderNext
  <2>1. PICK r \in Requests :
          \/ StartAfter(r)
          \/ OtherStep(r) /\ UNCHANGED history
          \/ \E kind \in Kinds : WriteOf(kind, r) /\ Record(r, kind)
    BY <1>5 DEF OrderNext, WriteOf, Kinds
  <2> QED
    BY <2>1, <1>3, <1>4
<1> QED
  BY <1>1, <1>5

(* A request that starts when another one is over never takes the cache    *)
(* back behind what that one has written, whatever else runs, in whatever  *)
(* order the timestamps come and whatever fails: only a request that       *)
(* overlaps hides it (writeEvents and writeTelemetry of the cache).        *)
THEOREM NewestIsKept == OrderSpec => []NewestKept
<1>1. OrderInit => OrderInv
  <2> SUFFICES ASSUME OrderInit PROVE OrderInv
    OBVIOUS
  <2>1. SafeInv
    BY InitSafeInv DEF OrderInit
  <2>2. HistoryOK /\ NewestKept
    BY DEF OrderInit, HistoryOK, NewestKept
  <2>3. \A r \in Requests : Returned(r)
    BY DEF OrderInit, Init, Returned
  <2>4. \A s \in Requests : \A kind \in Kinds : FoundInOrder(kind, s)
    BY DEF OrderInit, Init, FoundInOrder, Pending
  <2> QED
    BY <2>1, <2>2, <2>3, <2>4 DEF OrderInv
<1>2. OrderInv /\ [OrderNext]_<<vars, history>> => OrderInv'
  BY NextOrderInv
<1>3. OrderInv => NewestKept
  BY DEF OrderInv
<1> QED
  BY <1>1, <1>2, <1>3, PTL DEF OrderSpec
=============================================================================
