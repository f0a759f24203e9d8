---------------------------- MODULE AgencyIngest ----------------------------
(***************************************************************************)
(* The agency API takes in vehicles, events and telemetry.  A request      *)
(* writes the database, and then, in no order, the Redis cache and the     *)
(* streams; when one of these fails the answer does not wait for the rest. *)
(* The cache is read before it is written: MULTI queues what to write      *)
(* according to what an earlier read found.  An action is what one request *)
(* does between two awaits.                                                *)
(***************************************************************************)
EXTENDS Naturals, SequencesExt

CONSTANTS
  Devices, VehicleIds,
  Times,        \* timestamps of events and telemetry
  TypeLists,    \* the event_types lists that events carry
  Batches,      \* the telemetry batches, as sequences of timestamps
  Requests, Ops,
  Registered,   \* devices registered when the instance starts
  Faults,       \* what may go wrong, of FaultKinds
  Overlap,      \* FALSE: a request starts when those before it are settled
  None

AllOps == {"register", "update", "event", "telemetry"}

(* What Redis has of an event: its timestamp, that of its telemetry, types. *)
CachedEvents == [at : Times, point : Times, types : Seq(STRING)]

FaultKinds == {"database", "cacheRead", "cache", "stream", "crash"}

ASSUME ConstantsOK ==
  /\ Devices # {} /\ VehicleIds # {}
  /\ Times \subseteq Nat
  /\ TypeLists # {} /\ TypeLists \subseteq Seq(STRING) \ {<< >>}
  /\ Batches # {} /\ Batches \subseteq Seq(Times) \ {<< >>}
  /\ Ops \subseteq AllOps
  /\ Registered \subseteq Devices
  /\ Faults \subseteq FaultKinds
  /\ Overlap \in BOOLEAN
  /\ None \notin VehicleIds \cup Nat \cup CachedEvents

VARIABLES
  devices,         \* table devices: vehicle_id, None where there is no row
  events,          \* table events, primary key (device_id, timestamp)
  telemetry,       \* table telemetry, primary key (device_id, timestamp)
  cachedDevice,    \* Redis hash device:<id>:device
  cachedEvent,     \* Redis hash device:<id>:event
  cachedTelemetry, \* Redis hash device:<id>:telemetry, its timestamp
  location,        \* Redis geo set "locations": time of the position it has
  eventTopic,      \* messages on the event stream, with the request that sent them
  pc, call,
  tasks,           \* promises of the request that are not settled
  seen,            \* the device as the request read it
  recorded,        \* positions in the batch of the points that the INSERT returned
  priorEvent, priorTelemetry   \* what the request read from the cache

database == <<devices, events, telemetry>>
cache == <<cachedDevice, cachedEvent, cachedTelemetry, location>>
locals == <<seen, recorded, priorEvent, priorTelemetry>>
vars == <<database, cache, eventTopic, pc, call, tasks, locals>>

(* point is the column telemetry_timestamp.                                *)
Events == [device : Devices, at : Times, point : Times, types : TypeLists]
DeviceTasks == {"deviceCache", "deviceTopic"}
EventTasks == {"eventRead", "eventWrite", "eventTopic"}
TelemetryTasks == {"telemetryRead", "telemetryWrite", "telemetryTopic"}
Topics == {"deviceTopic", "eventTopic", "telemetryTopic"}
Steps == {"idle", "getDevice", "deviceDb", "updateDb", "readBack", "readCache", "refresh",
          "telemetryDb", "eventDb", "report", "fan", "ok", "error", "lost"}
Answered == {"ok", "error"}
Over == Answered \cup {"lost"}

Calls == [op : AllOps, device : Devices, vehicle : VehicleIds,
          at : Times, types : TypeLists, batch : Batches]

(* The telemetry an event comes with has a timestamp of its own.           *)
At(r) == call[r].at
Point(r) == Head(call[r].batch)
TheEvent(r) ==
  [device |-> call[r].device, at |-> At(r), point |-> Point(r), types |-> call[r].types]

Goto(r, step) == pc' = [pc EXCEPT ![r] = step]
Launch(r, step, promises) ==
  /\ Goto(r, step)
  /\ tasks' = [tasks EXCEPT ![r] = @ \cup promises]

Settled(r) == pc[r] \in Over /\ tasks[r] = {}

FirstStep(op) == IF op = "register" THEN "deviceDb" ELSE "getDevice"

Start(r) ==
  /\ pc[r] = "idle"
  /\ Overlap \/ \A s \in Requests : pc[s] = "idle" \/ Settled(s)
  /\ \E c \in Calls :
       /\ c.op \in Ops
       /\ c.op \notin {"register", "update"} => c.vehicle = CHOOSE v \in VehicleIds : TRUE
       /\ c.op # "event" => /\ c.types = CHOOSE l \in TypeLists : TRUE
                            /\ c.at = CHOOSE t \in Times : TRUE
       /\ c.op \in {"register", "update"} => c.batch = CHOOSE b \in Batches : TRUE
       /\ c.op = "event" => Len(c.batch) = 1
       /\ call' = [call EXCEPT ![r] = c]
       /\ Goto(r, FirstStep(c.op))
  /\ UNCHANGED <<database, cache, eventTopic, tasks, locals>>

(***************************************************************************)
(* registerVehicle and updateVehicle.                                      *)
(***************************************************************************)
InsertDevice(r) ==
  LET d == call[r].device IN
  /\ pc[r] = "deviceDb"
  /\ \/ /\ devices[d] = None
        /\ devices' = [devices EXCEPT ![d] = call[r].vehicle]
        /\ seen' = [seen EXCEPT ![r] = call[r].vehicle]
        /\ Launch(r, "fan", DeviceTasks)
     \/ /\ devices[d] # None
        /\ Goto(r, "error")
        /\ UNCHANGED <<devices, seen, tasks>>
  /\ UNCHANGED <<events, telemetry, cache, eventTopic, call, recorded, priorEvent, priorTelemetry>>

UpdateDevice(r) ==
  /\ pc[r] = "updateDb"
  /\ devices' = [devices EXCEPT ![call[r].device] = call[r].vehicle]
  /\ Goto(r, "readBack")
  /\ UNCHANGED <<events, telemetry, cache, eventTopic, call, tasks, locals>>

(* updateDevice asks the ingest service for the row it has just updated. *)
ReadBack(r) ==
  /\ pc[r] = "readBack"
  /\ seen' = [seen EXCEPT ![r] = devices[call[r].device]]
  /\ Launch(r, "fan", DeviceTasks)
  /\ UNCHANGED <<database, cache, eventTopic, call, recorded, priorEvent, priorTelemetry>>

(***************************************************************************)
(* createEvent and createTelemetry begin with the registered device.  An   *)
(* error of createEvent goes to the event.error stream before it is        *)
(* answered.                                                               *)
(***************************************************************************)
GetDevice(r) ==
  LET c == call[r] IN
  /\ pc[r] = "getDevice"
  /\ \/ /\ devices[c.device] # None
        /\ Goto(r, CASE c.op = "update"    -> "updateDb"
                     [] c.op = "event"     -> "readCache"
                     [] c.op = "telemetry" -> "telemetryDb")
        /\ seen' = [seen EXCEPT ![r] = devices[c.device]]
     \/ /\ devices[c.device] = None
        /\ Goto(r, IF c.op = "event" THEN "report" ELSE "error")
        /\ UNCHANGED seen
  /\ UNCHANGED <<database, cache, eventTopic, call, tasks, recorded, priorEvent, priorTelemetry>>

ReportError(r) ==
  /\ pc[r] = "report"
  /\ \/ Goto(r, "error")
     \/ "stream" \in Faults /\ Goto(r, "lost")
  /\ UNCHANGED <<database, cache, eventTopic, call, tasks, locals>>

(* refreshDeviceCache: a device that was decommissioned, or that Redis did *)
(* not give, is cached again.                                              *)
ReadDeviceCache(r) ==
  /\ pc[r] = "readCache"
  /\ \/ /\ cachedDevice[call[r].device] # None
        /\ Goto(r, "telemetryDb")
        /\ UNCHANGED tasks
     \/ /\ cachedDevice[call[r].device] = None \/ "cacheRead" \in Faults
        /\ Launch(r, "refresh", DeviceTasks)
  /\ UNCHANGED <<database, cache, eventTopic, call, locals>>

(* INSERT ... ON CONFLICT DO NOTHING RETURNING *: the points of the batch  *)
(* that had no row, each once.                                             *)
Points(r) == {[device |-> call[r].device, at |-> t] : t \in Range(call[r].batch)}
New(r) ==
  LET b == call[r].batch IN
  {i \in DOMAIN b :
     /\ [device |-> call[r].device, at |-> b[i]] \notin telemetry
     /\ \A j \in 1 .. i - 1 : b[j] # b[i]}

InsertTelemetry(r) ==
  /\ pc[r] = "telemetryDb"
  /\ telemetry' = telemetry \cup Points(r)
  /\ recorded' = [recorded EXCEPT ![r] = New(r)]
  /\ IF call[r].op = "event"
     THEN Goto(r, "eventDb") /\ UNCHANGED tasks
     ELSE IF New(r) = {} THEN Goto(r, "error") /\ UNCHANGED tasks
     ELSE Launch(r, "fan", {"telemetryRead", "telemetryTopic"})
  /\ UNCHANGED <<devices, events, cache, eventTopic, call, seen, priorEvent, priorTelemetry>>

(* Mutant: ON CONFLICT DO NOTHING for events as for telemetry. *)
InsertEventQuietly(r) ==
  LET e == TheEvent(r)
      duplicate == \E f \in events : f.device = e.device /\ f.at = e.at IN
  /\ pc[r] = "eventDb"
  /\ events' = IF duplicate THEN events ELSE events \cup {e}
  /\ Launch(r, "fan", {"eventRead", "eventTopic", "telemetryRead", "telemetryTopic"})
  /\ UNCHANGED <<devices, telemetry, cache, eventTopic, call, locals>>

(* A second event of the device with the same timestamp violates the key. *)
InsertEvent(r) ==
  LET e == TheEvent(r)
      duplicate == \E f \in events : f.device = e.device /\ f.at = e.at IN
  /\ pc[r] = "eventDb"
  /\ \/ /\ ~duplicate
        /\ events' = events \cup {e}
        /\ Launch(r, "fan", {"eventRead", "eventTopic", "telemetryRead", "telemetryTopic"})
     \/ /\ duplicate
        /\ Goto(r, "report")
        /\ UNCHANGED <<events, tasks>>
  /\ UNCHANGED <<devices, telemetry, cache, eventTopic, call, locals>>

(***************************************************************************)
(* The promises of a Promise.all.  The request goes on when those it waits *)
(* for are settled, or one of them is rejected; the others run on.         *)
(***************************************************************************)
Awaited(r) ==
  IF pc[r] = "refresh" \/ call[r].op \in {"register", "update"} THEN DeviceTasks
  ELSE EventTasks \cup TelemetryTasks

(* Mutant: a request that goes on only when every promise was fulfilled. *)
SettleFulfilled(r, t, next, failed) ==
  /\ t \in tasks[r]
  /\ tasks' = [tasks EXCEPT ![r] = (@ \ {t}) \cup next]
  /\ IF /\ pc[r] \in {"refresh", "fan"}
        /\ t \in Awaited(r)
        /\ ~failed /\ tasks'[r] \cap Awaited(r) = {}
     THEN Goto(r, IF pc[r] = "refresh" THEN "telemetryDb" ELSE "ok")
     ELSE UNCHANGED pc

Settle(r, t, next, failed) ==
  /\ t \in tasks[r]
  /\ tasks' = [tasks EXCEPT ![r] = (@ \ {t}) \cup next]
  /\ IF /\ pc[r] \in {"refresh", "fan"}
        /\ t \in Awaited(r)
        /\ failed \/ tasks'[r] \cap Awaited(r) = {}
     THEN Goto(r, IF pc[r] = "refresh" THEN "telemetryDb" ELSE "ok")
     ELSE UNCHANGED pc

CacheDevice(r) ==
  /\ Settle(r, "deviceCache", {}, FALSE)
  /\ cachedDevice' = [cachedDevice EXCEPT ![call[r].device] = seen[r]]
  /\ UNCHANGED <<database, cachedEvent, cachedTelemetry, location, eventTopic, call, locals>>

ReadEvents(r) ==
  /\ Settle(r, "eventRead", {"eventWrite"}, FALSE)
  /\ priorEvent' = [priorEvent EXCEPT ![r] = cachedEvent[call[r].device]]
  /\ UNCHANGED <<database, cache, eventTopic, call, seen, recorded, priorTelemetry>>

(***************************************************************************)
(* HSET leaves the fields it does not name: event_types is flattened to    *)
(* event_types.0, event_types.1, ..., and a longer list in the hash keeps  *)
(* its tail.                                                               *)
(***************************************************************************)
(* Mutant: a Redis list, which keeps every element ever pushed. *)
Pushed(old, new) == new \o old

Flattened(old, new) == new \o SubSeq(old, Len(new) + 1, Len(old))
Cached(e, old) == [at |-> e.at, point |-> e.point, types |-> Flattened(old, e.types)]

Decommissions(e) == Last(e.types) = "decommissioned"
Outdates(e, prior) == prior # None => prior.at < e.at

(* Mutant: the event that arrives last wins. *)
WriteEventCacheAlways(r) ==
  LET d == call[r].device
      e == TheEvent(r)
      old == IF cachedEvent[d] = None THEN << >> ELSE cachedEvent[d].types IN
  /\ Settle(r, "eventWrite", {}, FALSE)
  /\ IF Decommissions(e)
     THEN /\ cachedEvent' = [cachedEvent EXCEPT ![d] = None]
          /\ cachedTelemetry' = [cachedTelemetry EXCEPT ![d] = None]
          /\ cachedDevice' = [cachedDevice EXCEPT ![d] = None]
          /\ UNCHANGED location
     ELSE /\ cachedEvent' = [cachedEvent EXCEPT ![d] = Cached(e, old)]
          /\ location' = [location EXCEPT ![d] = e.point]
          /\ UNCHANGED <<cachedDevice, cachedTelemetry>>
  /\ UNCHANGED <<database, eventTopic, call, locals>>

WriteEventCache(r) ==
  LET d == call[r].device
      e == TheEvent(r)
      old == IF cachedEvent[d] = None THEN << >> ELSE cachedEvent[d].types IN
  /\ Settle(r, "eventWrite", {}, FALSE)
  /\ \/ /\ Decommissions(e)
        /\ cachedEvent' = [cachedEvent EXCEPT ![d] = None]
        /\ cachedTelemetry' = [cachedTelemetry EXCEPT ![d] = None]
        /\ cachedDevice' = [cachedDevice EXCEPT ![d] = None]
        /\ UNCHANGED location
     \/ /\ ~Decommissions(e)
        /\ Outdates(e, priorEvent[r])
        /\ cachedEvent' = [cachedEvent EXCEPT ![d] = Cached(e, old)]
        /\ location' = [location EXCEPT ![d] = e.point]
        /\ UNCHANGED <<cachedDevice, cachedTelemetry>>
     \/ /\ ~Decommissions(e)
        /\ ~Outdates(e, priorEvent[r])
        /\ UNCHANGED cache
  /\ UNCHANGED <<database, eventTopic, call, locals>>

ReadTelemetry(r) ==
  /\ Settle(r, "telemetryRead", {"telemetryWrite"}, FALSE)
  /\ priorTelemetry' = [priorTelemetry EXCEPT ![r] = cachedTelemetry[call[r].device]]
  /\ UNCHANGED <<database, cache, eventTopic, call, seen, recorded, priorEvent>>

(* The points the cache is given, as positions in the batch.  An event     *)
(* gives its own, whether the INSERT returned it or not.                   *)
Offered(r) == IF call[r].op = "event" THEN DOMAIN call[r].batch ELSE recorded[r]

(* Mutant: the telemetry that arrives last wins. *)
NewerAlways(r) == Offered(r)

Newer(r) ==
  {i \in Offered(r) : priorTelemetry[r] = None \/ call[r].batch[i] > priorTelemetry[r]}

(* Every point newer than what was read is written, in the order given.    *)
WriteTelemetryCache(r) ==
  LET d == call[r].device
      last == call[r].batch[Max(Newer(r))] IN
  /\ Settle(r, "telemetryWrite", {}, FALSE)
  /\ IF Newer(r) = {} THEN UNCHANGED <<cachedTelemetry, location>>
     ELSE /\ cachedTelemetry' = [cachedTelemetry EXCEPT ![d] = last]
          /\ location' = [location EXCEPT ![d] = last]
  /\ UNCHANGED <<database, cachedDevice, cachedEvent, eventTopic, call, locals>>

StreamEvent(r) ==
  /\ Settle(r, "eventTopic", {}, FALSE)
  /\ eventTopic' = eventTopic \cup {[by |-> r, event |-> TheEvent(r)]}
  /\ UNCHANGED <<database, cache, call, locals>>

(* The device and telemetry streams: nothing here depends on what they hold. *)
StreamOther(r) ==
  /\ \E t \in {"deviceTopic", "telemetryTopic"} : Settle(r, t, {}, FALSE)
  /\ UNCHANGED <<database, cache, eventTopic, call, locals>>

(***************************************************************************)
(* Faults.  A statement or the ingest service fails; a cache command is    *)
(* rejected; a stream refuses a message, which safeWrite swallows, unless  *)
(* the producer is and stays disconnected; the process dies.               *)
(***************************************************************************)
DatabaseFails(r) ==
  /\ "database" \in Faults
  /\ pc[r] \in {"getDevice", "deviceDb", "updateDb", "readBack", "telemetryDb", "eventDb"}
  /\ Goto(r, IF call[r].op = "event" THEN "report" ELSE "error")
  /\ UNCHANGED <<database, cache, eventTopic, call, tasks, locals>>

TaskFails(r) ==
  /\ \E t \in tasks[r], failed \in BOOLEAN :
       /\ IF t \in Topics THEN "stream" \in Faults ELSE "cache" \in Faults /\ failed
       /\ Settle(r, t, {}, failed)
  /\ UNCHANGED <<database, cache, eventTopic, call, locals>>

Die(r) ==
  /\ "crash" \in Faults
  /\ pc[r] # "idle"
  /\ ~Settled(r)
  /\ Goto(r, IF pc[r] \in Answered THEN pc[r] ELSE "lost")
  /\ tasks' = [tasks EXCEPT ![r] = {}]
  /\ UNCHANGED <<database, cache, eventTopic, call, locals>>

Init ==
  /\ devices = [d \in Devices |->
                  IF d \in Registered THEN CHOOSE v \in VehicleIds : TRUE ELSE None]
  /\ events = {} /\ telemetry = {}
  /\ cachedDevice = devices
  /\ cachedEvent = [d \in Devices |-> None]
  /\ cachedTelemetry = [d \in Devices |-> None]
  /\ location = [d \in Devices |-> None]
  /\ eventTopic = {}
  /\ pc = [r \in Requests |-> "idle"]
  /\ call = [r \in Requests |-> CHOOSE c \in Calls : TRUE]
  /\ tasks = [r \in Requests |-> {}]
  /\ seen = [r \in Requests |-> None]
  /\ recorded = [r \in Requests |-> {}]
  /\ priorEvent = [r \in Requests |-> None]
  /\ priorTelemetry = [r \in Requests |-> None]

Serve(r) ==
  \/ InsertDevice(r) \/ UpdateDevice(r) \/ ReadBack(r)
  \/ GetDevice(r) \/ ReportError(r) \/ ReadDeviceCache(r)
  \/ InsertTelemetry(r) \/ InsertEvent(r)

Run(r) ==
  \/ CacheDevice(r) \/ ReadEvents(r) \/ WriteEventCache(r)
  \/ ReadTelemetry(r) \/ WriteTelemetryCache(r)
  \/ StreamEvent(r) \/ StreamOther(r)

Next ==
  \E r \in Requests :
    Start(r) \/ Serve(r) \/ Run(r) \/ DatabaseFails(r) \/ TaskFails(r) \/ Die(r)

Spec == Init /\ [][Next]_vars
(* Promises settle, and the event loop runs the continuations. *)
FairSpec == Spec /\ \A r \in Requests : WF_vars(Serve(r)) /\ WF_vars(Run(r))

(***************************************************************************)
(* Properties.                                                             *)
(***************************************************************************)
EventOf(d, t) == CHOOSE e \in events : e.device = d /\ e.at = t
Recorded(d, t) == \E e \in events : e.device = d /\ e.at = t

(* Every variable has its type; the cached list of event types is never    *)
(* longer than the longest list an event may carry (hwrite).               *)
TypeOK ==
  /\ devices \in [Devices -> VehicleIds \cup {None}]
  /\ events \subseteq Events
  /\ telemetry \subseteq [device : Devices, at : Times]
  /\ cachedDevice \in [Devices -> VehicleIds \cup {None}]
  /\ cachedEvent \in [Devices -> CachedEvents \cup {None}]
  /\ \A d \in Devices :
       cachedEvent[d] # None =>
         \E l \in TypeLists : Len(cachedEvent[d].types) \in 1 .. Len(l)
  /\ cachedTelemetry \in [Devices -> Times \cup {None}]
  /\ location \in [Devices -> Times \cup {None}]
  /\ eventTopic \subseteq [by : Requests, event : Events]
  /\ pc \in [Requests -> Steps]
  /\ call \in [Requests -> Calls]
  /\ tasks \in [Requests -> SUBSET (DeviceTasks \cup EventTasks \cup TelemetryTasks)]
  /\ seen \in [Requests -> VehicleIds \cup {None}]
  /\ recorded \in [Requests -> SUBSET Nat]
  /\ priorEvent \in [Requests -> CachedEvents \cup {None}]
  /\ priorTelemetry \in [Requests -> Times \cup {None}]

(* Of two requests that post an event of the same device and timestamp, at *)
(* most one is answered with success, whatever fails, and what a success   *)
(* acknowledged is in the tables: event, telemetry and device              *)
(* (createEventHandler, db.writeEvent).                                    *)
AcceptedOnce ==
  \A r \in Requests :
    pc[r] = "ok" /\ call[r].op = "event" =>
      /\ TheEvent(r) \in events
      /\ Points(r) \subseteq telemetry
      /\ devices[call[r].device] # None
      /\ \A s \in Requests \ {r} :
           ~ (/\ pc[s] = "ok" /\ call[s].op = "event"
              /\ call[s].device = call[r].device /\ At(s) = At(r))

(* The stream tells of recorded events only, and of each at most once: a   *)
(* request whose INSERT is refused sends nothing (IngestStream.writeEvent  *)
(* is reached after db.writeEvent).                                        *)
StreamedOnce ==
  \A m \in eventTopic :
    /\ m.event \in events
    /\ \A n \in eventTopic :
         m.event.device = n.event.device /\ m.event.at = n.event.at => m = n

(* An event is accepted, stored and streamed once, of however many requests *)
(* that bring it at a time.                                                *)
EventOnce == AcceptedOnce /\ StreamedOnce

(* The cache never runs ahead of the database: what it holds of a device   *)
(* was recorded first, and the cached event is the recorded one up to the  *)
(* tail that HSET leaves, whatever interleaves or fails (writeEvents,      *)
(* writeTelemetry, writeDevices of the cache).                             *)
CacheFollowsDatabase ==
  \A d \in Devices :
    /\ cachedDevice[d] # None => devices[d] # None
    /\ cachedEvent[d] # None =>
         /\ Recorded(d, cachedEvent[d].at)
         /\ cachedEvent[d].point = EventOf(d, cachedEvent[d].at).point
         /\ IsPrefix(EventOf(d, cachedEvent[d].at).types, cachedEvent[d].types)
    /\ {cachedTelemetry[d], location[d]} \ {None}
         \subseteq {p.at : p \in {q \in telemetry : q.device = d}}

Quiet == \A r \in Requests : pc[r] = "idle" \/ Settled(r)
EventsOf(d) == {e \in events : e.device = d}
Latest(S) == CHOOSE e \in S : \A f \in S : f.at <= e.at
Decommissioned(d) == \E e \in EventsOf(d) : Decommissions(e)

(* When every request is settled, the cached event of a device that was    *)
(* never decommissioned is its latest (writeEvents of the cache, which     *)
(* readPayload answers from).  Requests that overlap break this.           *)
LatestEventCached ==
  Quiet => \A d \in Devices :
    EventsOf(d) # {} /\ ~Decommissioned(d) =>
      cachedEvent[d] # None /\ cachedEvent[d].at = Latest(EventsOf(d)).at

(* The same for the cached telemetry (writeTelemetry of the cache).  An    *)
(* event that is refused leaves its telemetry in the table and never gets  *)
(* to the cache; the last point of a batch may be older than another.      *)
LatestTelemetryCached ==
  Quiet => \A d \in Devices :
    LET points == {p \in telemetry : p.device = d} IN
    points # {} /\ ~Decommissioned(d) => cachedTelemetry[d] = Latest(points).at

(* The geo set holds the position of the latest telemetry (addGeospatialHash). *)
LatestLocation ==
  Quiet => \A d \in Devices :
    LET points == {p \in telemetry : p.device = d} IN
    points # {} => location[d] = Latest(points).at

(* A device whose latest event decommissions it has no cached event: it    *)
(* reads back as removed (computeCompositeVehicleData).                    *)
DecommissionedReadsBack ==
  Quiet => \A d \in Devices :
    EventsOf(d) # {} /\ Decommissions(Latest(EventsOf(d))) => cachedEvent[d] = None

(* The cached event has the types of the event recorded at its time        *)
(* (hwrite, readEvent).                                                    *)
CachedEventIsRecorded ==
  \A d \in Devices :
    cachedEvent[d] # None =>
      cachedEvent[d].types = EventOf(d, cachedEvent[d].at).types

(* The failure of a stream is repaired: an event that was accepted is on   *)
(* the stream when its request is settled.                                 *)
AcceptedEventsStreamed ==
  \A r \in Requests :
    Settled(r) /\ pc[r] = "ok" /\ call[r].op = "event" =>
      \E m \in eventTopic : m.event = TheEvent(r)

(* Every request is answered, also when a command to the cache is rejected *)
(* while the others run on (Promise.all in its try).                       *)
EveryRequestAnswered ==
  \A r \in Requests : (pc[r] # "idle") ~> (pc[r] \in Answered)
=============================================================================
