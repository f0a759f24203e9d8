----------------------------- MODULE AgencyOrder -----------------------------
(***************************************************************************)
(* In which order the agency's cache is written.  The requests are those   *)
(* of AgencyIngest, with two history variables, which no action of theirs  *)
(* reads: which requests were over when another one started, and which     *)
(* writes to the cache were carried out.                                   *)
(***************************************************************************)
EXTENDS AgencyIngest

VARIABLES
  earlier,  \* per request, the requests that were settled when it started
  written   \* the writes to the cache that were carried out, <<request, kind>>

history == <<earlier, written>>

Kinds == {"event", "telemetry"}

OrderInit ==
  /\ Init
  /\ earlier = [r \in Requests |-> {}]
  /\ written = {}

Record(r, kind) ==
  /\ written' = written \cup {<<r, kind>>}
  /\ UNCHANGED earlier

StartAfter(r) ==
  /\ Start(r)
  /\ earlier' = [earlier EXCEPT ![r] = {s \in Requests : Settled(s)}]
  /\ UNCHANGED written

OtherStep(r) ==
  \/ Serve(r)
  \/ CacheDevice(r) \/ ReadEvents(r) \/ ReadTelemetry(r) \/ StreamEvent(r) \/ StreamOther(r)
  \/ DatabaseFails(r) \/ TaskFails(r) \/ Die(r)

OrderNext ==
  \E r \in Requests :
    \/ StartAfter(r)
    \/ WriteEventCache(r) /\ Record(r, "event")
    \/ WriteTelemetryCache(r) /\ Record(r, "telemetry")
    \/ OtherStep(r) /\ UNCHANGED history

OrderSpec == OrderInit /\ [][OrderNext]_<<vars, history>>
-----------------------------------------------------------------------------
(* The timestamp the cache holds of a device, None where it holds none.    *)
CachedTime(kind, d) ==
  IF kind = "telemetry" THEN cachedTelemetry[d]
  ELSE IF cachedEvent[d] = None THEN None
  ELSE cachedEvent[d].at

(* What a request brings: its event, or the points it offers to the cache. *)
Brought(kind, r) ==
  IF kind = "event" THEN {At(r)} ELSE {call[r].batch[i] : i \in Offered(r)}

(* The last of them, which is the one that a write leaves in the cache.    *)
Mark(kind, r) ==
  IF kind = "event" THEN At(r) ELSE call[r].batch[Max(Offered(r))]

(* Neither was over when the other one started.                            *)
Overlapping(r, s) == r # s /\ r \notin earlier[s] /\ s \notin earlier[r]

(* An overlapping request that brought something older than r for the same *)
(* device.                                                                 *)
Excused(kind, r) ==
  \E s \in Requests :
    /\ Overlapping(r, s)
    /\ pc[s] # "idle" /\ call[s].device = call[r].device
    /\ call[s].op = "event" \/ call[s].op = kind
    /\ \E x \in Brought(kind, s) : x < Mark(kind, r)

(* The time t is not older than what r wrote, or there is an excuse.       *)
Holds(kind, t, r) == t # None /\ (t >= Mark(kind, r) \/ Excused(kind, r))

(***************************************************************************)
(* What a request has written to the cache is hidden by something older    *)
(* only if an overlapping request brought it: a request that starts when   *)
(* another is over never takes the cache back behind it, in whatever order *)
(* the timestamps come and whatever fails; a device that is decommissioned *)
(* is left out (writeEvents and writeTelemetry of the cache, which compare *)
(* with what they read before).                                            *)
(***************************************************************************)
NewestKept ==
  \A w \in written :
    ~ Decommissioned(call[w[1]].device) =>
      Holds(w[2], CachedTime(w[2], call[w[1]].device), w[1])
=============================================================================
