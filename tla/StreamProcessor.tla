--------------------------- MODULE StreamProcessor ---------------------------
(***************************************************************************)
(* A stream processor reads one partition of a Kafka topic, transforms     *)
(* each message and writes the result to its sinks.  What it cannot        *)
(* process goes to the dead letter sinks, and when none of these takes it  *)
(* the process exits before the offset is acknowledged.  The consumer is   *)
(* KafkaSource (a message at a time) or KafkaBatchSource (in chunks).      *)
(* KafkaJS is modelled from how the connectors use it: offsets are         *)
(* resolved in memory and committed at the end of a fetched batch or       *)
(* before.                                                                 *)
(***************************************************************************)
EXTENDS Naturals

CONSTANTS
  N, Kind,             \* the messages 1 .. N of the partition, and their kinds
  Batch,               \* KafkaBatchSource, else KafkaSource
  ChunkSize,           \* batchSize of KafkaBatchSource
  Sinks, DeadLetters,  \* the producers
  Faults,              \* what may go wrong, of FaultKinds
  MaxFaults            \* bound on how often it does

Offsets == 1 .. N
Producers == Sinks \cup DeadLetters

(* "empty" has no value; "garbled" is not JSON; transform throws on        *)
(* "poison" and gives null or [] for "filtered".                           *)
Kinds == {"plain", "filtered", "poison", "garbled", "empty"}
FaultKinds == {"connect", "write", "deadLetter", "crash", "stop"}

ASSUME ConstantsOK ==
  /\ N \in Nat
  /\ Kind \in [Offsets -> Kinds]
  /\ Batch \in BOOLEAN
  /\ ChunkSize \in Nat \ {0}
  /\ Sinks # {} /\ Sinks \cap DeadLetters = {}
  /\ Faults \subseteq FaultKinds
  /\ MaxFaults \in Nat

VARIABLES
  committed,   \* last offset of the group that Kafka knows to be consumed
  resolved,    \* last offset that the consumer holds for consumed
  batchEnd,    \* last offset of the batch fetched
  chunk,       \* the offsets being processed
  pending,     \* sinks that the running Promise.all has still to write
  received,    \* how often each sink has each message
  dead,        \* how often each dead letter sink has each message
  connected,   \* the producers that are connected
  stopping,    \* SIGTERM: ProcessManager called stop()
  launches, faults,
  pc

kafka == <<received, dead>>
budget == <<launches, faults>>
vars == <<committed, resolved, batchEnd, chunk, pending, kafka, connected, stopping, budget, pc>>

Steps == {"down", "unhealthy", "poll", "next", "transform", "write", "reconnect",
          "dead", "resolve", "commit"}

(* A step that goes wrong as b says uses up the budget of faults. *)
Fault(kind, b) ==
  IF b THEN kind \in Faults /\ faults < MaxFaults /\ faults' = faults + 1
  ELSE faults' = faults

(* Mutant: the group reads from the beginning each time it starts.         *)
ResumeFromBeginning == 0

(* A group goes on after what it has committed; fromBeginning is about a   *)
(* group that has committed nothing.                                       *)
Resume == committed

(***************************************************************************)
(* Starting: initialize() of a producer swallows a failure to connect and  *)
(* leaves the producer undefined, so that each write throws; the consumer  *)
(* does too, and leaves the component marked as unhealthy.                 *)
(***************************************************************************)
Launch ==
  /\ pc = "down"
  /\ launches' = launches + 1
  /\ \E lost \in SUBSET Producers, consumes \in BOOLEAN :
       /\ Fault("connect", lost # {} \/ ~consumes)
       /\ connected' = Producers \ lost
       /\ pc' = IF consumes THEN "poll" ELSE "unhealthy"
  /\ resolved' = Resume
  /\ stopping' = FALSE
  /\ UNCHANGED <<committed, batchEnd, chunk, pending, kafka>>

Exit ==
  /\ pc' = "down"
  /\ connected' = {}
  /\ pending' = {}

(* Whoever watches the health of the process restarts it. *)
Restart ==
  /\ pc = "unhealthy"
  /\ Exit
  /\ UNCHANGED <<committed, resolved, batchEnd, chunk, kafka, stopping, budget>>

Fetch ==
  /\ pc = "poll" /\ ~stopping
  /\ \E e \in resolved + 1 .. N : batchEnd' = e
  /\ pc' = "next"
  /\ UNCHANGED <<committed, resolved, chunk, pending, kafka, connected, stopping, budget>>

(***************************************************************************)
(* The next message or chunk.  The batch source drops what does not parse; *)
(* the other hands the processor a ParseError, which throws it.            *)
(***************************************************************************)
Parsed == {o \in chunk : Kind[o] \notin {"empty", "garbled"}}

ChunkEnd ==
  IF ~Batch THEN resolved + 1
  ELSE IF resolved + ChunkSize < batchEnd THEN resolved + ChunkSize ELSE batchEnd

Take ==
  /\ pc = "next" /\ ~stopping
  /\ chunk' = resolved + 1 .. ChunkEnd
  /\ pc' = IF Batch THEN "transform"
           ELSE CASE Kind[resolved + 1] = "garbled" -> "dead"
                  [] Kind[resolved + 1] = "empty"   -> "resolve"
                  [] OTHER                          -> "transform"
  /\ UNCHANGED <<committed, resolved, batchEnd, pending, kafka, connected, stopping, budget>>

(* When the consumer stops, KafkaJS leaves the loop over the messages of a *)
(* batch; eachBatch skips the chunks that are left and returns, and        *)
(* KafkaJS resolves the last offset of the batch (eachBatchAutoResolve).   *)
Break ==
  /\ pc = "next" /\ stopping
  /\ resolved' = IF Batch THEN batchEnd ELSE resolved
  /\ pc' = "commit"
  /\ UNCHANGED <<committed, batchEnd, chunk, pending, kafka, connected, stopping, budget>>

Transform ==
  LET kinds == {Kind[o] : o \in Parsed} IN
  /\ pc = "transform"
  /\ pc' = IF "poison" \in kinds THEN "dead" ELSE IF "plain" \in kinds THEN "write" ELSE "resolve"
  /\ pending' = IF pc' = "write" THEN Sinks ELSE {}
  /\ UNCHANGED <<committed, resolved, batchEnd, chunk, kafka, connected, stopping, budget>>

(***************************************************************************)
(* Promise.all of the writes.  When one fails the others may have arrived  *)
(* or not, that one too; all producers are shut down and initialized, and  *)
(* the error goes to the dead letter sinks.                                *)
(***************************************************************************)
Count(counts, producers, offsets) ==
  [p \in DOMAIN counts |->
     [o \in Offsets |-> IF p \in producers /\ o \in offsets THEN counts[p][o] + 1 ELSE counts[p][o]]]

Sent == {o \in Parsed : Kind[o] = "plain"}

WriteSink(s) ==
  /\ pc = "write" /\ s \in pending
  /\ \/ /\ s \in connected
        /\ received' = Count(received, {s}, Sent)
        /\ pending' = pending \ {s}
        /\ pc' = IF pending = {s} THEN "resolve" ELSE "write"
        /\ UNCHANGED faults
     \/ /\ Fault("write", s \in connected)
        /\ \E landed \in SUBSET (pending \cap connected) : received' = Count(received, landed, Sent)
        /\ pending' = {}
        /\ pc' = "reconnect"
  /\ UNCHANGED <<committed, resolved, batchEnd, chunk, dead, connected, stopping, launches>>

(* Mutant: the message is written again on the new connections. *)
ReconnectAndRetry ==
  /\ pc = "reconnect"
  /\ \E lost \in SUBSET Sinks :
       /\ Fault("connect", lost # {})
       /\ connected' = (connected \cup Sinks) \ lost
  /\ pending' = Sinks
  /\ pc' = "write"
  /\ UNCHANGED <<committed, resolved, batchEnd, chunk, kafka, stopping, launches>>

Reconnect ==
  /\ pc = "reconnect"
  /\ \E lost \in SUBSET Sinks :
       /\ Fault("connect", lost # {})
       /\ connected' = (connected \cup Sinks) \ lost
  /\ pc' = "dead"
  /\ UNCHANGED <<committed, resolved, batchEnd, chunk, pending, kafka, stopping, launches>>

(***************************************************************************)
(* Promise.allSettled of the writes to the dead letter sinks.  The message *)
(* of the batch source is the array of what it parsed.                     *)
(***************************************************************************)
DeadData == IF Batch THEN Parsed ELSE chunk

(* Mutant: the failure of every dead letter sink is logged, not fatal. *)
WriteDeadAndGoOn ==
  /\ pc = "dead"
  /\ \E took \in SUBSET (DeadLetters \cap connected) :
       /\ Fault("deadLetter", took # DeadLetters \cap connected)
       /\ dead' = Count(dead, took, DeadData)
  /\ pc' = "resolve"
  /\ UNCHANGED <<committed, resolved, batchEnd, chunk, pending, received, connected, stopping, launches>>

(* Mutant: a message that no dead letter sink takes is tried again. *)
WriteDeadUntilTaken ==
  /\ pc = "dead"
  /\ \E took \in SUBSET (DeadLetters \cap connected) :
       /\ Fault("deadLetter", took # DeadLetters \cap connected)
       /\ dead' = Count(dead, took, DeadData)
       /\ pc' = IF DeadLetters # {} /\ took = {} THEN "dead" ELSE "resolve"
  /\ UNCHANGED <<committed, resolved, batchEnd, chunk, pending, received, connected, stopping, launches>>

WriteDead ==
  /\ pc = "dead"
  /\ \E took \in SUBSET (DeadLetters \cap connected) :
       /\ Fault("deadLetter", took # DeadLetters \cap connected)
       /\ dead' = Count(dead, took, DeadData)
       /\ IF DeadLetters # {} /\ took = {} THEN Exit
          ELSE pc' = "resolve" /\ UNCHANGED <<connected, pending>>
  /\ UNCHANGED <<committed, resolved, batchEnd, chunk, received, stopping, launches>>

(* The processor has returned: the offsets of the chunk are resolved, and  *)
(* KafkaJS may commit them now or at the end of the batch.                 *)
Resolve ==
  /\ pc = "resolve"
  /\ resolved' = ChunkEnd
  /\ committed' \in {committed, ChunkEnd}
  /\ pc' = IF ChunkEnd = batchEnd THEN "commit" ELSE "next"
  /\ UNCHANGED <<batchEnd, chunk, pending, kafka, connected, stopping, budget>>

EndBatch ==
  /\ pc = "commit"
  /\ committed' = resolved
  /\ pc' = "poll"
  /\ UNCHANGED <<resolved, batchEnd, chunk, pending, kafka, connected, stopping, budget>>

(***************************************************************************)
(* SIGTERM: the consumer leaves what it runs, then the producers shut down *)
(* and the process ends.  It may also die at any point.                    *)
(***************************************************************************)
Stop ==
  /\ pc \notin {"down", "unhealthy"}
  /\ ~stopping
  /\ Fault("stop", TRUE)
  /\ stopping' = TRUE
  /\ UNCHANGED <<committed, resolved, batchEnd, chunk, pending, kafka, connected, launches, pc>>

Stopped ==
  /\ pc = "poll" /\ stopping
  /\ Exit
  /\ UNCHANGED <<committed, resolved, batchEnd, chunk, kafka, stopping, budget>>

Crash ==
  /\ pc # "down"
  /\ Fault("crash", TRUE)
  /\ Exit
  /\ UNCHANGED <<committed, resolved, batchEnd, chunk, kafka, stopping, launches>>

Init ==
  /\ committed = 0 /\ resolved = 0 /\ batchEnd = 0
  /\ chunk = {} /\ pending = {}
  /\ received = [s \in Sinks |-> [o \in Offsets |-> 0]]
  /\ dead = [d \in DeadLetters |-> [o \in Offsets |-> 0]]
  /\ connected = {}
  /\ stopping = FALSE
  /\ launches = 0 /\ faults = 0
  /\ pc = "down"

Process ==
  \/ Launch \/ Restart
  \/ Fetch \/ Take \/ Break \/ Transform
  \/ \E s \in Sinks : WriteSink(s)
  \/ Reconnect \/ WriteDead \/ Resolve \/ EndBatch
  \/ Stopped

Next == Process \/ Stop \/ Crash

Spec == Init /\ [][Next]_vars
(* The process runs, and is started again when it is down. *)
FairSpec == Spec /\ WF_vars(Process)
-----------------------------------------------------------------------------
TypeOK ==
  /\ committed \in 0 .. N /\ resolved \in 0 .. N /\ batchEnd \in 0 .. N
  /\ committed <= resolved
  /\ chunk \subseteq Offsets
  /\ pending \subseteq Sinks
  /\ received \in [Sinks -> [Offsets -> Nat]]
  /\ dead \in [DeadLetters -> [Offsets -> Nat]]
  /\ connected \subseteq Producers
  /\ stopping \in BOOLEAN
  /\ launches \in Nat /\ faults \in Nat
  /\ pc \in Steps

(***************************************************************************)
(* "before ACK to avoid data loss": whatever fails, an offset that Kafka   *)
(* knows to be consumed is of a message that held nothing to write, that   *)
(* every sink has, or that a dead letter sink has.                         *)
(***************************************************************************)
Handled(o) ==
  \/ Kind[o] \in {"empty", "filtered"}
  \/ Kind[o] = "plain" /\ \A s \in Sinks : received[s][o] > 0
  \/ \E d \in DeadLetters : dead[d][o] > 0

NothingLost == \A o \in 1 .. committed : Handled(o)

(***************************************************************************)
(* Only a restart makes the processor repeat itself: no producer has a     *)
(* message more often than the process was started.                        *)
(***************************************************************************)
RepeatsOnlyByRestart ==
  \A o \in Offsets :
    /\ \A s \in Sinks : received[s][o] <= launches
    /\ \A d \in DeadLetters : dead[d][o] <= launches

(* With finitely many faults the whole partition is consumed in the end,   *)
(* whatever was lost on the way: no message blocks those after it.         *)
PartitionConsumed == <>[](committed = N)
=============================================================================
