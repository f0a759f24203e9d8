------------------------ MODULE StreamProcessorProofs ------------------------
(***************************************************************************)
(* Proofs about the stream processor, for every partition, every number of *)
(* sinks and every sequence of faults: type correctness, that no message   *)
(* is lost, and that only a restart repeats one.                           *)
(***************************************************************************)
EXTENDS StreamProcessor, TLAPS

(* The steps at which the processor holds a chunk.                         *)
Busy == {"transform", "write", "reconnect", "dead", "resolve"}

(* Where the chunk lies in the batch.                                      *)
Position ==
  /\ pc \in Busy \cup {"next"} => resolved < batchEnd
  /\ pc \in Busy => chunk = resolved + 1 .. ChunkEnd

TypeInv == TypeOK /\ Position

LEMMA ChunkEndInBatch ==
  ASSUME TypeOK, resolved < batchEnd
  PROVE  ChunkEnd \in Offsets /\ resolved < ChunkEnd /\ ChunkEnd <= batchEnd
  BY ConstantsOK DEF TypeOK, ChunkEnd, Offsets

LEMMA FaultNat ==
  ASSUME TypeOK, NEW kind, NEW b, Fault(kind, b) PROVE faults' \in Nat
  BY DEF Fault, TypeOK

(* Count adds one where it should, so a count never shrinks.               *)
LEMMA CountType ==
  ASSUME NEW P, NEW counts \in [P -> [Offsets -> Nat]], NEW producers, NEW offsets
  PROVE  /\ Count(counts, producers, offsets) \in [P -> [Offsets -> Nat]]
         /\ \A p \in P, o \in Offsets :
              Count(counts, producers, offsets)[p][o] =
                IF p \in producers /\ o \in offsets THEN counts[p][o] + 1 ELSE counts[p][o]
  BY DEF Count

LEMMA InitTypeInv == Init => TypeInv
<1> SUFFICES ASSUME Init PROVE TypeInv
  OBVIOUS
<1>1. /\ committed \in 0 .. N /\ resolved \in 0 .. N /\ batchEnd \in 0 .. N
      /\ committed <= resolved
  BY ConstantsOK DEF Init
<1>2. /\ received \in [Sinks -> [Offsets -> Nat]]
      /\ dead \in [DeadLetters -> [Offsets -> Nat]]
  BY DEF Init
<1>3. /\ chunk \subseteq Offsets /\ pending \subseteq Sinks /\ connected \subseteq Producers
      /\ stopping \in BOOLEAN /\ launches \in Nat /\ faults \in Nat /\ pc \in Steps
  BY DEF Init, Steps
<1>4. Position
  BY DEF Init, Position, Busy
<1> QED
  BY <1>1, <1>2, <1>3, <1>4 DEF TypeInv, TypeOK

LEMMA NextTypeInv == TypeInv /\ [Next]_vars => TypeInv'
<1> SUFFICES ASSUME TypeInv, [Next]_vars PROVE TypeInv'
  OBVIOUS
<1> USE DEF TypeInv
<1>1. CASE Launch
  <2>1. PICK lost \in SUBSET Producers, consumes \in BOOLEAN :
          /\ Fault("connect", lost # {} \/ ~consumes)
          /\ connected' = Producers \ lost
          /\ pc' = IF consumes THEN "poll" ELSE "unhealthy"
    BY <1>1 DEF Launch
  <2>2. faults' \in Nat
    BY <2>1, FaultNat
  <2>3. connected' \subseteq Producers /\ pc' \in {"poll", "unhealthy"}
    BY <2>1
  <2>4. UNCHANGED <<committed, batchEnd, chunk, pending, received, dead>>
    BY <1>1 DEF Launch, kafka
  <2>5. resolved' = committed /\ stopping' = FALSE /\ launches' = launches + 1
    BY <1>1 DEF Launch, Resume
  <2>6. Position'
    BY <2>3 DEF Position, Busy
  <2>7. pc' \in Steps
    BY <2>3 DEF Steps
  <2>8. TypeOK'
    <3>1. /\ committed' \in 0 .. N /\ resolved' \in 0 .. N /\ batchEnd' \in 0 .. N
          /\ committed' <= resolved'
      BY <2>4, <2>5 DEF TypeOK
    <3>2. launches' \in Nat
      BY <2>5 DEF TypeOK
    <3>4. stopping' \in BOOLEAN
      BY <1>1 DEF Launch
    <3>3. /\ chunk' \subseteq Offsets /\ pending' \subseteq Sinks
          /\ received' \in [Sinks -> [Offsets -> Nat]]
          /\ dead' \in [DeadLetters -> [Offsets -> Nat]]
      BY <2>4 DEF TypeOK
    <3> QED
      BY <2>2, <2>3, <2>7, <3>1, <3>2, <3>3, <3>4 DEF TypeOK
  <2> QED
    BY <2>6, <2>8
<1>2. CASE Restart
  BY <1>2 DEF Restart, Exit, TypeOK, Position, Busy, Steps, kafka, budget
<1>3. CASE Fetch
  BY <1>3, ConstantsOK DEF Fetch, TypeOK, Position, Busy, Steps, kafka, budget
<1>4. CASE Take
  <2>1. ChunkEnd \in Offsets /\ resolved < ChunkEnd
    BY <1>4, ChunkEndInBatch DEF Take, Position
  <2>2. chunk' \subseteq Offsets
    BY <1>4, <2>1, ConstantsOK DEF Take, TypeOK, Offsets
  <2>3. pc' \in Steps
    BY <1>4 DEF Take, Steps
  <2>4. ChunkEnd' = ChunkEnd
    BY <1>4 DEF Take, ChunkEnd
  <2> QED
    BY <1>4, <2>2, <2>3, <2>4 DEF Take, TypeOK, Position, kafka, budget
<1>5. CASE Break
  BY <1>5 DEF Break, TypeOK, Position, Busy, Steps, kafka, budget
<1>6. CASE Transform
  BY <1>6 DEF Transform, TypeOK, Position, Busy, Steps, ChunkEnd, kafka, budget
<1>7. ASSUME NEW s \in Sinks, WriteSink(s) PROVE TypeInv'
  <2>1. faults' \in Nat
    BY <1>7, FaultNat DEF WriteSink, TypeOK
  <2>2. received' \in [Sinks -> [Offsets -> Nat]]
    BY <1>7, CountType DEF WriteSink, TypeOK
  <2>3. pc' \in {"resolve", "write", "reconnect"} /\ pc \in Busy /\ pending' \subseteq Sinks
    BY <1>7 DEF WriteSink, Busy, TypeOK
  <2> QED
    BY <1>7, <2>1, <2>2, <2>3 DEF WriteSink, TypeOK, Position, Busy, Steps, ChunkEnd
<1>8. CASE Reconnect
  <2>1. faults' \in Nat
    BY <1>8, FaultNat DEF Reconnect
  <2> QED
    BY <1>8, <2>1 DEF Reconnect, TypeOK, Position, Busy, Steps, ChunkEnd, Producers, kafka
<1>9. CASE WriteDead
  <2>1. faults' \in Nat
    BY <1>9, FaultNat DEF WriteDead
  <2>2. dead' \in [DeadLetters -> [Offsets -> Nat]]
    BY <1>9, CountType DEF WriteDead, TypeOK
  <2>3. /\ pc' \in {"down", "resolve"} /\ pc = "dead"
        /\ connected' \subseteq Producers /\ pending' \subseteq Sinks
    BY <1>9 DEF WriteDead, Exit, TypeOK
  <2> QED
    BY <1>9, <2>1, <2>2, <2>3 DEF WriteDead, TypeOK, Position, Busy, Steps, ChunkEnd
<1>10. CASE Resolve
  <2>1. ChunkEnd \in Offsets /\ resolved < ChunkEnd /\ ChunkEnd <= batchEnd
    BY <1>10, ChunkEndInBatch DEF Resolve, Position, Busy
  <2> QED
    BY <1>10, <2>1 DEF Resolve, TypeOK, Position, Busy, Steps, Offsets, kafka, budget
<1>11. CASE EndBatch
  BY <1>11 DEF EndBatch, TypeOK, Position, Busy, Steps, kafka, budget
<1>12. CASE Stopped
  BY <1>12 DEF Stopped, Exit, TypeOK, Position, Busy, Steps, kafka, budget
<1>13. CASE Stop
  <2>1. faults' \in Nat
    BY <1>13, FaultNat DEF Stop
  <2> QED
    BY <1>13, <2>1 DEF Stop, TypeOK, Position, Busy, ChunkEnd, kafka
<1>14. CASE Crash
  <2>1. faults' \in Nat
    BY <1>14, FaultNat DEF Crash
  <2> QED
    BY <1>14, <2>1 DEF Crash, Exit, TypeOK, Position, Busy, Steps, kafka
<1>15. CASE UNCHANGED vars
  BY <1>15 DEF vars, TypeOK, Position, ChunkEnd, kafka, budget
<1> QED
  BY <1>1, <1>2, <1>3, <1>4, <1>5, <1>6, <1>7, <1>8, <1>9, <1>10, <1>11, <1>12, <1>13, <1>14, <1>15
  DEF Next, Process

(* The variables keep their types, and what Kafka was told never runs      *)
(* ahead of what the consumer has resolved.                                *)
THEOREM TypeCorrect == Spec => []TypeOK
<1>1. Spec => []TypeInv
  BY InitTypeInv, NextTypeInv, PTL DEF Spec
<1>2. TypeInv => TypeOK
  BY DEF TypeInv
<1> QED
  BY <1>1, <1>2, PTL
-----------------------------------------------------------------------------
(***************************************************************************)
(* Nothing is lost where there is a dead letter sink and, for the batch    *)
(* source, the messages parse and nobody stops the process.                *)
(***************************************************************************)
Lossless ==
  /\ DeadLetters # {}
  /\ Batch => "stop" \notin Faults /\ \A o \in Offsets : Kind[o] # "garbled"

(* The batch source is never told to stop.                                 *)
Running == Batch => ~stopping

(* What is behind the consumer is handled, committed or not.               *)
ResolvedHandled == \A o \in 1 .. resolved : Handled(o)

(* What a chunk may hold when it reaches a step.                           *)
ChunkSound ==
  /\ pc = "transform" => \A o \in chunk : Kind[o] # "garbled"
  /\ pc = "write" => /\ \A o \in chunk : Kind[o] \notin {"garbled", "poison"}
                     /\ \A s \in Sinks \ pending, o \in Sent : received[s][o] > 0
  /\ pc = "dead" /\ Batch => \A o \in chunk : Kind[o] # "garbled"
  /\ pc = "resolve" => \A o \in chunk : Handled(o)

LossInv == TypeInv /\ Running /\ ResolvedHandled /\ ChunkSound

(* A message that is handled stays handled.                                *)
LEMMA HandledStays ==
  ASSUME TypeOK,
         \A s \in Sinks, o \in Offsets : received'[s][o] >= received[s][o],
         \A d \in DeadLetters, o \in Offsets : dead'[d][o] >= dead[d][o],
         received' \in [Sinks -> [Offsets -> Nat]],
         dead' \in [DeadLetters -> [Offsets -> Nat]],
         NEW o \in Offsets, Handled(o)
  PROVE  Handled(o)'
  BY DEF Handled, TypeOK

LEMMA CountsGrow ==
  ASSUME TypeOK, [Next]_vars
  PROVE  /\ \A s \in Sinks, o \in Offsets : received'[s][o] >= received[s][o]
         /\ \A d \in DeadLetters, o \in Offsets : dead'[d][o] >= dead[d][o]
<1>1. ASSUME NEW s \in Sinks, WriteSink(s)
      PROVE  /\ \A t \in Sinks, o \in Offsets : received'[t][o] >= received[t][o]
             /\ UNCHANGED dead
  <2>1. PICK landed : received' = Count(received, landed, Sent)
    BY <1>1 DEF WriteSink
  <2>2. received \in [Sinks -> [Offsets -> Nat]]
    BY DEF TypeOK
  <2>3. \A t \in Sinks, o \in Offsets :
          received'[t][o] = IF t \in landed /\ o \in Sent THEN received[t][o] + 1 ELSE received[t][o]
    BY <2>1, <2>2, CountType
  <2>4. \A t \in Sinks, o \in Offsets : received[t][o] \in Nat
    BY <2>2
  <2> QED
    BY <1>1, <2>3, <2>4 DEF WriteSink
<1>2. CASE WriteDead
  <2>1. PICK took : dead' = Count(dead, took, DeadData)
    BY <1>2 DEF WriteDead
  <2>2. dead \in [DeadLetters -> [Offsets -> Nat]]
    BY DEF TypeOK
  <2>3. \A d \in DeadLetters, o \in Offsets :
          dead'[d][o] = IF d \in took /\ o \in DeadData THEN dead[d][o] + 1 ELSE dead[d][o]
    BY <2>1, <2>2, CountType
  <2>4. \A d \in DeadLetters, o \in Offsets : dead[d][o] \in Nat
    BY <2>2
  <2>5. \A t \in Sinks, o \in Offsets : received'[t][o] >= received[t][o]
    BY <1>2 DEF WriteDead, TypeOK
  <2> QED
    BY <2>3, <2>4, <2>5
<1>3. CASE UNCHANGED kafka
  BY <1>3 DEF kafka, TypeOK
<1>4. (\E s \in Sinks : WriteSink(s)) \/ WriteDead \/ UNCHANGED kafka
  BY DEF Next, Process, vars, Launch, Restart, Fetch, Take, Break, Transform, Reconnect,
         Resolve, EndBatch, Stop, Stopped, Crash
<1> QED
  BY <1>1, <1>2, <1>3, <1>4 DEF TypeOK

LEMMA HandledStable ==
  ASSUME TypeInv, [Next]_vars, NEW o \in Offsets, Handled(o) PROVE Handled(o)'
<1>1. TypeOK /\ TypeOK'
  BY NextTypeInv DEF TypeInv
<1> QED
  BY <1>1, CountsGrow, HandledStays DEF TypeOK

LEMMA ResolvedStays ==
  ASSUME TypeInv, ResolvedHandled, [Next]_vars, resolved' <= resolved
  PROVE  ResolvedHandled'
<1>1. \A o \in 1 .. resolved' : o \in 1 .. resolved /\ o \in Offsets
  BY NextTypeInv, ConstantsOK DEF TypeInv, TypeOK, Offsets
<1> QED
  BY <1>1, HandledStable DEF ResolvedHandled

LEMMA InitLossInv == ASSUME Lossless PROVE Init => LossInv
<1> SUFFICES ASSUME Init PROVE LossInv
  OBVIOUS
<1>1. TypeInv
  BY InitTypeInv
<1> QED
  BY <1>1, ConstantsOK DEF Init, LossInv, Running, ResolvedHandled, ChunkSound

LEMMA NextRunning ==
  ASSUME Lossless, TypeInv, Running, [Next]_vars PROVE Running'
<1> QED
  BY DEF Lossless, Running, Next, Process, vars, Launch, Restart, Fetch, Take, Break, Transform,
         WriteSink, Reconnect, WriteDead, Resolve, EndBatch, Stop, Stopped, Crash, Fault

LEMMA ResolveHandles ==
  ASSUME LossInv, Resolve PROVE ResolvedHandled'
<1>1. ChunkEnd \in Offsets /\ resolved < ChunkEnd /\ chunk = resolved + 1 .. ChunkEnd
  BY ChunkEndInBatch DEF LossInv, TypeInv, Position, Busy, Resolve
<1>2. \A o \in 1 .. ChunkEnd : Handled(o)
  <2> SUFFICES ASSUME NEW o \in 1 .. ChunkEnd PROVE Handled(o)
    OBVIOUS
  <2>1. CASE o <= resolved
    BY <2>1, <1>1 DEF LossInv, ResolvedHandled, TypeInv, TypeOK
  <2>2. CASE resolved < o
    <3>1. o \in chunk
      BY <2>2, <1>1 DEF LossInv, TypeInv, TypeOK
    <3> QED
      BY <3>1 DEF LossInv, ChunkSound, Resolve
  <2> QED
    BY <2>1, <2>2, <1>1 DEF LossInv, TypeInv, TypeOK, Offsets
<1>3. \A o \in 1 .. ChunkEnd : o \in Offsets
  BY <1>1, ConstantsOK DEF Offsets
<1>4. Next
  BY DEF Next, Process
<1> QED
  BY <1>2, <1>3, <1>4, HandledStable DEF ResolvedHandled, Resolve, LossInv

LEMMA NextResolvedHandled ==
  ASSUME LossInv, [Next]_vars PROVE ResolvedHandled'
<1>1. CASE Resolve
  BY <1>1, ResolveHandles
<1>2. CASE resolved' = resolved \/ resolved' = Resume
  BY <1>2, ResolvedStays DEF LossInv, TypeInv, TypeOK, Resume
<1>3. CASE Break
  BY <1>3, ResolvedStays DEF LossInv, TypeInv, TypeOK, Break, Running
<1> QED
  BY <1>1, <1>2, <1>3 DEF Next, Process, vars, Launch, Restart, Fetch, Take, Transform,
         WriteSink, Reconnect, WriteDead, EndBatch, Stop, Stopped, Crash

(* The steps of the processor within a chunk.                              *)
LEMMA TakeSound ==
  ASSUME Lossless, LossInv, Take PROVE ChunkSound'
<1>1. CASE Batch
  <2>1. chunk' \subseteq Offsets
    BY NextTypeInv DEF LossInv, TypeInv, TypeOK, Next, Process
  <2> QED
    BY <1>1, <2>1 DEF Take, ChunkSound, Lossless
<1>2. CASE ~Batch
  <2>1. resolved \in Nat /\ chunk' = {resolved + 1}
    BY <1>2 DEF Take, ChunkEnd, LossInv, TypeInv, TypeOK
  <2> QED
    BY <1>2, <2>1 DEF Take, ChunkSound, Handled
<1> QED
  BY <1>1, <1>2

LEMMA TransformSound ==
  ASSUME Lossless, LossInv, Transform PROVE ChunkSound'
<1>1. \A o \in chunk : o \in Offsets /\ Kind[o] \in Kinds /\ Kind[o] # "garbled"
  BY ConstantsOK DEF LossInv, TypeInv, TypeOK, ChunkSound, Transform
<1>2. chunk' = chunk /\ pc' \in {"dead", "write", "resolve"}
  BY DEF Transform
<1>3. CASE pc' = "dead"
  BY <1>1, <1>2, <1>3 DEF ChunkSound
<1>4. CASE pc' = "write"
  <2>1. pending' = Sinks /\ \A o \in Parsed : Kind[o] # "poison"
    BY <1>4 DEF Transform
  <2>2. \A o \in chunk : Kind[o] \notin {"garbled", "poison"}
    BY <1>1, <2>1 DEF Parsed
  <2> QED
    BY <1>2, <1>4, <2>1, <2>2 DEF ChunkSound
<1>5. CASE pc' = "resolve"
  <2>1. \A o \in Parsed : Kind[o] \notin {"poison", "plain"}
    BY <1>5 DEF Transform
  <2>2. \A o \in chunk : Kind[o] \in {"empty", "filtered"}
    BY <1>1, <2>1 DEF Parsed, Kinds
  <2> QED
    BY <1>2, <1>5, <2>2 DEF ChunkSound, Handled
<1> QED
  BY <1>2, <1>3, <1>4, <1>5

LEMMA WriteSinkSound ==
  ASSUME Lossless, LossInv, NEW s \in Sinks, WriteSink(s) PROVE ChunkSound'
<1>1. /\ chunk' = chunk /\ pc = "write" /\ Sent' = Sent
      /\ pc' \in {"write", "resolve", "reconnect"}
  BY DEF WriteSink, Sent, Parsed
<1>2. \A o \in chunk : o \in Offsets /\ Kind[o] \in Kinds /\ Kind[o] \notin {"garbled", "poison"}
  BY <1>1, ConstantsOK DEF LossInv, TypeInv, TypeOK, ChunkSound
<1>3. CASE pc' = "reconnect"
  BY <1>3 DEF ChunkSound
<1>4. CASE pc' # "reconnect"
  <2>1. received' = Count(received, {s}, Sent) /\ pending' = pending \ {s}
    BY <1>4 DEF WriteSink
  <2>2. \A t \in Sinks, o \in Offsets :
          received'[t][o] = IF t \in {s} /\ o \in Sent THEN received[t][o] + 1 ELSE received[t][o]
    BY <2>1, CountType DEF LossInv, TypeInv, TypeOK
  <2>3. \A t \in Sinks, o \in Offsets : received[t][o] \in Nat
    BY DEF LossInv, TypeInv, TypeOK
  <2>4. \A o \in Sent : o \in Offsets
    BY <1>2 DEF Sent, Parsed
  <2>5. \A t \in Sinks \ pending', o \in Sent : received'[t][o] > 0
    <3> SUFFICES ASSUME NEW t \in Sinks \ pending', NEW o \in Sent PROVE received'[t][o] > 0
      OBVIOUS
    <3>1. CASE t = s
      BY <3>1, <2>2, <2>3, <2>4
    <3>2. CASE t # s
      <4>1. received[t][o] > 0
        BY <3>2, <2>1, <1>1 DEF LossInv, ChunkSound
      <4> QED
        BY <3>2, <4>1, <2>2, <2>4
    <3> QED
      BY <3>1, <3>2
  <2>6. CASE pc' = "write"
    BY <1>1, <1>2, <2>5, <2>6 DEF ChunkSound
  <2>7. CASE pc' = "resolve"
    <3>1. pending' = {}
      BY <2>7, <2>1, <1>1, <1>4 DEF WriteSink
    <3>2. \A o \in chunk : Kind[o] \in {"plain", "empty", "filtered"}
      BY <1>2 DEF Kinds
    <3>3. \A o \in chunk : Kind[o] = "plain" => o \in Sent
      BY DEF Sent, Parsed
    <3>4. \A o \in chunk : Handled(o)'
      BY <2>5, <3>1, <3>2, <3>3 DEF Handled
    <3> QED
      BY <1>1, <2>7, <3>4 DEF ChunkSound
  <2> QED
    BY <1>1, <1>4, <2>6, <2>7
<1> QED
  BY <1>3, <1>4

LEMMA WriteDeadSound ==
  ASSUME Lossless, LossInv, WriteDead PROVE ChunkSound'
<1>1. chunk' = chunk /\ pc = "dead" /\ pc' \in {"down", "resolve"}
  BY DEF WriteDead, Exit
<1>2. CASE pc' = "down"
  BY <1>2 DEF ChunkSound
<1>3. CASE pc' = "resolve"
  <2>1. PICK took \in SUBSET (DeadLetters \cap connected) :
          dead' = Count(dead, took, DeadData) /\ took # {}
    BY <1>3 DEF WriteDead, Exit, Lossless
  <2>2. PICK d \in DeadLetters : d \in took
    BY <2>1
  <2>3. \A o \in Offsets : o \in DeadData => dead'[d][o] = dead[d][o] + 1
    BY <2>1, <2>2, CountType DEF LossInv, TypeInv, TypeOK
  <2>4. \A o \in Offsets : dead[d][o] \in Nat
    BY <2>2 DEF LossInv, TypeInv, TypeOK
  <2>5. \A o \in chunk : o \in Offsets /\ (o \in DeadData \/ Kind[o] = "empty")
    BY <1>1 DEF DeadData, Parsed, LossInv, TypeInv, TypeOK, ChunkSound
  <2>6. \A o \in chunk : Handled(o)'
    BY <2>2, <2>3, <2>4, <2>5 DEF Handled
  <2> QED
    BY <1>1, <1>3, <2>6 DEF ChunkSound
<1> QED
  BY <1>1, <1>2, <1>3

LEMMA NextChunkSound ==
  ASSUME Lossless, LossInv, [Next]_vars PROVE ChunkSound'
<1>1. CASE Take
  BY <1>1, TakeSound
<1>2. CASE Transform
  BY <1>2, TransformSound
<1>3. CASE \E s \in Sinks : WriteSink(s)
  BY <1>3, WriteSinkSound
<1>4. CASE WriteDead
  BY <1>4, WriteDeadSound
<1>5. CASE Reconnect
  <2>1. chunk' = chunk /\ pc' = "dead" /\ chunk \subseteq Offsets
    BY <1>5 DEF Reconnect, LossInv, TypeInv, TypeOK
  <2> QED
    BY <2>1 DEF ChunkSound, Lossless
<1>6. CASE Stop \/ UNCHANGED vars
  <2>1. UNCHANGED <<pc, chunk, pending, received, dead>>
    BY <1>6 DEF Stop, vars, kafka
  <2> QED
    BY <2>1 DEF LossInv, ChunkSound, Sent, Parsed, Handled
<1>7. CASE Launch \/ Restart \/ Fetch \/ Break \/ Resolve \/ EndBatch \/ Stopped \/ Crash
  BY <1>7 DEF ChunkSound, Launch, Restart, Fetch, Break, Resolve, EndBatch, Stopped, Crash, Exit
<1> QED
  BY <1>1, <1>2, <1>3, <1>4, <1>5, <1>6, <1>7 DEF Next, Process

(***************************************************************************)
(* No message is lost, whatever connections, writes and processes fail:    *)
(* an offset is committed when a sink or a dead letter sink has the        *)
(* message or there was nothing to write (index.ts, "before ACK to avoid   *)
(* data loss").                                                            *)
(***************************************************************************)
THEOREM NoMessageLost == ASSUME Lossless PROVE Spec => []NothingLost
<1>1. Init => LossInv
  BY InitLossInv
<1>2. LossInv /\ [Next]_vars => LossInv'
  BY NextTypeInv, NextRunning, NextResolvedHandled, NextChunkSound DEF LossInv
<1>3. LossInv => NothingLost
  <2> SUFFICES ASSUME LossInv, NEW o \in 1 .. committed PROVE Handled(o)
    BY DEF NothingLost
  <2>1. o \in 1 .. resolved
    BY DEF LossInv, TypeInv, TypeOK
  <2> QED
    BY <2>1 DEF LossInv, ResolvedHandled
<1> QED
  BY <1>1, <1>2, <1>3, PTL DEF Spec
-----------------------------------------------------------------------------
(***************************************************************************)
(* What this run of the process has not yet written: the offsets ahead of  *)
(* the consumer, less those of the chunk a producer already has.           *)
(***************************************************************************)
Written(s) == \/ pc = "write" /\ s \notin pending
              \/ pc \in {"reconnect", "dead", "resolve"}

AheadOfSink(s, o) == pc # "down" /\ o > resolved /\ (o \in chunk => ~Written(s))

AheadOfDead(o) == pc # "down" /\ o > resolved /\ (o \in chunk => pc # "resolve")

Unrepeated ==
  /\ \A s \in Sinks, o \in Offsets :
       received[s][o] <= launches /\ (AheadOfSink(s, o) => received[s][o] < launches)
  /\ \A d \in DeadLetters, o \in Offsets :
       dead[d][o] <= launches /\ (AheadOfDead(o) => dead[d][o] < launches)

RepeatInv == TypeInv /\ Unrepeated

LEMMA InitRepeatInv == Init => RepeatInv
<1> SUFFICES ASSUME Init PROVE RepeatInv
  OBVIOUS
<1>1. TypeInv
  BY InitTypeInv
<1>2. Unrepeated
  BY DEF Init, Unrepeated, AheadOfSink, AheadOfDead
<1> QED
  BY <1>1, <1>2 DEF RepeatInv

(* The offsets ahead of the consumer at the end of these steps were ahead  *)
(* of it before.                                                           *)
LEMMA KeepsUnrepeated ==
  ASSUME RepeatInv, UNCHANGED <<kafka, launches>>,
         \A s \in Sinks, o \in Offsets : AheadOfSink(s, o)' => AheadOfSink(s, o),
         \A o \in Offsets : AheadOfDead(o)' => AheadOfDead(o)
  PROVE  Unrepeated'
  BY DEF RepeatInv, Unrepeated, kafka

LEMMA LaunchUnrepeated ==
  ASSUME RepeatInv, Launch PROVE Unrepeated'
<1>1. received' = received /\ dead' = dead /\ launches' = launches + 1 /\ launches \in Nat
  BY DEF Launch, kafka, RepeatInv, TypeInv, TypeOK
<1>2. /\ \A s \in Sinks, o \in Offsets : received[s][o] \in Nat /\ received[s][o] <= launches
      /\ \A d \in DeadLetters, o \in Offsets : dead[d][o] \in Nat /\ dead[d][o] <= launches
  BY DEF RepeatInv, Unrepeated, TypeInv, TypeOK
<1> QED
  BY <1>1, <1>2 DEF Unrepeated

LEMMA WriteSinkUnrepeated ==
  ASSUME RepeatInv, NEW s \in Sinks, WriteSink(s) PROVE Unrepeated'
<1>1. /\ UNCHANGED <<chunk, resolved, dead, launches>> /\ pc = "write"
      /\ pc' \in {"write", "resolve", "reconnect"} /\ launches \in Nat
      /\ chunk = resolved + 1 .. ChunkEnd
  BY DEF WriteSink, RepeatInv, TypeInv, TypeOK, Position, Busy
<1>2. PICK landed \in SUBSET pending :
        /\ received' = Count(received, landed, Sent)
        /\ landed \cap pending' = {}
        /\ pc' = "write" => pending' \cup landed = pending
  <2>1. CASE received' = Count(received, {s}, Sent) /\ pending' = pending \ {s}
    <3>1. {s} \in SUBSET pending /\ {s} \cap pending' = {} /\ pending' \cup {s} = pending
      BY <2>1 DEF WriteSink
    <3> QED
      BY <2>1, <3>1
  <2>2. CASE \E landed \in SUBSET (pending \cap connected) :
               received' = Count(received, landed, Sent) /\ pending' = {} /\ pc' = "reconnect"
    BY <2>2
  <2> QED
    BY <2>1, <2>2 DEF WriteSink
<1>3. \A t \in Sinks, o \in Offsets :
        received'[t][o] = IF t \in landed /\ o \in Sent THEN received[t][o] + 1 ELSE received[t][o]
  BY <1>2, CountType DEF RepeatInv, TypeInv, TypeOK
<1>4. \A t \in Sinks, o \in Offsets : received[t][o] \in Nat
  BY DEF RepeatInv, TypeInv, TypeOK
<1>5. ASSUME NEW t \in Sinks, NEW o \in Offsets
      PROVE  received'[t][o] <= launches /\ (AheadOfSink(t, o)' => received'[t][o] < launches)
  <2>1. received[t][o] <= launches /\ (AheadOfSink(t, o) => received[t][o] < launches)
    BY DEF RepeatInv, Unrepeated
  <2>2. CASE t \in landed /\ o \in Sent
    <3>1. o \in chunk /\ o > resolved /\ t \in pending /\ t \notin pending'
      BY <2>2, <1>1, <1>2 DEF Sent, Parsed, RepeatInv, TypeInv, TypeOK
    <3>2. received[t][o] < launches
      BY <3>1, <2>1, <1>1 DEF AheadOfSink, Written
    <3>3. received'[t][o] = received[t][o] + 1
      BY <2>2, <1>3
    <3>4. ~AheadOfSink(t, o)'
      BY <3>1, <1>1 DEF AheadOfSink, Written
    <3> QED
      BY <3>2, <3>3, <3>4, <1>1, <1>4
  <2>3. CASE ~(t \in landed /\ o \in Sent)
    <3>1. received'[t][o] = received[t][o]
      BY <2>3, <1>3
    <3>2. AheadOfSink(t, o)' => AheadOfSink(t, o)
      BY <1>1, <1>2 DEF AheadOfSink, Written
    <3> QED
      BY <3>1, <3>2, <2>1
  <2> QED
    BY <2>2, <2>3
<1>6. \A d \in DeadLetters, o \in Offsets :
        dead'[d][o] <= launches /\ (AheadOfDead(o)' => dead'[d][o] < launches)
  BY <1>1 DEF RepeatInv, Unrepeated, AheadOfDead
<1> QED
  BY <1>1, <1>5, <1>6 DEF Unrepeated

LEMMA WriteDeadUnrepeated ==
  ASSUME RepeatInv, WriteDead PROVE Unrepeated'
<1>1. /\ UNCHANGED <<chunk, resolved, received, launches>> /\ pc = "dead"
      /\ pc' \in {"down", "resolve"} /\ launches \in Nat /\ resolved \in Nat
      /\ chunk = resolved + 1 .. ChunkEnd
  BY DEF WriteDead, Exit, RepeatInv, TypeInv, TypeOK, Position, Busy
<1>2. PICK took \in SUBSET (DeadLetters \cap connected) : dead' = Count(dead, took, DeadData)
  BY DEF WriteDead
<1>3. \A d \in DeadLetters, o \in Offsets :
        dead'[d][o] = IF d \in took /\ o \in DeadData THEN dead[d][o] + 1 ELSE dead[d][o]
  BY <1>2, CountType DEF RepeatInv, TypeInv, TypeOK
<1>4. \A d \in DeadLetters, o \in Offsets : dead[d][o] \in Nat
  BY DEF RepeatInv, TypeInv, TypeOK
<1>5. ASSUME NEW d \in DeadLetters, NEW o \in Offsets
      PROVE  dead'[d][o] <= launches /\ (AheadOfDead(o)' => dead'[d][o] < launches)
  <2>1. dead[d][o] <= launches /\ (AheadOfDead(o) => dead[d][o] < launches)
    BY DEF RepeatInv, Unrepeated
  <2>2. CASE o \in chunk
    <3>1. o > resolved
      BY <2>2, <1>1
    <3>2. dead[d][o] < launches
      BY <3>1, <2>1, <1>1 DEF AheadOfDead
    <3>3. ~AheadOfDead(o)'
      BY <2>2, <1>1 DEF AheadOfDead
    <3> QED
      BY <3>2, <3>3, <1>1, <1>3, <1>4
  <2>3. CASE o \notin chunk
    <3>1. o \notin DeadData
      BY <2>3 DEF DeadData, Parsed
    <3>2. AheadOfDead(o)' => AheadOfDead(o)
      BY <1>1 DEF AheadOfDead
    <3> QED
      BY <3>1, <3>2, <2>1, <1>3
  <2> QED
    BY <2>2, <2>3
<1>6. \A s \in Sinks, o \in Offsets :
        received'[s][o] <= launches /\ (AheadOfSink(s, o)' => received'[s][o] < launches)
  BY <1>1 DEF RepeatInv, Unrepeated, AheadOfSink, Written
<1> QED
  BY <1>1, <1>5, <1>6 DEF Unrepeated

LEMMA NextUnrepeated == ASSUME RepeatInv, [Next]_vars PROVE Unrepeated'
<1>1. CASE Launch
  BY <1>1, LaunchUnrepeated
<1>2. CASE \E s \in Sinks : WriteSink(s)
  BY <1>2, WriteSinkUnrepeated
<1>3. CASE WriteDead
  BY <1>3, WriteDeadUnrepeated
<1>4. CASE Resolve
  <2>1. /\ chunk = resolved + 1 .. resolved' /\ resolved < resolved' /\ resolved' \in Nat
        /\ pc' # "resolve" /\ UNCHANGED <<kafka, launches, chunk>> /\ pc # "down"
    BY <1>4, ChunkEndInBatch
    DEF Resolve, RepeatInv, TypeInv, TypeOK, Position, Busy, Offsets, budget
  <2>2. \A o \in Offsets : o > resolved' => o > resolved /\ o \notin chunk
    BY <2>1 DEF RepeatInv, TypeInv, TypeOK, Offsets
  <2> QED
    BY <2>1, <2>2, KeepsUnrepeated DEF AheadOfSink, AheadOfDead
<1>5. CASE Take
  <2>1. pc = "next" /\ UNCHANGED <<kafka, launches, resolved>>
    BY <1>5 DEF Take, budget
  <2> QED
    BY <2>1, KeepsUnrepeated DEF AheadOfSink, AheadOfDead, Written
<1>6. CASE Transform \/ Reconnect
  <2>1. /\ pc \in {"transform", "reconnect"} /\ pc' \in {"dead", "write", "resolve"}
        /\ UNCHANGED <<kafka, launches, resolved, chunk>>
        /\ pc = "reconnect" => pc' = "dead"
    BY <1>6 DEF Transform, Reconnect, budget
  <2> QED
    BY <2>1, KeepsUnrepeated DEF AheadOfSink, AheadOfDead, Written
<1>7. CASE Break
  <2>1. /\ pc = "next" /\ UNCHANGED <<kafka, launches, chunk>> /\ resolved <= resolved'
        /\ resolved \in Nat /\ resolved' \in Nat /\ pc' = "commit"
    BY <1>7 DEF Break, budget, RepeatInv, TypeInv, TypeOK, Position
  <2>2. \A o \in Offsets : o > resolved' => o > resolved
    BY <2>1 DEF Offsets
  <2> QED
    BY <2>1, <2>2, KeepsUnrepeated DEF AheadOfSink, AheadOfDead, Written
<1>8. CASE Fetch \/ EndBatch
  <2>1. pc \in {"poll", "commit"} /\ UNCHANGED <<kafka, launches, resolved, chunk>>
    BY <1>8 DEF Fetch, EndBatch, budget
  <2> QED
    BY <2>1, KeepsUnrepeated DEF AheadOfSink, AheadOfDead, Written
<1>9. CASE Restart \/ Stopped \/ Crash
  <2>1. pc' = "down" /\ UNCHANGED <<kafka, launches>>
    BY <1>9 DEF Restart, Stopped, Crash, Exit, budget
  <2> QED
    BY <2>1, KeepsUnrepeated DEF AheadOfSink, AheadOfDead
<1>10. CASE Stop \/ UNCHANGED vars
  <2>1. UNCHANGED <<kafka, launches, resolved, chunk, pending, pc>>
    BY <1>10 DEF Stop, vars, budget
  <2> QED
    BY <2>1, KeepsUnrepeated DEF AheadOfSink, AheadOfDead, Written
<1> QED
  BY <1>1, <1>2, <1>3, <1>4, <1>5, <1>6, <1>7, <1>8, <1>9, <1>10 DEF Next, Process

(***************************************************************************)
(* A sink or a dead letter sink has a message at most as often as the      *)
(* process was started: the processor never writes a message twice on its  *)
(* own.                                                                    *)
(***************************************************************************)
THEOREM RepeatedOnlyByRestart == Spec => []RepeatsOnlyByRestart
<1>1. Init => RepeatInv
  BY InitRepeatInv
<1>2. RepeatInv /\ [Next]_vars => RepeatInv'
  BY NextTypeInv, NextUnrepeated DEF RepeatInv
<1>3. RepeatInv => RepeatsOnlyByRestart
  BY DEF RepeatInv, Unrepeated, RepeatsOnlyByRestart
<1> QED
  BY <1>1, <1>2, <1>3, PTL DEF Spec
=============================================================================
