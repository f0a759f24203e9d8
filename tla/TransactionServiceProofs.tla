----------------------- MODULE TransactionServiceProofs -----------------------
(***************************************************************************)
(* Proofs about the transaction service, for every number of calls, keys,  *)
(* retries and failures: type correctness, that a bulk write is recorded   *)
(* in whole or not at all, that what is recorded is on the stream, that a  *)
(* result was recorded, and that the service implements the ledger its     *)
(* callers rely on.                                                        *)
(***************************************************************************)
EXTENDS TransactionService, FiniteSetTheorems, TLAPS

(* Attempts the client has not sent have no execution.                     *)
Fresh ==
  \A c \in Calls, n \in Attempts :
    n > client[c].attempt \/ (n = client[c].attempt /\ client[c].at = "call") =>
      exec[<<c, n>>].at = "unsent"

(* How far an execution is, by its phase.                                  *)
Progress(e) ==
  /\ exec[e].at = "insert" => exec[e].rows < Len(keys(e)) /\ exec[e].sent = 0
  /\ exec[e].at = "stream" => exec[e].rows = Len(keys(e)) /\ exec[e].sent <= Len(keys(e))
  /\ exec[e].at = "commit" =>
       /\ exec[e].rows = Len(keys(e))
       /\ args[e[1]].streamed => exec[e].sent = Len(keys(e))
       /\ exec[e].sent <= Len(keys(e))
  /\ ~ Open(e) => exec[e].rows = 0 /\ exec[e].sent = 0

(* An open transaction has the rows it inserted for itself.                *)
Exclusive ==
  \A e \in Executions : \A k \in Inserted(e) :
    /\ table[k] = NoCall
    /\ \A f \in Executions \ {e} : k \notin Inserted(f)

(* What an execution has sent is on the stream.                            *)
SentStreamed ==
  \A e \in Executions : \A i \in 1 .. exec[e].sent : topic[<<keys(e)[i], e[1]>>] > 0

TypeInv == TypeOK /\ Fresh /\ \A e \in Executions : Progress(e)

(***************************************************************************)
(* The arguments, and the stream.                                          *)
(***************************************************************************)
LEMMA KeysFacts ==
  ASSUME TypeOK, NEW e \in Executions
  PROVE  /\ e[1] \in Calls /\ e[2] \in Attempts /\ e = <<e[1], e[2]>>
         /\ args[e[1]].streamed \in BOOLEAN
         /\ keys(e) \in Seq(Keys) /\ Len(keys(e)) \in Nat /\ Len(keys(e)) > 0
         /\ DOMAIN keys(e) = 1 .. Len(keys(e))
         /\ \A i \in 1 .. Len(keys(e)) : keys(e)[i] \in Keys
<1>1. e[1] \in Calls /\ e[2] \in Attempts /\ e = <<e[1], e[2]>>
  BY DEF Executions
<1>2. args[e[1]] \in Payloads
  BY <1>1 DEF TypeOK
<1>3. args[e[1]].streamed \in BOOLEAN /\ keys(e) \in Seq(Keys) /\ keys(e) # << >>
  BY <1>2, ConstantsOK DEF keys
<1> QED
  BY <1>1, <1>3

(* Messages are only added to the topic.                                   *)
LEMMA StreamsFacts ==
  ASSUME TypeOK, NEW e \in Executions, NEW n \in Nat, NEW m \in Nat, m <= Len(keys(e))
  PROVE  /\ Streams(e, n, m) \in [Keys \X Calls -> Nat]
         /\ \A r \in Keys \X Calls : topic[r] <= Streams(e, n, m)[r]
         /\ \A i \in n + 1 .. m : Streams(e, n, m)[<<keys(e)[i], e[1]>>] > 0
<1> DEFINE At(k) == {i \in n + 1 .. m : keys(e)[i] = k}
<1>1. \A k : IsFiniteSet(At(k))
  <2> SUFFICES ASSUME NEW k PROVE IsFiniteSet(At(k))
    OBVIOUS
  <2>1. IsFiniteSet(n + 1 .. m)
    BY FS_Interval
  <2>2. At(k) \in SUBSET (n + 1 .. m)
    OBVIOUS
  <2> QED
    BY <2>1, <2>2, FS_Subset
<1>2. \A k : Cardinality(At(k)) \in Nat
  BY <1>1, FS_CardinalityType
<1>3. \A k : At(k) # {} => Cardinality(At(k)) > 0
  <2> SUFFICES ASSUME NEW k, At(k) # {} PROVE Cardinality(At(k)) > 0
    OBVIOUS
  <2> HIDE DEF At
  <2>1. Cardinality(At(k)) # 0
    BY <1>1, FS_EmptySet
  <2> QED
    BY <1>2, <2>1
<1> HIDE DEF At
<1>4. \A r \in Keys \X Calls :
        Streams(e, n, m)[r] = IF r[2] = e[1] THEN topic[r] + Cardinality(At(r[1])) ELSE topic[r]
  BY DEF Streams, At
<1>5. /\ Streams(e, n, m) \in [Keys \X Calls -> Nat]
      /\ \A r \in Keys \X Calls : topic[r] <= Streams(e, n, m)[r]
  <2>1. \A r \in Keys \X Calls : topic[r] \in Nat
    BY DEF TypeOK
  <2>2. \A r \in Keys \X Calls :
          Streams(e, n, m)[r] \in Nat /\ topic[r] <= Streams(e, n, m)[r]
    BY <1>2, <1>4, <2>1
  <2>3. Streams(e, n, m) = [r \in Keys \X Calls |-> Streams(e, n, m)[r]]
    BY DEF Streams
  <2> QED
    BY <2>2, <2>3
<1>6. ASSUME NEW i \in n + 1 .. m PROVE Streams(e, n, m)[<<keys(e)[i], e[1]>>] > 0
  <2> DEFINE r == <<keys(e)[i], e[1]>>
  <2>1. r \in Keys \X Calls /\ r[1] = keys(e)[i] /\ r[2] = e[1]
    BY KeysFacts
  <2>2. Cardinality(At(r[1])) > 0 /\ Cardinality(At(r[1])) \in Nat
    <3>1. i \in At(r[1])
      BY <2>1 DEF At
    <3> QED
      BY <1>2, <1>3, <3>1
  <2>3. topic[r] \in Nat
    BY <2>1 DEF TypeOK
  <2> QED
    BY <1>4, <2>1, <2>2, <2>3
<1> QED
  BY <1>5, <1>6

LEMMA BatchFacts ==
  ASSUME TypeInv, NEW e \in Executions, exec[e].at = "stream"
  PROVE  /\ BatchEnd(e) \in Nat /\ exec[e].sent \in Nat
         /\ exec[e].sent <= BatchEnd(e) /\ BatchEnd(e) <= Len(keys(e))
         /\ exec[e].rows = Len(keys(e))
  BY ConstantsOK, KeysFacts DEF TypeInv, TypeOK, Exec, Progress, BatchEnd, MinOf

(***************************************************************************)
(* What a step may do to executions, rows and messages.                    *)
(***************************************************************************)
Ends(e, answer) == RollsBack(e, answer) /\ Open(e)

Grows ==
  /\ topic' \in [Keys \X Calls -> Nat]
  /\ \A r \in Keys \X Calls : topic[r] <= topic'[r]

LEMMA Effects ==
  ASSUME TypeInv, [Next]_vars
  PROVE  /\ args' = args
         /\ Grows
         /\ \/ UNCHANGED <<exec, table, topic>>
            \/ \E c \in Calls : Send(c)
            \/ \E e \in Executions : Answer(e)
            \/ \E e \in Executions : Insert(e) /\ ~Taken(e) /\ Inserts(e)
            \/ \E e \in Executions : WriteBatch(e)
            \/ \E e \in Executions :
                 /\ exec[e].at = "commit" /\ table' = Recorded(e) /\ topic' = topic
                 /\ \E answer \in {"ok", "error"} : Ends(e, answer)
                 /\ UNCHANGED client
            \/ /\ UNCHANGED <<client, table>>
               /\ \/ Crash
                  \/ \E e \in Executions, answer \in {"conflict", "error"} : Ends(e, answer)
<1>1. topic' = topic => Grows
  BY DEF Grows, TypeInv, TypeOK
<1>2. ASSUME NEW c \in Calls, Client(c) \/ Breaks(c)
      PROVE  args' = args /\ topic' = topic /\ (Send(c) \/ UNCHANGED <<exec, table>>)
  BY <1>2 DEF Client, Send, Closed, Breaks
<1>3. ASSUME NEW e \in Executions, Insert(e) \/ BreakDeadlock(e)
      PROVE  /\ args' = args /\ topic' = topic
             /\ \/ Insert(e) /\ ~Taken(e) /\ Inserts(e)
                \/ /\ UNCHANGED <<client, table>>
                   /\ \E answer \in {"conflict", "error"} : Ends(e, answer)
  <2>1. Open(e)
    BY <1>3 DEF Insert, BreakDeadlock, Awaits, Open
  <2> QED
    BY <1>3, <2>1 DEF Insert, BreakDeadlock, Ends
<1>4. ASSUME NEW e \in Executions, Commit(e) \/ CommitFails(e)
      PROVE  /\ args' = args /\ topic' = topic /\ UNCHANGED client
             /\ \/ /\ exec[e].at = "commit" /\ table' = Recorded(e)
                   /\ \E answer \in {"ok", "error"} : Ends(e, answer)
                \/ table' = table /\ Ends(e, "error")
  BY <1>4 DEF Commit, CommitFails, Ends, Open
<1>5. ASSUME NEW e \in Executions, WriteBatch(e) \/ WriteFails(e)
      PROVE  /\ args' = args /\ Grows
             /\ \/ WriteBatch(e)
                \/ UNCHANGED <<client, table>> /\ Ends(e, "error")
  <2>1. exec[e].at = "stream"
    BY <1>5 DEF WriteBatch, WriteFails
  <2>2. topic' = topic \/ topic' = Streams(e, exec[e].sent, BatchEnd(e))
    BY <1>5 DEF WriteBatch, WriteFails
  <2>3. Grows
    BY <1>1, <2>1, <2>2, BatchFacts, StreamsFacts DEF Grows, TypeInv
  <2> QED
    BY <1>5, <2>1, <2>3 DEF WriteBatch, WriteFails, Ends, Open
<1>6. ASSUME NEW e \in Executions, Answer(e) PROVE args' = args /\ topic' = topic
  BY <1>6 DEF Answer
<1>7. CASE Crash
  BY <1>1, <1>7 DEF Crash
<1>8. CASE UNCHANGED vars
  BY <1>1, <1>8 DEF vars
<1>9. CASE \E c \in Calls : Client(c) \/ Breaks(c)
  BY <1>1, <1>2, <1>9
<1>10. CASE \E e \in Executions : Service(e) \/ WriteFails(e) \/ CommitFails(e)
  <2>1. PICK e \in Executions :
          \/ Insert(e) \/ BreakDeadlock(e) \/ Commit(e) \/ CommitFails(e)
          \/ WriteBatch(e) \/ WriteFails(e) \/ Answer(e)
    BY <1>10 DEF Service
  <2>2. CASE Insert(e) \/ BreakDeadlock(e)
    BY <1>1, <1>3, <2>2
  <2>3. CASE Commit(e) \/ CommitFails(e)
    BY <1>1, <1>4, <2>3
  <2>4. CASE WriteBatch(e) \/ WriteFails(e)
    BY <1>5, <2>4
  <2>5. CASE Answer(e)
    BY <1>1, <1>6, <2>5
  <2> QED
    BY <2>1, <2>2, <2>3, <2>4, <2>5
<1> QED
  BY <1>7, <1>8, <1>9, <1>10 DEF Next

(***************************************************************************)
(* Types.                                                                  *)
(***************************************************************************)
ClientType == [at : {"call", "waiting"} \cup Answers, attempt : Attempts]

(* A client keeps its attempt, or goes on to the next.                     *)
LEMMA RetryEffect ==
  ASSUME TypeOK, NEW c \in Calls, Retry(c)
  PROVE  /\ client' \in [Calls -> ClientType]
         /\ \A d \in Calls \ {c} : client'[d] = client[d]
         /\ \/ client'[c].attempt = client[c].attempt /\ client'[c].at = "unavailable"
            \/ client'[c].attempt = client[c].attempt + 1 /\ client'[c].at = "call"
<1>1. client[c] \in ClientType
  BY DEF TypeOK, ClientType
<1>2. client[c].attempt \in Attempts
  BY <1>1 DEF ClientType
<1>3. CASE client[c].attempt <= Retries
  <2>1. client[c].attempt + 1 \in Attempts
    BY <1>2, <1>3, ConstantsOK DEF Attempts
  <2>2. client' = [client EXCEPT ![c] = [at |-> "call", attempt |-> client[c].attempt + 1]]
    BY <1>3 DEF Retry
  <2> QED
    BY <2>1, <2>2 DEF TypeOK, ClientType
<1>4. CASE ~(client[c].attempt <= Retries)
  <2>1. client' = [client EXCEPT ![c] = [at |-> "unavailable", attempt |-> client[c].attempt]]
    BY <1>4 DEF Retry
  <2> QED
    BY <1>2, <2>1 DEF TypeOK, ClientType, Answers
<1> QED
  BY <1>3, <1>4

(* A client whose request breaks retries, or ends the call.                *)
LEMMA BreakEffect ==
  ASSUME TypeOK, NEW c \in Calls, Breaks(c) \/ Closed(c)
  PROVE  /\ client' \in [Calls -> ClientType]
         /\ \A d \in Calls \ {c} : client'[d] = client[d]
         /\ \/ client'[c].attempt = client[c].attempt
               /\ client'[c].at \in {"error", "unavailable"}
            \/ client'[c].attempt = client[c].attempt + 1 /\ client'[c].at = "call"
<1>1. CASE Retry(c)
  BY <1>1, RetryEffect
<1>2. CASE GivesUp(c)
  BY <1>2 DEF GivesUp, TypeOK, ClientType, Answers
<1> QED
  BY <1>1, <1>2 DEF Breaks, Closed

LEMMA ClientEffects ==
  ASSUME TypeInv, [Next]_vars
  PROVE  /\ client' \in [Calls -> ClientType]
         /\ \A c \in Calls :
              \/ client'[c] = client[c]
              \/ client'[c].attempt = client[c].attempt /\ client'[c].at # "call"
              \/ client'[c].attempt = client[c].attempt + 1
<1>1. ASSUME NEW c \in Calls, Send(c)
      PROVE  /\ client' \in [Calls -> ClientType]
             /\ \A d \in Calls \ {c} : client'[d] = client[d]
             /\ client'[c].attempt = client[c].attempt /\ client'[c].at = "waiting"
  BY <1>1 DEF Send, TypeInv, TypeOK, ClientType
<1>2. ASSUME NEW c \in Calls, Breaks(c) \/ Closed(c)
      PROVE  /\ client' \in [Calls -> ClientType]
             /\ \A d \in Calls \ {c} : client'[d] = client[d]
             /\ \/ /\ client'[c].attempt = client[c].attempt
                   /\ client'[c].at \in {"error", "unavailable"}
                \/ client'[c].attempt = client[c].attempt + 1 /\ client'[c].at = "call"
  BY <1>2, BreakEffect DEF TypeInv
<1>3. ASSUME NEW e \in Executions, Answer(e)
      PROVE  /\ client' \in [Calls -> ClientType]
             /\ \A d \in Calls :
                  \/ client'[d] = client[d]
                  \/ client'[d].attempt = client[d].attempt /\ client'[d].at # "call"
  <2>1. exec[e].at \in Answers /\ exec[e].at # "call" /\ e[1] \in Calls
    BY <1>3 DEF Answer, Answers, Executions
  <2>2. \/ client' = client
        \/ client' = [client EXCEPT ![e[1]].at = exec[e].at]
    BY <1>3 DEF Answer
  <2> QED
    BY <2>1, <2>2 DEF TypeInv, TypeOK, ClientType
<1>4. CASE UNCHANGED client
  BY <1>4 DEF TypeInv, TypeOK, ClientType
<1>5. \/ \E c \in Calls : Send(c) \/ Breaks(c) \/ Closed(c)
      \/ \E e \in Executions : Answer(e)
      \/ UNCHANGED client
  BY DEF Next, vars, Client, Service, Insert, WriteBatch, WriteFails, Commit, CommitFails,
         BreakDeadlock, Crash
<1>6. CASE \E c \in Calls : Send(c) \/ Breaks(c) \/ Closed(c)
  <2>1. PICK c \in Calls : Send(c) \/ Breaks(c) \/ Closed(c)
    BY <1>6
  <2>2. /\ client' \in [Calls -> ClientType]
        /\ \A d \in Calls \ {c} : client'[d] = client[d]
        /\ \/ client'[c].attempt = client[c].attempt /\ client'[c].at # "call"
           \/ client'[c].attempt = client[c].attempt + 1
    BY <1>1, <1>2, <2>1
  <2> QED
    BY <2>2
<1> QED
  BY <1>3, <1>4, <1>5, <1>6

LEMMA FaultsType == ASSUME TypeInv, [Next]_vars PROVE faults' \in 0 .. MaxFaults
<1>1. \/ faults' = faults
      \/ faults < MaxFaults /\ faults' = faults + 1
  BY DEF Next, vars, Client, Send, Closed, Breaks, Service, Insert, WriteBatch, WriteFails,
         Commit, CommitFails, BreakDeadlock, Answer, Crash
<1> QED
  BY <1>1, ConstantsOK DEF TypeInv, TypeOK

(* The executions a step leaves alone go on as they were.                  *)
LEMMA SameProgress ==
  ASSUME NEW e \in Executions, exec'[e] = exec[e], args' = args, Progress(e)
  PROVE  Progress(e)'
  BY DEF Progress, Open, keys

LEMMA ExecEffects ==
  ASSUME TypeInv, [Next]_vars
  PROVE  /\ exec' \in [Executions -> Exec]
         /\ \A e \in Executions : Progress(e)'
         /\ \A e \in Executions :
              exec[e].at = "unsent" =>
                \/ exec'[e].at = "unsent"
                \/ \E c \in Calls : Send(c) /\ e = <<c, client[c].attempt>>
<1> USE DEF TypeInv
<1>1. args' = args
  BY Effects
<1>2. CASE exec' = exec
  BY <1>1, <1>2, SameProgress DEF TypeOK
<1>3. ASSUME NEW e \in Executions, NEW x \in Exec, exec' = [exec EXCEPT ![e] = x],
             \/ x.at = "unsent"
             \/ exec[e].at # "unsent"
             \/ \E c \in Calls : Send(c) /\ e = <<c, client[c].attempt>>,
             /\ x.at = "insert" => x.rows < Len(keys(e)) /\ x.sent = 0
             /\ x.at = "stream" => x.rows = Len(keys(e)) /\ x.sent <= Len(keys(e))
             /\ x.at = "commit" =>
                  /\ x.rows = Len(keys(e))
                  /\ args[e[1]].streamed => x.sent = Len(keys(e))
                  /\ x.sent <= Len(keys(e))
             /\ x.at \notin {"insert", "stream", "commit"} => x.rows = 0 /\ x.sent = 0
      PROVE  /\ exec' \in [Executions -> Exec]
             /\ \A f \in Executions : Progress(f)'
             /\ \A f \in Executions :
                  exec[f].at = "unsent" =>
                    \/ exec'[f].at = "unsent"
                    \/ \E c \in Calls : Send(c) /\ f = <<c, client[c].attempt>>
  <2>1. exec' \in [Executions -> Exec] /\ exec'[e] = x
    BY <1>3 DEF TypeOK
  <2>2. \A f \in Executions \ {e} : exec'[f] = exec[f]
    BY <1>3 DEF TypeOK
  <2>3. Progress(e)'
    BY <1>1, <1>3, <2>1 DEF Progress, Open, keys
  <2>4. \A f \in Executions \ {e} : Progress(f)'
    BY <1>1, <2>2, SameProgress
  <2> QED
    BY <1>3, <2>1, <2>2, <2>3, <2>4
<1>4. ASSUME NEW c \in Calls, Send(c)
      PROVE  \E e \in Executions : e = <<c, client[c].attempt>>
               /\ exec' = [exec EXCEPT ![e] = [exec[e] EXCEPT !.at = "insert"]]
               /\ exec[e].at = "unsent"
  <2>1. client[c].attempt \in Attempts /\ client[c].at = "call"
    BY <1>4 DEF TypeOK, Send
  <2>2. exec[<<c, client[c].attempt>>].at = "unsent"
    BY <2>1 DEF Fresh
  <2> QED
    BY <1>4, <2>1, <2>2 DEF Send, Goes, Executions
<1>5. CASE \E c \in Calls : Send(c)
  <2>1. PICK c \in Calls : Send(c)
    BY <1>5
  <2>2. PICK e \in Executions :
          /\ e = <<c, client[c].attempt>>
          /\ exec' = [exec EXCEPT ![e] = [exec[e] EXCEPT !.at = "insert"]]
          /\ exec[e].at = "unsent"
    BY <1>4, <2>1
  <2> DEFINE x == [exec[e] EXCEPT !.at = "insert"]
  <2>3. x \in Exec /\ x.at = "insert" /\ x.rows = 0 /\ x.sent = 0
    BY <2>2 DEF TypeOK, Exec, Phases, Progress, Open
  <2> HIDE DEF x
  <2>4. exec' = [exec EXCEPT ![e] = x]
    BY <2>2 DEF x
  <2>5. x.rows < Len(keys(e))
    BY <2>3, KeysFacts
  <2>6. \E d \in Calls : Send(d) /\ e = <<d, client[d].attempt>>
    BY <2>1, <2>2
  <2> QED
    BY <1>3, <2>3, <2>4, <2>5, <2>6
<1>6. CASE \E e \in Executions : Answer(e)
  <2>1. PICK e \in Executions : Answer(e)
    BY <1>6
  <2> DEFINE x == [exec[e] EXCEPT !.at = "gone"]
  <2>2. x \in Exec /\ x.at = "gone" /\ x.rows = 0 /\ x.sent = 0 /\ exec[e].at # "unsent"
    BY <2>1 DEF Answer, TypeOK, Exec, Phases, Progress, Open
  <2>3. exec' = [exec EXCEPT ![e] = x]
    BY <2>1 DEF Answer, Goes
  <2> HIDE DEF x
  <2> QED
    BY <1>3, <2>2, <2>3
<1>7. CASE \E e \in Executions : Insert(e) /\ ~Taken(e) /\ Inserts(e)
  <2>1. PICK e \in Executions : exec[e].at = "insert" /\ Inserts(e)
    BY <1>7 DEF Insert
  <2> DEFINE n == exec[e].rows + 1
             at == IF n < Len(keys(e)) THEN "insert"
                   ELSE IF args[e[1]].streamed THEN "stream" ELSE "commit"
             x == [exec[e] EXCEPT !.rows = n, !.at = at]
  <2>2. /\ exec[e].rows \in Nat /\ exec[e].rows < Len(keys(e)) /\ exec[e].sent = 0
        /\ Len(keys(e)) \in Nat
    BY <2>1, KeysFacts DEF TypeOK, Exec, Progress
  <2>3. exec' = [exec EXCEPT ![e] = x]
    BY <2>1 DEF Inserts, TypeOK, Exec
  <2>4. /\ n \in Nat /\ at \in {"insert", "stream", "commit"}
        /\ at = "insert" => n < Len(keys(e))
        /\ at # "insert" => n = Len(keys(e))
        /\ at = "commit" => ~args[e[1]].streamed
    BY <2>2
  <2> HIDE DEF n, at
  <2>5. x \in Exec /\ x.rows = n /\ x.sent = 0 /\ x.at = at
    <3>1. exec[e] \in Exec
      BY DEF TypeOK
    <3> QED
      BY <2>2, <2>4, <3>1 DEF Exec, Phases
  <2> HIDE DEF x
  <2>6. /\ x.at = "insert" => x.rows < Len(keys(e)) /\ x.sent = 0
        /\ x.at \in {"stream", "commit"} => x.rows = Len(keys(e)) /\ x.sent <= Len(keys(e))
        /\ x.at = "commit" => ~args[e[1]].streamed
        /\ x.at \in {"insert", "stream", "commit"}
    BY <2>2, <2>4, <2>5
  <2>7. exec[e].at # "unsent"
    BY <2>1
  <2> QED
    BY <1>3, <2>3, <2>5, <2>6, <2>7
<1>8. CASE \E e \in Executions : WriteBatch(e)
  <2>1. PICK e \in Executions : WriteBatch(e)
    BY <1>8
  <2> DEFINE at == IF BatchEnd(e) = Len(keys(e)) THEN "commit" ELSE "stream"
             x == [exec[e] EXCEPT !.sent = BatchEnd(e), !.at = at]
  <2>2. /\ exec[e].at = "stream" /\ BatchEnd(e) \in Nat /\ BatchEnd(e) <= Len(keys(e))
        /\ exec[e].rows = Len(keys(e))
    BY <2>1, BatchFacts DEF WriteBatch
  <2>3. exec' = [exec EXCEPT ![e] = x]
    BY <2>1, <2>2 DEF WriteBatch, TypeOK, Exec
  <2>4. x \in Exec /\ x.rows = Len(keys(e)) /\ x.sent = BatchEnd(e) /\ x.at = at
    BY <2>2 DEF TypeOK, Exec, Phases
  <2>5. at \in {"stream", "commit"} /\ (at = "commit" => BatchEnd(e) = Len(keys(e)))
    OBVIOUS
  <2> HIDE DEF x, at
  <2> QED
    BY <1>3, <2>2, <2>3, <2>4, <2>5
<1>9. CASE \E e \in Executions, answer \in {"ok", "conflict", "error"} : Ends(e, answer)
  <2>1. PICK e \in Executions, answer \in {"ok", "conflict", "error"} : Ends(e, answer)
    BY <1>9
  <2> DEFINE x == [at |-> answer, rows |-> 0, sent |-> 0]
  <2>2. x \in Exec /\ x.at \in {"ok", "conflict", "error"} /\ x.rows = 0 /\ x.sent = 0
    BY DEF Exec, Phases
  <2>3. exec' = [exec EXCEPT ![e] = x] /\ exec[e].at # "unsent"
    BY <2>1 DEF Ends, RollsBack, Open
  <2> HIDE DEF x
  <2> QED
    BY <1>3, <2>2, <2>3
<1>10. CASE Crash
  <2>1. \A e \in Executions :
          /\ exec'[e].at \in {"unsent", "gone"} /\ exec'[e].rows = 0 /\ exec'[e].sent = 0
          /\ exec[e].at = "unsent" => exec'[e].at = "unsent"
    BY <1>10 DEF Crash, Idle
  <2>2. exec' \in [Executions -> Exec]
    BY <1>10 DEF Crash, Idle, Exec, Phases
  <2> QED
    BY <2>1, <2>2 DEF Progress, Open
<1> QED
  BY Effects, <1>2, <1>5, <1>6, <1>7, <1>8, <1>9, <1>10

LEMMA InitTypeInv == Init => TypeInv
<1> SUFFICES ASSUME Init PROVE TypeInv
  OBVIOUS
<1>1. \A e \in Executions : exec[e] = Idle
  BY DEF Init
<1>2. Idle \in Exec
  BY DEF Idle, Exec, Phases
<1>3. client \in [Calls -> ClientType]
  BY ConstantsOK DEF Init, ClientType, Attempts
<1>4. \A e \in Executions : Progress(e)
  BY <1>1 DEF Progress, Idle, Open
<1>5. Fresh
  BY <1>1 DEF Fresh, Idle, Executions
<1>6. exec \in [Executions -> Exec] /\ faults \in 0 .. MaxFaults
  BY <1>2, ConstantsOK DEF Init
<1> QED
  BY <1>3, <1>4, <1>5, <1>6 DEF Init, TypeInv, TypeOK, ClientType

LEMMA NextFresh == ASSUME TypeInv, [Next]_vars PROVE Fresh'
<1> SUFFICES ASSUME NEW c \in Calls, NEW n \in Attempts,
                    \/ n > client'[c].attempt
                    \/ n = client'[c].attempt /\ client'[c].at = "call"
             PROVE  exec'[<<c, n>>].at = "unsent"
  BY DEF Fresh
<1>1. client[c].attempt \in Nat /\ client'[c].attempt \in Nat /\ n \in Nat
  BY ClientEffects DEF TypeInv, TypeOK, ClientType, Attempts
<1>2. \/ n > client[c].attempt
      \/ n = client[c].attempt /\ client[c].at = "call" /\ client'[c] = client[c]
  BY <1>1, ClientEffects
<1>3. exec[<<c, n>>].at = "unsent"
  BY <1>2 DEF TypeInv, Fresh
<1>4. ~ \E d \in Calls : Send(d) /\ <<c, n>> = <<d, client[d].attempt>>
  <2> SUFFICES ASSUME Send(c), n = client[c].attempt PROVE FALSE
    OBVIOUS
  <2>1. client'[c].at = "waiting" /\ client[c].at = "call"
    BY DEF Send, TypeInv, TypeOK
  <2> QED
    BY <1>1, <1>2, <2>1
<1>5. <<c, n>> \in Executions
  BY DEF Executions
<1> QED
  BY <1>3, <1>4, <1>5, ExecEffects

LEMMA NextTypeInv == ASSUME TypeInv, [Next]_vars PROVE TypeInv'
<1>1. args' \in [Calls -> Payloads] /\ topic' \in [Keys \X Calls -> Nat]
  BY Effects DEF TypeInv, TypeOK, Grows
<1>2. table' \in [Keys -> Calls \cup {NoCall}]
  <2>1. \A e \in Executions : Recorded(e) \in [Keys -> Calls \cup {NoCall}]
    BY KeysFacts DEF Recorded, TypeInv, TypeOK
  <2>2. table' = table \/ \E e \in Executions : table' = Recorded(e)
    BY Effects DEF Send, Answer, Insert, WriteBatch, Crash
  <2> QED
    BY <2>1, <2>2 DEF TypeInv, TypeOK
<1> QED
  BY <1>1, <1>2, ClientEffects, ExecEffects, FaultsType, NextFresh DEF TypeInv, TypeOK, ClientType

(* Every variable has its type: there is no retry too many.                *)
THEOREM TypeCorrect == Spec => []TypeOK
<1>1. Init => TypeInv
  BY InitTypeInv
<1>2. TypeInv /\ [Next]_vars => TypeInv'
  BY NextTypeInv
<1>3. TypeInv => TypeOK
  BY DEF TypeInv
<1> QED
  BY <1>1, <1>2, <1>3, PTL DEF Spec

(***************************************************************************)
(* All or nothing.                                                         *)
(***************************************************************************)
(* What a call was answered with, or will be.                              *)
Kept ==
  /\ \A e \in Executions : exec[e].at = "ok" => \A k \in ToSet(keys(e)) : table[k] = e[1]
  /\ OkIsRecorded

WholeInv == TypeInv /\ Exclusive /\ AllOrNothing /\ Kept

LEMMA InsertedFacts ==
  ASSUME TypeInv, NEW e \in Executions
  PROVE  /\ Inserted(e) \subseteq Keys
         /\ Inserted(e) \subseteq ToSet(keys(e))
         /\ exec[e].rows = 0 => Inserted(e) = {}
         /\ exec[e].rows = Len(keys(e)) => Inserted(e) = ToSet(keys(e))
         /\ ToSet(keys(e)) # {} /\ ToSet(keys(e)) \subseteq Keys
<1>1. exec[e].rows \in Nat /\ exec[e].rows <= Len(keys(e))
  <2>1. exec[e] \in Exec /\ Progress(e)
    BY DEF TypeInv, TypeOK
  <2> QED
    BY <2>1, KeysFacts DEF TypeInv, Exec, Progress, Open
<1>2. /\ DOMAIN keys(e) = 1 .. Len(keys(e)) /\ Len(keys(e)) \in Nat /\ Len(keys(e)) > 0
      /\ \A i \in 1 .. Len(keys(e)) : keys(e)[i] \in Keys
  BY KeysFacts DEF TypeInv
<1>3. 1 \in DOMAIN keys(e) /\ 1 .. exec[e].rows \subseteq DOMAIN keys(e)
  BY <1>1, <1>2
<1>4. exec[e].rows = 0 => 1 .. exec[e].rows = {}
  OBVIOUS
<1> QED
  BY <1>2, <1>3, <1>4 DEF Inserted, ToSet

LEMMA RowsEffects ==
  ASSUME TypeInv, [Next]_vars, NEW e \in Executions, ~(Insert(e) /\ ~Taken(e) /\ Inserts(e))
  PROVE  exec'[e].rows \in {0, exec[e].rows}
<1>1. CASE \E f \in Executions : Insert(f) /\ ~Taken(f) /\ Inserts(f)
  BY <1>1 DEF Inserts, TypeInv, TypeOK
<1>2. CASE UNCHANGED <<exec, table, topic>> \/ Crash
  BY <1>2 DEF Crash, Idle
<1>3. CASE \/ \E c \in Calls : Send(c)
           \/ \E f \in Executions : Answer(f) \/ WriteBatch(f)
  <2>1. CASE \E c \in Calls : Send(c)
    <3>1. PICK f : exec' = [exec EXCEPT ![f].at = "insert"]
      BY <2>1 DEF Send, Goes
    <3>2. exec'[e] = exec[e] \/ exec'[e] = [exec[e] EXCEPT !.at = "insert"]
      BY <3>1 DEF TypeInv, TypeOK
    <3> QED
      BY <3>2 DEF TypeInv, TypeOK, Exec
  <2>2. CASE \E f \in Executions : Answer(f)
    BY <2>2 DEF Answer, Goes, TypeInv, TypeOK, Exec
  <2>3. CASE \E f \in Executions : WriteBatch(f)
    BY <2>3 DEF WriteBatch, TypeInv, TypeOK, Exec
  <2> QED
    BY <1>3, <2>1, <2>2, <2>3
<1>4. CASE \E f \in Executions, answer \in {"ok", "conflict", "error"} : Ends(f, answer)
  BY <1>4 DEF Ends, RollsBack, TypeInv, TypeOK
<1> QED
  BY <1>1, <1>2, <1>3, <1>4, Effects

(* How the inserted rows change: one more, or none left.                   *)
LEMMA InsertedEffects ==
  ASSUME TypeInv, [Next]_vars, NEW e \in Executions
  PROVE  \/ Inserted(e)' \subseteq Inserted(e)
         \/ /\ Insert(e) /\ ~Taken(e) /\ Inserts(e)
            /\ Inserted(e)' = Inserted(e) \cup {NextKey(e)} /\ NextKey(e) \in Keys
<1>1. keys(e)' = keys(e)
  BY Effects DEF keys
<1>2. exec'[e].rows \in {0, exec[e].rows} => Inserted(e)' \subseteq Inserted(e)
  BY <1>1 DEF Inserted
<1>3. CASE Insert(e) /\ ~Taken(e) /\ Inserts(e)
  <2>1. exec'[e].rows = exec[e].rows + 1 /\ exec[e].at = "insert"
    BY <1>3 DEF Insert, Inserts, TypeInv, TypeOK, Exec
  <2>2. exec[e].rows \in Nat /\ exec[e].rows < Len(keys(e))
    BY <2>1 DEF TypeInv, TypeOK, Exec, Progress
  <2>3. 1 .. exec[e].rows + 1 = (1 .. exec[e].rows) \cup {exec[e].rows + 1}
    BY <2>2
  <2>4. NextKey(e) \in Keys
    BY <2>2, KeysFacts DEF NextKey, TypeInv
  <2> QED
    BY <1>1, <1>3, <2>1, <2>3, <2>4 DEF Inserted, NextKey
<1>4. CASE ~(Insert(e) /\ ~Taken(e) /\ Inserts(e))
  <2>1. exec'[e].rows \in {0, exec[e].rows}
    BY <1>4, RowsEffects
  <2> QED
    BY <1>2, <2>1
<1> QED
  BY <1>3, <1>4

LEMMA NextExclusive == ASSUME TypeInv, Exclusive, [Next]_vars PROVE Exclusive'
<1> SUFFICES ASSUME NEW e \in Executions, NEW k \in Inserted(e)'
             PROVE  /\ table'[k] = NoCall
                    /\ \A f \in Executions \ {e} : k \notin Inserted(f)'
  BY DEF Exclusive
<1>1. CASE \E f \in Executions : Insert(f) /\ ~Taken(f) /\ Inserts(f)
  <2>1. PICK g \in Executions : Insert(g) /\ ~Taken(g) /\ Inserts(g)
    BY <1>1
  <2> DEFINE n == NextKey(g)
  <2>2. table' = table /\ table[n] = NoCall /\ n \notin Inserted(g)
    BY <2>1 DEF Insert, Taken
  <2>3. \A f \in Executions \ {g} : Inserted(f)' \subseteq Inserted(f)
    <3>1. \A f \in Executions \ {g} : exec'[f] = exec[f]
      BY <2>1 DEF Inserts, TypeInv, TypeOK
    <3> QED
      BY <3>1, Effects DEF Inserted, keys
  <2>4. Inserted(g)' \subseteq Inserted(g) \cup {n}
    BY <2>1, InsertedEffects
  <2>5. \A f \in Executions \ {g} : n \notin Inserted(f)
    <3> SUFFICES ASSUME NEW f \in Executions \ {g}, n \in Inserted(f) PROVE FALSE
      OBVIOUS
    <3>1. Open(f)
      BY DEF Inserted, Progress, TypeInv
    <3> QED
      BY <2>1, <3>1 DEF Insert, Awaits
  <2> QED
    BY <2>2, <2>3, <2>4, <2>5 DEF Exclusive
<1>2. CASE ~ \E f \in Executions : Insert(f) /\ ~Taken(f) /\ Inserts(f)
  <2>1. \A f \in Executions : Inserted(f)' \subseteq Inserted(f)
    BY <1>2, InsertedEffects
  <2>2. k \in Inserted(e) /\ table[k] = NoCall /\ k \in Keys
    BY <2>1, InsertedFacts DEF Exclusive
  <2>3. CASE table' = table
    BY <2>1, <2>2, <2>3 DEF Exclusive
  <2>4. ASSUME NEW g \in Executions, table' = Recorded(g), NEW a, Ends(g, a)
        PROVE  table'[k] = NoCall
    <3>1. Inserted(g)' = {}
      <4>1. exec'[g].rows = 0
        BY <2>4 DEF Ends, RollsBack, TypeInv, TypeOK
      <4> QED
        BY <4>1 DEF Inserted
    <3>2. e # g
      BY <3>1
    <3>3. k \notin Inserted(g)
      BY <2>2, <3>2 DEF Exclusive
    <3> QED
      BY <2>2, <2>4, <3>3 DEF Recorded
  <2>5. table' = table \/ table'[k] = NoCall
    BY <1>2, <2>4, Effects DEF Send, Answer, WriteBatch, Crash
  <2> QED
    BY <2>1, <2>2, <2>3, <2>5 DEF Exclusive
<1> QED
  BY <1>1, <1>2

(* The rows a step records were nobody's, and are all those of the call.   *)
LEMMA TableEffects ==
  ASSUME TypeInv, Exclusive, [Next]_vars
  PROVE  \/ table' = table
         \/ \E e \in Executions :
              /\ exec[e].at = "commit" /\ UNCHANGED client
              /\ \E a \in {"ok", "error"} : Ends(e, a)
              /\ \A k \in ToSet(keys(e)) : table[k] = NoCall /\ table'[k] = e[1]
              /\ \A k \in Keys \ ToSet(keys(e)) : table'[k] = table[k]
<1>1. ASSUME NEW e \in Executions, exec[e].at = "commit", table' = Recorded(e)
      PROVE  /\ \A k \in ToSet(keys(e)) : table[k] = NoCall /\ table'[k] = e[1]
             /\ \A k \in Keys \ ToSet(keys(e)) : table'[k] = table[k]
  <2>1. Inserted(e) = ToSet(keys(e)) /\ ToSet(keys(e)) \subseteq Keys
    BY <1>1, InsertedFacts DEF TypeInv, Progress
  <2> QED
    BY <1>1, <2>1 DEF Recorded, Exclusive
<1> QED
  BY <1>1, Effects DEF Send, Answer, Insert, WriteBatch, Crash

LEMMA NextAllOrNothing ==
  ASSUME TypeInv, Exclusive, AllOrNothing, [Next]_vars PROVE AllOrNothing'
<1> DEFINE Mine(c) == {k \in Keys : table[k] = c}
<1> SUFFICES ASSUME NEW c \in Calls
             PROVE  Mine(c)' \in {{}, ToSet(args[c].keys)}
  BY Effects DEF AllOrNothing
<1>1. Mine(c) \in {{}, ToSet(args[c].keys)}
  BY DEF AllOrNothing
<1>2. CASE table' = table
  BY <1>1, <1>2
<1>3. ASSUME NEW e \in Executions,
             \A k \in ToSet(keys(e)) : table[k] = NoCall /\ table'[k] = e[1],
             \A k \in Keys \ ToSet(keys(e)) : table'[k] = table[k]
      PROVE  Mine(c)' \in {{}, ToSet(args[c].keys)}
  <2>1. ToSet(keys(e)) # {} /\ ToSet(keys(e)) \subseteq Keys /\ c # NoCall
    BY InsertedFacts, ConstantsOK
  <2>2. CASE c = e[1]
    <3>1. Mine(c) = {}
      BY <1>1, <1>3, <2>1, <2>2 DEF keys
    <3>2. Mine(c)' = ToSet(keys(e))
      BY <1>3, <2>1, <2>2, <3>1
    <3> QED
      BY <2>2, <3>2 DEF keys
  <2>3. CASE c # e[1]
    <3>1. Mine(c)' = Mine(c)
      BY <1>3, <2>1, <2>3
    <3> QED
      BY <1>1, <3>1
  <2> QED
    BY <2>2, <2>3
<1> QED
  BY <1>2, <1>3, TableEffects

(* A step that finishes an execution with a result has recorded its rows.  *)
LEMMA OkEffect ==
  ASSUME TypeInv, Exclusive, [Next]_vars,
         NEW e \in Executions, exec[e].at # "ok", exec'[e].at = "ok", NEW k \in ToSet(keys(e))
  PROVE  table'[k] = e[1]
<1>1. exec[e].at = "commit" /\ table' = Recorded(e)
  <2>1. CASE UNCHANGED exec
    BY <2>1
  <2>2. CASE \E c \in Calls : Send(c)
    <3>1. PICK f : exec' = [exec EXCEPT ![f].at = "insert"]
      BY <2>2 DEF Send, Goes
    <3>2. exec'[e] = exec[e] \/ exec'[e] = [exec[e] EXCEPT !.at = "insert"]
      BY <3>1 DEF TypeInv, TypeOK
    <3> QED
      BY <3>2 DEF TypeInv, TypeOK, Exec
  <2>7. CASE \E f \in Executions : Answer(f)
    <3>1. PICK f : exec' = [exec EXCEPT ![f].at = "gone"]
      BY <2>7 DEF Answer, Goes
    <3>2. exec'[e] = exec[e] \/ exec'[e] = [exec[e] EXCEPT !.at = "gone"]
      BY <3>1 DEF TypeInv, TypeOK
    <3> QED
      BY <3>2 DEF TypeInv, TypeOK, Exec
  <2>3. CASE \E f \in Executions : Insert(f) /\ ~Taken(f) /\ Inserts(f)
    BY <2>3 DEF Insert, Inserts, TypeInv, TypeOK, Exec
  <2>4. CASE \E f \in Executions : WriteBatch(f)
    BY <2>4 DEF WriteBatch, TypeInv, TypeOK, Exec
  <2>5. CASE Crash
    BY <2>5 DEF Crash, Idle
  <2>6. ASSUME NEW f \in Executions, NEW a \in {"ok", "conflict", "error"}, Ends(f, a)
        PROVE  e = f /\ a = "ok"
    BY <2>6 DEF Ends, RollsBack, TypeInv, TypeOK
  <2> QED
    BY Effects, <2>1, <2>2, <2>3, <2>4, <2>5, <2>6, <2>7
<1>2. Inserted(e) = ToSet(keys(e)) /\ ToSet(keys(e)) \subseteq Keys
  BY <1>1, InsertedFacts DEF TypeInv, Progress
<1> QED
  BY <1>1, <1>2 DEF Recorded

LEMMA NextKept == ASSUME TypeInv, Exclusive, Kept, [Next]_vars PROVE Kept'
<1>0. args' = args /\ \A e \in Executions : keys(e)' = keys(e)
  BY Effects DEF keys
<1>1. \A k \in Keys, c \in Calls : table[k] = c => table'[k] = c
  BY TableEffects, ConstantsOK
<1>2. ASSUME NEW e \in Executions, exec'[e].at = "ok", NEW k \in ToSet(keys(e))
      PROVE  table'[k] = e[1]
  <2>1. CASE exec[e].at = "ok"
    BY <1>1, <2>1, KeysFacts, InsertedFacts DEF Kept, TypeInv
  <2> QED
    BY <1>2, <2>1, OkEffect
<1>3. ASSUME NEW c \in Calls, client'[c].at = "ok", NEW k \in ToSet(args[c].keys)
      PROVE  table'[k] = c
  <2>0. k \in Keys
    <3>1. <<c, 1>> \in Executions
      BY ConstantsOK DEF Executions, Attempts
    <3> QED
      BY <3>1, InsertedFacts DEF keys
  <2>1. CASE client[c].at = "ok"
    BY <1>1, <2>0, <2>1 DEF Kept, OkIsRecorded
  <2>2. CASE \E e \in Executions : Answer(e) /\ exec[e].at = "ok" /\ e[1] = c
    BY <1>1, <2>0, <2>2 DEF Kept, keys
  <2>3. client[c].at = "ok" \/ \E e \in Executions : Answer(e) /\ exec[e].at = "ok" /\ e[1] = c
    <3>1. CASE \E e \in Executions : Answer(e)
      BY <1>3, <3>1 DEF Answer, TypeInv, TypeOK
    <3>2. CASE \E d \in Calls : Client(d) \/ Breaks(d)
      <4>1. PICK d \in Calls : Client(d) \/ Breaks(d)
        BY <3>2
      <4>2. CASE Send(d)
        BY <1>3, <4>2 DEF Send, TypeInv, TypeOK
      <4>3. CASE Breaks(d) \/ Closed(d)
        BY <1>3, <4>3, BreakEffect DEF TypeInv
      <4> QED
        BY <4>1, <4>2, <4>3 DEF Client
    <3>3. CASE UNCHANGED client
      BY <1>3, <3>3
    <3> QED
      BY <3>1, <3>2, <3>3
      DEF Next, vars, Service, Insert, WriteBatch, WriteFails, Commit, CommitFails,
          BreakDeadlock, Crash
  <2> QED
    BY <2>1, <2>2, <2>3
<1>4. \A e \in Executions : exec'[e].at = "ok" => \A k \in ToSet(keys(e))' : table'[k] = e[1]
  BY <1>0, <1>2
<1>5. OkIsRecorded'
  BY <1>0, <1>3 DEF OkIsRecorded
<1> QED
  BY <1>4, <1>5 DEF Kept

LEMMA InitWholeInv == Init => WholeInv
<1> SUFFICES ASSUME Init PROVE WholeInv
  OBVIOUS
<1>1. TypeInv
  BY InitTypeInv
<1>2. \A e \in Executions : exec[e].rows = 0 /\ exec[e].at = "unsent"
  BY DEF Init, Idle
<1>3. Exclusive
  BY <1>1, <1>2, InsertedFacts DEF Exclusive
<1>4. AllOrNothing
  BY ConstantsOK DEF Init, AllOrNothing
<1>5. Kept
  BY <1>2 DEF Init, Kept, OkIsRecorded
<1> QED
  BY <1>1, <1>3, <1>4, <1>5 DEF WholeInv

LEMMA NextWholeInv == ASSUME WholeInv, [Next]_vars PROVE WholeInv'
  BY NextTypeInv, NextExclusive, NextAllOrNothing, NextKept DEF WholeInv

(***************************************************************************)
(* Every bulk write is recorded in whole or not at all.                    *)
(***************************************************************************)
THEOREM RecordedInWhole == Spec => []AllOrNothing
<1>1. Init => WholeInv
  BY InitWholeInv
<1>2. WholeInv /\ [Next]_vars => WholeInv'
  BY NextWholeInv
<1>3. WholeInv => AllOrNothing
  BY DEF WholeInv
<1> QED
  BY <1>1, <1>2, <1>3, PTL DEF Spec

(* A result the client was given is in the table, and stays there.         *)
THEOREM ResultsRecorded == Spec => []OkIsRecorded
<1>1. Init => WholeInv
  BY InitWholeInv
<1>2. WholeInv /\ [Next]_vars => WholeInv'
  BY NextWholeInv
<1>3. WholeInv => OkIsRecorded
  BY DEF WholeInv, Kept
<1> QED
  BY <1>1, <1>2, <1>3, PTL DEF Spec

(***************************************************************************)
(* What is recorded is on the stream.                                      *)
(***************************************************************************)
LEMMA SentFacts ==
  ASSUME TypeInv, NEW e \in Executions
  PROVE  exec[e].sent \in Nat /\ exec[e].sent <= Len(keys(e))
<1>1. exec[e] \in Exec /\ Progress(e)
  BY DEF TypeInv, TypeOK
<1> QED
  BY <1>1, KeysFacts DEF TypeInv, Exec, Progress, Open

LEMMA NextSentStreamed == ASSUME TypeInv, SentStreamed, [Next]_vars PROVE SentStreamed'
<1> SUFFICES ASSUME NEW e \in Executions, NEW i \in 1 .. exec'[e].sent
             PROVE  topic'[<<keys(e)[i], e[1]>>] > 0
  BY Effects DEF SentStreamed, keys
<1>1. CASE i \in 1 .. exec[e].sent
  <2>1. <<keys(e)[i], e[1]>> \in Keys \X Calls
    BY <1>1, SentFacts, KeysFacts DEF TypeInv
  <2>2. topic[<<keys(e)[i], e[1]>>] > 0
    BY <1>1 DEF SentStreamed
  <2> QED
    BY <2>1, <2>2, Effects DEF Grows, TypeInv, TypeOK
<1>2. CASE i \notin 1 .. exec[e].sent
  <2>1. WriteBatch(e)
    <3>1. exec'[e].sent \notin {0, exec[e].sent}
      BY <1>2
    <3>2. CASE \E c \in Calls : Send(c)
      <4>1. PICK f : exec' = [exec EXCEPT ![f].at = "insert"]
        BY <3>2 DEF Send, Goes
      <4>2. exec'[e] = exec[e] \/ exec'[e] = [exec[e] EXCEPT !.at = "insert"]
        BY <4>1 DEF TypeInv, TypeOK
      <4> QED
        BY <3>1, <4>2 DEF TypeInv, TypeOK, Exec
    <3>7. CASE \E f \in Executions : Answer(f)
      <4>1. PICK f : exec' = [exec EXCEPT ![f].at = "gone"]
        BY <3>7 DEF Answer, Goes
      <4>2. exec'[e] = exec[e] \/ exec'[e] = [exec[e] EXCEPT !.at = "gone"]
        BY <4>1 DEF TypeInv, TypeOK
      <4> QED
        BY <3>1, <4>2 DEF TypeInv, TypeOK, Exec
    <3>3. CASE \E f \in Executions : Insert(f) /\ ~Taken(f) /\ Inserts(f)
      BY <3>1, <3>3 DEF Inserts, TypeInv, TypeOK, Exec
    <3>4. CASE \E f \in Executions : WriteBatch(f)
      BY <3>1, <3>4 DEF WriteBatch, TypeInv, TypeOK, Exec
    <3>5. CASE UNCHANGED exec \/ Crash
      BY <3>1, <3>5 DEF Crash, Idle
    <3>6. CASE \E f \in Executions, a \in {"ok", "conflict", "error"} : Ends(f, a)
      BY <3>1, <3>6 DEF Ends, RollsBack, TypeInv, TypeOK
    <3> QED
      BY Effects, <3>2, <3>3, <3>4, <3>5, <3>6, <3>7
  <2>2. exec[e].at = "stream" /\ topic' = Streams(e, exec[e].sent, BatchEnd(e))
        /\ exec'[e].sent = BatchEnd(e)
    BY <2>1 DEF WriteBatch, TypeInv, TypeOK, Exec
  <2>3. i \in exec[e].sent + 1 .. BatchEnd(e)
    BY <1>2, <2>2, BatchFacts
  <2> QED
    BY <2>2, <2>3, BatchFacts, StreamsFacts DEF TypeInv
<1> QED
  BY <1>1, <1>2

StreamInv == WholeInv /\ SentStreamed /\ RecordedIsStreamed

LEMMA NextStreamInv == ASSUME StreamInv, [Next]_vars PROVE StreamInv'
<1> USE DEF StreamInv, WholeInv
<1>1. WholeInv' /\ SentStreamed'
  BY NextWholeInv, NextSentStreamed
<1>2. ASSUME NEW k \in Keys, table'[k] # NoCall, args'[table'[k]].streamed
      PROVE  topic'[<<k, table'[k]>>] > 0
  <2>1. args' = args /\ \A r \in Keys \X Calls : topic[r] \in Nat /\ topic'[r] \in Nat /\ topic[r] <= topic'[r]
    BY Effects DEF Grows, TypeInv, TypeOK
  <2>2. CASE table'[k] = table[k]
    <3>1. <<k, table[k]>> \in Keys \X Calls /\ topic[<<k, table[k]>>] > 0
      BY <1>2, <2>1, <2>2 DEF RecordedIsStreamed, TypeInv, TypeOK
    <3> QED
      BY <2>1, <2>2, <3>1
  <2>3. CASE table'[k] # table[k]
    <3>1. PICK e \in Executions :
            exec[e].at = "commit" /\ k \in ToSet(keys(e)) /\ table'[k] = e[1]
      BY <2>3, TableEffects
    <3>2. exec[e].sent = Len(keys(e))
      BY <1>2, <2>1, <3>1 DEF TypeInv, Progress
    <3>3. PICK i \in 1 .. Len(keys(e)) : keys(e)[i] = k
      BY <3>1, KeysFacts DEF ToSet, TypeInv
    <3>4. topic[<<k, e[1]>>] > 0 /\ <<k, e[1]>> \in Keys \X Calls
      BY <3>2, <3>3, KeysFacts DEF SentStreamed, TypeInv
    <3> QED
      BY <2>1, <3>1, <3>4
  <2> QED
    BY <2>2, <2>3
<1> QED
  BY <1>1, <1>2 DEF RecordedIsStreamed

(***************************************************************************)
(* Subscribers hear of every transaction that is recorded, whatever fails: *)
(* Kafka is written before the commit.                                     *)
(***************************************************************************)
THEOREM RecordedStreamed == Spec => []RecordedIsStreamed
<1>1. Init => StreamInv
  <2> SUFFICES ASSUME Init PROVE StreamInv
    OBVIOUS
  <2>1. SentStreamed
    BY DEF Init, SentStreamed, Idle
  <2> QED
    BY <2>1, InitWholeInv DEF StreamInv, Init, RecordedIsStreamed
<1>2. StreamInv /\ [Next]_vars => StreamInv'
  BY NextStreamInv
<1>3. StreamInv => RecordedIsStreamed
  BY DEF StreamInv
<1> QED
  BY <1>1, <1>2, <1>3, PTL DEF Spec

(***************************************************************************)
(* Streamed once, as long as nothing fails.                                *)
(***************************************************************************)
Sent(e) == {keys(e)[i] : i \in 1 .. exec[e].sent}

(* No call is sent again: its execution goes on until the call is answered. *)
FirstAttempt ==
  \A c \in Calls :
    /\ client[c].attempt = 1
    /\ exec[<<c, 1>>].at = "gone" => client[c].at \in Answers

(* The rows of a call have keys of their own.                              *)
Distinct ==
  \A e \in Executions : \A i \in 1 .. exec[e].rows : \A j \in 1 .. i - 1 :
    keys(e)[i] # keys(e)[j]

(* A message is the only one of its call, which recorded the row or is     *)
(* about to.                                                               *)
OneMessage ==
  \A k \in Keys : \A c \in Calls :
    topic[<<k, c>>] > 0 =>
      /\ topic[<<k, c>>] = 1
      /\ table[k] = c \/ k \in Sent(<<c, 1>>)

OnceInv == WholeInv /\ Distinct /\ (faults = 0 => FirstAttempt /\ OneMessage)

(* Rows with keys of their own add one message each.                       *)
LEMMA StreamsOnce ==
  ASSUME TypeOK, NEW e \in Executions, NEW n \in Nat, NEW m \in Nat, m <= Len(keys(e)),
         \A i \in n + 1 .. m : \A j \in n + 1 .. m : keys(e)[i] = keys(e)[j] => i = j,
         NEW k \in Keys, NEW c \in Calls
  PROVE  \/ /\ c = e[1] /\ \E i \in n + 1 .. m : keys(e)[i] = k
            /\ Streams(e, n, m)[<<k, c>>] = topic[<<k, c>>] + 1
         \/ Streams(e, n, m)[<<k, c>>] = topic[<<k, c>>]
<1> DEFINE At == {i \in n + 1 .. m : keys(e)[i] = k}
<1>1. Streams(e, n, m)[<<k, c>>] =
        IF c = e[1] THEN topic[<<k, c>>] + Cardinality(At) ELSE topic[<<k, c>>]
  BY DEF Streams
<1>2. topic[<<k, c>>] \in Nat
  BY DEF TypeOK
<1>3. CASE At = {}
  <2>1. Cardinality(At) = 0
    BY <1>3, FS_EmptySet
  <2> QED
    BY <1>1, <1>2, <2>1
<1>4. CASE At # {}
  <2>1. PICK i \in n + 1 .. m : keys(e)[i] = k
    BY <1>4
  <2>2. At = {i}
    BY <2>1
  <2>3. Cardinality(At) = 1
    BY <2>2, FS_Singleton
  <2> QED
    BY <1>1, <2>1, <2>3
<1> QED
  BY <1>3, <1>4

LEMMA RowsFacts ==
  ASSUME TypeInv, NEW e \in Executions
  PROVE  exec[e].rows \in Nat /\ exec[e].rows <= Len(keys(e)) /\ Len(keys(e)) \in Nat
<1>1. exec[e] \in Exec /\ Progress(e) /\ Len(keys(e)) \in Nat
  BY KeysFacts DEF TypeInv, TypeOK
<1> QED
  BY <1>1 DEF Exec, Progress, Open

LEMMA NextDistinct == ASSUME TypeInv, Distinct, [Next]_vars PROVE Distinct'
<1> SUFFICES ASSUME NEW e \in Executions, NEW i \in 1 .. exec'[e].rows, NEW j \in 1 .. i - 1
             PROVE  keys(e)[i] # keys(e)[j]
  BY Effects DEF Distinct, keys
<1>1. CASE Insert(e) /\ ~Taken(e) /\ Inserts(e)
  <2>1. exec'[e].rows = exec[e].rows + 1 /\ exec[e].rows \in Nat
    BY <1>1, RowsFacts DEF Inserts, TypeInv, TypeOK
  <2>2. CASE i = exec[e].rows + 1
    <3>1. j \in 1 .. exec[e].rows
      BY <2>1, <2>2
    <3>2. keys(e)[j] \in Inserted(e)
      BY <3>1 DEF Inserted
    <3> QED
      BY <1>1, <2>2, <3>2 DEF Taken, NextKey
  <2>3. CASE i # exec[e].rows + 1
    BY <2>1, <2>3 DEF Distinct
  <2> QED
    BY <2>2, <2>3
<1>2. CASE ~(Insert(e) /\ ~Taken(e) /\ Inserts(e))
  <2>1. exec'[e].rows \in {0, exec[e].rows}
    BY <1>2, RowsEffects
  <2> QED
    BY <2>1 DEF Distinct
<1> QED
  BY <1>1, <1>2

(* A step that is no failure.                                              *)
LEMMA NoFault ==
  ASSUME TypeInv, [Next]_vars, faults' = 0
  PROVE  /\ faults = 0
         /\ UNCHANGED vars \/ (\E c \in Calls : Client(c)) \/ \E e \in Executions : Service(e)
<1>1. faults \in Nat
  BY ConstantsOK DEF TypeInv, TypeOK
<1>2. CASE UNCHANGED vars \/ (\E c \in Calls : Client(c)) \/ \E e \in Executions : Service(e)
  <2>1. faults' = faults
    BY <1>2 DEF vars, Client, Send, Closed, Service, Insert, WriteBatch, Commit, BreakDeadlock, Answer
  <2> QED
    BY <1>2, <2>1
<1>3. ASSUME ~ (UNCHANGED vars \/ (\E c \in Calls : Client(c)) \/ \E e \in Executions : Service(e))
      PROVE  FALSE
  <2>1. faults' = faults + 1
    BY <1>3 DEF Next, Breaks, WriteFails, CommitFails, Crash
  <2> QED
    BY <1>1, <2>1
<1> QED
  BY <1>2, <1>3

LEMMA FirstOnly ==
  ASSUME TypeInv, FirstAttempt, NEW e \in Executions, exec[e].at # "unsent"
  PROVE  e = <<e[1], 1>> /\ e[1] \in Calls /\ client[e[1]].at # "call"
<1>1. e[1] \in Calls /\ e[2] \in Attempts /\ e = <<e[1], e[2]>>
  BY KeysFacts DEF TypeInv
<1>2. client[e[1]].attempt = 1
  BY <1>1 DEF FirstAttempt
<1>3. e[2] \in Nat /\ e[2] >= 1
  BY <1>1, ConstantsOK DEF Attempts
<1>4. ~ (e[2] > 1) /\ ~ (e[2] = 1 /\ client[e[1]].at = "call")
  BY <1>1, <1>2 DEF TypeInv, Fresh
<1> QED
  BY <1>1, <1>3, <1>4

LEMMA NextFirstAttempt ==
  ASSUME TypeInv, FirstAttempt, [Next]_vars, faults' = 0
  PROVE  FirstAttempt'
<1> USE DEF TypeInv
<1>0. \A c \in Calls : <<c, 1>> \in Executions
  BY ConstantsOK DEF Executions, Attempts
<1>1. CASE UNCHANGED vars
  BY <1>1 DEF FirstAttempt, vars
<1>2. ASSUME NEW c \in Calls, Send(c) PROVE FirstAttempt'
  <2>1. client' = [client EXCEPT ![c].at = "waiting"]
        /\ exec' = [exec EXCEPT ![<<c, 1>>].at = "insert"]
    BY <1>2 DEF Send, Goes, FirstAttempt
  <2>2. \A d \in Calls : client'[d].attempt = 1 /\ (d # c => client'[d] = client[d])
    BY <2>1 DEF FirstAttempt, TypeOK
  <2>3. \A d \in Calls : exec'[<<d, 1>>].at = IF d = c THEN "insert" ELSE exec[<<d, 1>>].at
    BY <1>0, <2>1 DEF TypeOK, Exec
  <2> QED
    BY <2>2, <2>3 DEF FirstAttempt
<1>3. ASSUME NEW c \in Calls, Closed(c) PROVE FALSE
  BY <1>3 DEF Closed, FirstAttempt, Answers
<1>4. ASSUME NEW e \in Executions, Answer(e) PROVE FirstAttempt'
  <2>1. e = <<e[1], 1>> /\ e[1] \in Calls /\ client[e[1]].at # "call"
    BY <1>4, FirstOnly DEF Answer
  <2>2. client[e[1]].at \in Answers \/ client[e[1]] = [at |-> "waiting", attempt |-> 1]
    BY <2>1 DEF TypeOK, FirstAttempt
  <2>3. client' = IF client[e[1]] = [at |-> "waiting", attempt |-> 1]
                  THEN [client EXCEPT ![e[1]].at = exec[e].at]
                  ELSE client
    BY <1>4, <2>1 DEF Answer
  <2>4. exec[e].at \in Answers /\ exec' = [exec EXCEPT ![e].at = "gone"]
    BY <1>4 DEF Answer, Goes, Answers
  <2>5. client'[e[1]].at \in Answers /\ client'[e[1]].attempt = 1
    BY <2>1, <2>2, <2>3, <2>4 DEF TypeOK, FirstAttempt
  <2>6. ASSUME NEW d \in Calls \ {e[1]}
        PROVE  client'[d] = client[d] /\ exec'[<<d, 1>>] = exec[<<d, 1>>]
    <3>1. <<d, 1>> # e /\ <<d, 1>> \in Executions
      BY <1>0, <2>1
    <3>2. client'[d] = client[d]
      BY <2>3 DEF TypeOK
    <3> QED
      BY <2>4, <3>1, <3>2 DEF TypeOK
  <2> QED
    BY <2>5, <2>6 DEF FirstAttempt
<1>5. ASSUME NEW e \in Executions, Insert(e) \/ WriteBatch(e) \/ Commit(e) \/ BreakDeadlock(e)
      PROVE  FirstAttempt'
  <2>1. client' = client
    BY <1>5 DEF Insert, WriteBatch, Commit, BreakDeadlock
  <2>2. \A f \in Executions : exec'[f].at = "gone" => exec[f].at = "gone"
    <3>1. CASE Insert(e)
      <4>1. CASE Taken(e)
        BY <3>1, <4>1 DEF Insert, RollsBack, TypeOK
      <4>2. CASE ~Taken(e)
        <5>1. \A f \in Executions \ {e} : exec'[f] = exec[f]
          BY <3>1, <4>2 DEF Insert, Inserts, TypeOK
        <5>2. exec'[e].at \in {"insert", "stream", "commit"}
          BY <3>1, <4>2 DEF Insert, Inserts, TypeOK, Exec
        <5> QED
          BY <5>1, <5>2
      <4> QED
        BY <4>1, <4>2
    <3>2. CASE WriteBatch(e)
      BY <3>2 DEF WriteBatch, TypeOK, Exec
    <3>3. CASE Commit(e) \/ BreakDeadlock(e)
      BY <3>3 DEF Commit, BreakDeadlock, RollsBack, TypeOK
    <3> QED
      BY <1>5, <3>1, <3>2, <3>3
  <2> QED
    BY <1>0, <2>1, <2>2 DEF FirstAttempt
<1> QED
  BY <1>1, <1>2, <1>3, <1>4, <1>5, NoFault DEF Client, Service

LEMMA NextOneMessage ==
  ASSUME WholeInv, Distinct, FirstAttempt, OneMessage, [Next]_vars, faults' = 0
  PROVE  OneMessage'
<1> USE DEF WholeInv, TypeInv
<1>0. (\A c \in Calls : <<c, 1>> \in Executions) /\ (\A e \in Executions : keys(e)' = keys(e))
  BY ConstantsOK, Effects DEF Executions, Attempts, keys
<1>1. ASSUME topic' = topic,
             \A k \in Keys, c \in Calls : table[k] = c => table'[k] = c,
             \A c \in Calls : \A k \in Sent(<<c, 1>>) :
               k \in Sent(<<c, 1>>)' \/ table'[k] = c
      PROVE  OneMessage'
  BY <1>1 DEF OneMessage
<1>2. ASSUME NEW e \in Executions, exec'[e].sent = exec[e].sent \/ exec[e].sent = 0,
             \A f \in Executions \ {e} : exec'[f] = exec[f],
             NEW f \in Executions
      PROVE  Sent(f) \subseteq Sent(f)'
  BY <1>0, <1>2 DEF Sent
<1>3. CASE UNCHANGED vars
  BY <1>0, <1>1, <1>3 DEF vars, Sent
<1>4. ASSUME NEW c \in Calls, Client(c) PROVE OneMessage'
  <2>1. topic' = topic /\ table' = table
    BY <1>4 DEF Client, Send, Closed
  <2>2. \A f \in Executions : exec'[f].sent = exec[f].sent
    <3>1. CASE Closed(c)
      BY <3>1 DEF Closed
    <3>2. CASE Send(c)
      <4>1. exec' = [exec EXCEPT ![<<c, 1>>].at = "insert"]
        BY <3>2 DEF Send, Goes, FirstAttempt
      <4> QED
        BY <1>0, <4>1 DEF TypeOK, Exec
    <3> QED
      BY <1>4, <3>1, <3>2 DEF Client
  <2>3. \A d \in Calls : Sent(<<d, 1>>) \subseteq Sent(<<d, 1>>)'
    BY <1>0, <2>2 DEF Sent
  <2> QED
    BY <1>1, <2>1, <2>3
<1>5. ASSUME NEW e \in Executions, Insert(e) \/ BreakDeadlock(e) \/ Answer(e) PROVE OneMessage'
  <2>1. topic' = topic /\ table' = table
    BY <1>5 DEF Insert, BreakDeadlock, Answer
  <2>2. exec[e].sent = 0
    BY <1>5 DEF Insert, BreakDeadlock, Answer, Awaits, Progress, Open
  <2>3. \A f \in Executions \ {e} : exec'[f] = exec[f]
    BY <1>5 DEF Insert, Inserts, BreakDeadlock, Answer, Goes, RollsBack, TypeOK
  <2>4. \A d \in Calls : Sent(<<d, 1>>) \subseteq Sent(<<d, 1>>)'
    BY <1>0, <1>2, <2>2, <2>3
  <2> QED
    BY <1>1, <2>1, <2>4
<1>6. ASSUME NEW e \in Executions, Commit(e) PROVE OneMessage'
  <2>1. topic' = topic /\ table' = Recorded(e) /\ exec[e].at = "commit"
    BY <1>6 DEF Commit
  <2>2. e = <<e[1], 1>> /\ Inserted(e) = ToSet(keys(e)) /\ ToSet(keys(e)) \subseteq Keys
    BY <2>1, FirstOnly, InsertedFacts DEF Progress
  <2>3. \A k \in Keys, c \in Calls : table[k] = c => table'[k] = c
    BY <2>1, ConstantsOK DEF Recorded, Exclusive
  <2>4. \A f \in Executions \ {e} : Sent(f)' = Sent(f)
    BY <1>0, <1>6 DEF Commit, RollsBack, TypeOK, Sent
  <2>5. \A k \in Sent(e) : table'[k] = e[1]
    <3>1. Sent(e) \subseteq ToSet(keys(e))
      BY SentFacts, KeysFacts DEF Sent, ToSet
    <3> QED
      BY <2>1, <2>2, <3>1 DEF Recorded
  <2>6. ASSUME NEW c \in Calls, NEW k \in Sent(<<c, 1>>)
        PROVE  k \in Sent(<<c, 1>>)' \/ table'[k] = c
    <3>1. CASE <<c, 1>> = e
      <4>1. e[1] = c
        BY <3>1
      <4> QED
        BY <2>5, <3>1, <4>1
    <3>2. CASE <<c, 1>> # e
      BY <1>0, <2>4, <3>2
    <3> QED
      BY <3>1, <3>2
  <2> QED
    BY <1>1, <2>1, <2>3, <2>6
<1>7. ASSUME NEW e \in Executions, WriteBatch(e) PROVE OneMessage'
  <2> DEFINE n == exec[e].sent
             m == BatchEnd(e)
  <2>1. /\ exec[e].at = "stream" /\ table' = table /\ topic' = Streams(e, n, m)
        /\ exec'[e].sent = m /\ \A f \in Executions \ {e} : exec'[f] = exec[f]
    BY <1>7 DEF WriteBatch, TypeOK, Exec
  <2>2. n \in Nat /\ m \in Nat /\ n <= m /\ m <= Len(keys(e)) /\ exec[e].rows = Len(keys(e))
    BY <2>1, BatchFacts
  <2>3. e = <<e[1], 1>> /\ e[1] \in Calls /\ Len(keys(e)) \in Nat
    BY <2>1, FirstOnly, KeysFacts
  <2> HIDE DEF n, m
  <2>4. ASSUME NEW i \in 1 .. m, NEW j \in 1 .. m, keys(e)[i] = keys(e)[j] PROVE i = j
    <3>1. i \in 1 .. exec[e].rows /\ j \in 1 .. exec[e].rows
      BY <2>2, <2>3
    <3>2. ~ (i < j) /\ ~ (j < i)
      BY <2>4, <3>1 DEF Distinct
    <3> QED
      BY <3>1, <3>2
  <2>5. Sent(e) = {keys(e)[i] : i \in 1 .. n} /\ Sent(e)' = {keys(e)[i] : i \in 1 .. m}
    BY <1>0, <2>1 DEF Sent, n
  <2>6. \A f \in Executions \ {e} : Sent(f)' = Sent(f)
    BY <1>0, <2>1 DEF Sent
  <2>7. Sent(e) \subseteq Sent(e)'
    BY <2>2, <2>5
  <2>8. ASSUME NEW k \in Keys, NEW c \in Calls, topic'[<<k, c>>] > 0
        PROVE  /\ topic'[<<k, c>>] = 1
               /\ table'[k] = c \/ k \in Sent(<<c, 1>>)'
    <3>0. topic[<<k, c>>] \in Nat
      BY DEF TypeOK
    <3>1. CASE topic'[<<k, c>>] = topic[<<k, c>>]
      <4>1. topic[<<k, c>>] = 1 /\ (table[k] = c \/ k \in Sent(<<c, 1>>))
        BY <2>8, <3>1 DEF OneMessage
      <4>2. Sent(<<c, 1>>) \subseteq Sent(<<c, 1>>)'
        BY <1>0, <2>6, <2>7
      <4> QED
        BY <2>1, <3>1, <4>1, <4>2
    <3>2. CASE topic'[<<k, c>>] # topic[<<k, c>>]
      <4>1. /\ c = e[1] /\ \E i \in n + 1 .. m : keys(e)[i] = k
            /\ topic'[<<k, c>>] = topic[<<k, c>>] + 1
        <5>1. \A i \in n + 1 .. m : \A j \in n + 1 .. m : keys(e)[i] = keys(e)[j] => i = j
          BY <2>2, <2>4
        <5> QED
          BY <2>1, <2>2, <3>2, <5>1, StreamsOnce
      <4>2. PICK i \in n + 1 .. m : keys(e)[i] = k
        BY <4>1
      <4>3. i \in 1 .. m /\ i \in 1 .. exec[e].rows
        BY <2>2
      <4>4. table[k] = NoCall
        BY <4>2, <4>3 DEF Inserted, Exclusive
      <4>5. k \notin Sent(e)
        BY <2>2, <2>4, <2>5, <4>2, <4>3
      <4>6. ~ (topic[<<k, c>>] > 0)
        BY <2>3, <4>1, <4>4, <4>5, ConstantsOK DEF OneMessage
      <4>7. k \in Sent(e)'
        BY <2>5, <4>2, <4>3
      <4> QED
        BY <2>3, <3>0, <4>1, <4>6, <4>7
    <3> QED
      BY <3>1, <3>2
  <2> QED
    BY <2>8 DEF OneMessage
<1> QED
  BY <1>3, <1>4, <1>5, <1>6, <1>7, NoFault DEF Service

(* As long as nothing fails, a transaction goes to the stream once, by the *)
(* call that records it: the unique index holds the others until it ends.  *)
THEOREM StreamedOnceIfNothingFails == Spec => []StreamedOnce
<1>1. Init => OnceInv
  <2> SUFFICES ASSUME Init PROVE OnceInv
    OBVIOUS
  <2>1. Distinct
    BY DEF Init, Idle, Distinct
  <2>2. FirstAttempt
    <3>1. \A c \in Calls : <<c, 1>> \in Executions
      BY ConstantsOK DEF Executions, Attempts
    <3> QED
      BY <3>1 DEF Init, Idle, FirstAttempt
  <2>3. OneMessage
    BY DEF Init, OneMessage
  <2> QED
    BY <2>1, <2>2, <2>3, InitWholeInv DEF OnceInv
<1>2. OnceInv /\ [Next]_vars => OnceInv'
  <2> SUFFICES ASSUME OnceInv, [Next]_vars PROVE OnceInv'
    OBVIOUS
  <2>1. WholeInv' /\ Distinct'
    BY NextWholeInv, NextDistinct DEF OnceInv, WholeInv
  <2>2. ASSUME faults' = 0 PROVE FirstAttempt' /\ OneMessage'
    <3>1. faults = 0
      BY <2>2, NoFault DEF OnceInv, WholeInv
    <3> QED
      BY <2>2, <3>1, NextFirstAttempt, NextOneMessage DEF OnceInv, WholeInv
  <2> QED
    BY <2>1, <2>2 DEF OnceInv
<1>3. OnceInv => StreamedOnce
  <2> SUFFICES ASSUME OnceInv, faults = 0, NEW k \in Keys, NEW c \in Calls, topic[<<k, c>>] > 0
               PROVE  /\ topic[<<k, c>>] = 1
                      /\ \A d \in Calls \ {c} : topic[<<k, d>>] = 0
    BY DEF StreamedOnce
  <2>1. topic[<<k, c>>] = 1 /\ (table[k] = c \/ k \in Sent(<<c, 1>>))
    BY DEF OnceInv, OneMessage
  <2>2. ASSUME NEW d \in Calls, k \in Sent(<<d, 1>>)
        PROVE  k \in Inserted(<<d, 1>>) /\ <<d, 1>> \in Executions /\ table[k] = NoCall
    <3>1. <<d, 1>> \in Executions
      BY ConstantsOK DEF Executions, Attempts
    <3>2. 1 .. exec[<<d, 1>>].sent \subseteq 1 .. exec[<<d, 1>>].rows
      <4>1. exec[<<d, 1>>].sent \in Nat /\ exec[<<d, 1>>].rows \in Nat
            /\ exec[<<d, 1>>].sent <= Len(keys(<<d, 1>>)) /\ Len(keys(<<d, 1>>)) \in Nat
        BY <3>1, SentFacts, RowsFacts DEF OnceInv, WholeInv
      <4>2. exec[<<d, 1>>].sent = 0 \/ exec[<<d, 1>>].rows = Len(keys(<<d, 1>>))
        BY <3>1 DEF OnceInv, WholeInv, TypeInv, TypeOK, Exec, Progress, Open
      <4> QED
        BY <4>1, <4>2
    <3> QED
      BY <2>2, <3>1, <3>2 DEF Sent, Inserted, OnceInv, WholeInv, Exclusive
  <2>3. ASSUME NEW d \in Calls \ {c}, topic[<<k, d>>] # 0 PROVE FALSE
    <3>1. topic[<<k, d>>] > 0
      BY <2>3 DEF OnceInv, WholeInv, TypeInv, TypeOK
    <3>2. table[k] = d \/ k \in Sent(<<d, 1>>)
      BY <3>1 DEF OnceInv, OneMessage
    <3>3. <<c, 1>> # <<d, 1>>
      OBVIOUS
    <3> QED
      BY <2>1, <2>2, <3>2, <3>3, ConstantsOK DEF OnceInv, WholeInv, Exclusive
  <2> QED
    BY <2>1, <2>3
<1> QED
  BY <1>1, <1>2, <1>3, PTL DEF Spec

(***************************************************************************)
(* The ledger.  A call is refused because its ids repeat, or one of them   *)
(* is recorded: rows are never removed, so this stays true until the       *)
(* client hears of it.                                                     *)
(***************************************************************************)
DistinctIds(c) ==
  \A i, j \in DOMAIN args[c].keys : args[c].keys[i] = args[c].keys[j] => i = j

Refused(c) == ~ DistinctIds(c) \/ \E k \in ToSet(args[c].keys) : table[k] # NoCall

ConflictsAreTrue ==
  \A e \in Executions : exec[e].at = "conflict" => Refused(e[1])

LedgerInv == WholeInv /\ Distinct /\ ConflictsAreTrue

(* What the ledger says of a call, in terms of the service.                *)
LEMMA LedgerFacts ==
  ASSUME NEW c \in Calls
  PROVE  /\ Ledger!Ids(c) = ToSet(args[c].keys)
         /\ Ledger!Distinct(c) <=> DistinctIds(c)
  BY DEF Ledger!Ids, Ledger!Distinct, DistinctIds, ToSet

(* No row is removed or changed.                                           *)
LEMMA RowsStay ==
  ASSUME TypeInv, Exclusive, [Next]_vars, NEW k \in Keys, table[k] # NoCall
  PROVE  table'[k] = table[k]
<1>1. CASE \E e \in Executions :
             /\ \A r \in ToSet(keys(e)) : table[r] = NoCall
             /\ \A r \in Keys \ ToSet(keys(e)) : table'[r] = table[r]
  BY <1>1
<1> QED
  BY <1>1, TableEffects

LEMMA RefusedStays ==
  ASSUME TypeInv, Exclusive, [Next]_vars, NEW c \in Calls, Refused(c)
  PROVE  Refused(c)'
<1>1. args' = args
  BY Effects
<1>2. ToSet(args[c].keys) \subseteq Keys
  <2>1. <<c, 1>> \in Executions
    BY ConstantsOK DEF Executions, Attempts
  <2> QED
    BY <2>1, InsertedFacts DEF keys
<1>3. DistinctIds(c)' <=> DistinctIds(c)
  BY <1>1 DEF DistinctIds
<1>4. \A k \in ToSet(args[c].keys) : table[k] # NoCall => table'[k] # NoCall
  BY <1>2, RowsStay
<1> QED
  BY <1>1, <1>3, <1>4 DEF Refused

(* An INSERT of a key that is taken is one of a call that is refused.      *)
LEMMA TakenIsRefused ==
  ASSUME TypeInv, NEW e \in Executions, exec[e].at = "insert", Taken(e)
  PROVE  Refused(e[1])
<1> DEFINE n == exec[e].rows + 1
<1>1. /\ exec[e].rows \in Nat /\ exec[e].rows < Len(keys(e)) /\ Len(keys(e)) \in Nat
      /\ DOMAIN keys(e) = 1 .. Len(keys(e))
  BY KeysFacts DEF TypeInv, TypeOK, Exec, Progress
<1>2. n \in DOMAIN keys(e) /\ NextKey(e) = keys(e)[n]
  BY <1>1 DEF NextKey
<1>3. CASE table[NextKey(e)] # NoCall
  BY <1>2, <1>3 DEF Refused, ToSet, keys
<1>4. CASE NextKey(e) \in Inserted(e)
  <2>1. PICK i \in 1 .. exec[e].rows : keys(e)[i] = NextKey(e)
    BY <1>4 DEF Inserted
  <2>2. i \in DOMAIN keys(e) /\ i # n
    BY <1>1
  <2> HIDE DEF n
  <2>3. ~ DistinctIds(e[1])
    BY <1>2, <2>1, <2>2 DEF DistinctIds, keys
  <2> QED
    BY <2>3 DEF Refused
<1> QED
  BY <1>3, <1>4 DEF Taken

(* A step that refuses an execution is the INSERT of a key that is taken.  *)
LEMMA ConflictEffect ==
  ASSUME TypeInv, [Next]_vars, NEW e \in Executions,
         exec[e].at # "conflict", exec'[e].at = "conflict"
  PROVE  Insert(e) /\ Taken(e)
<1> USE DEF TypeInv, TypeOK
<1>1. ASSUME NEW f \in Executions, NEW phase, phase # "conflict",
             exec' = [exec EXCEPT ![f].at = phase]
      PROVE  FALSE
  BY <1>1 DEF Exec
<1>2. ASSUME NEW f \in Executions, NEW answer, RollsBack(f, answer)
      PROVE  e = f /\ answer = "conflict"
  BY <1>2 DEF RollsBack
<1>3. CASE exec' = exec \/ Crash
  BY <1>3 DEF Crash, Idle
<1>4. ASSUME NEW c \in Calls, Client(c) \/ Breaks(c) PROVE FALSE
  <2>1. CASE Send(c)
    <3>1. <<c, client[c].attempt>> \in Executions
      BY DEF Executions
    <3> QED
      BY <1>1, <2>1, <3>1 DEF Send, Goes
  <2> QED
    BY <1>4, <2>1 DEF Client, Closed, Breaks
<1>5. ASSUME NEW f \in Executions, Insert(f) PROVE e = f /\ Taken(f)
  <2>1. CASE Inserts(f)
    BY <2>1 DEF Inserts, Exec
  <2> QED
    BY <1>2, <1>5, <2>1 DEF Insert
<1>6. ASSUME NEW f \in Executions, WriteBatch(f) PROVE FALSE
  BY <1>6 DEF WriteBatch, Exec
<1>7. ASSUME NEW f \in Executions,
             WriteFails(f) \/ Commit(f) \/ CommitFails(f) \/ BreakDeadlock(f)
      PROVE  FALSE
  BY <1>2, <1>7 DEF WriteFails, Commit, CommitFails, BreakDeadlock
<1>8. ASSUME NEW f \in Executions, Answer(f) PROVE FALSE
  BY <1>1, <1>8 DEF Answer, Goes
<1> QED
  BY <1>3, <1>4, <1>5, <1>6, <1>7, <1>8 DEF Next, Service, vars

LEMMA NextLedgerInv == ASSUME LedgerInv, [Next]_vars PROVE LedgerInv'
<1> USE DEF LedgerInv, WholeInv
<1>1. WholeInv' /\ Distinct'
  BY NextWholeInv, NextDistinct
<1>2. ASSUME NEW e \in Executions, exec'[e].at = "conflict" PROVE Refused(e[1])'
  <2>1. Refused(e[1])
    <3>1. CASE exec[e].at = "conflict"
      BY <3>1 DEF ConflictsAreTrue
    <3>2. CASE exec[e].at # "conflict"
      BY <1>2, <3>2, ConflictEffect, TakenIsRefused DEF Insert
    <3> QED
      BY <3>1, <3>2
  <2> QED
    BY <2>1, RefusedStays, KeysFacts DEF TypeInv
<1> QED
  BY <1>1, <1>2 DEF ConflictsAreTrue

(* A step that changes what clients were told answers one call, with what  *)
(* the service did or because the request broke.                           *)
LEMMA ToldEffects ==
  ASSUME TypeInv, [Next]_vars, client' # client
  PROVE  /\ UNCHANGED <<args, table>>
         /\ \E c \in Calls :
              /\ \A d \in Calls \ {c} : client'[d] = client[d]
              /\ client[c].at \notin Answers
              /\ \/ client'[c].at \notin Answers
                 \/ client'[c].at \in {"error", "unavailable"}
                 \/ \E e \in Executions :
                      e[1] = c /\ Answer(e) /\ client'[c].at = exec[e].at
<1> USE DEF TypeInv
<1>1. ASSUME NEW c \in Calls, Send(c)
      PROVE  /\ \A d \in Calls \ {c} : client'[d] = client[d]
             /\ client[c].at = "call" /\ client'[c].at = "waiting"
  BY <1>1 DEF Send, TypeOK
<1>2. ASSUME NEW c \in Calls, Breaks(c) \/ Closed(c)
      PROVE  /\ \A d \in Calls \ {c} : client'[d] = client[d]
             /\ client[c].at \in {"call", "waiting"}
             /\ client'[c].at \in {"call", "error", "unavailable"}
  BY <1>2, BreakEffect DEF Breaks, Closed
<1>3. ASSUME NEW e \in Executions, Answer(e)
      PROVE  /\ e[1] \in Calls
             /\ \A d \in Calls \ {e[1]} : client'[d] = client[d]
             /\ client[e[1]].at = "waiting" /\ client'[e[1]].at = exec[e].at
  <2>1. client[e[1]] = [at |-> "waiting", attempt |-> e[2]]
    BY <1>3 DEF Answer
  <2>2. client' = [client EXCEPT ![e[1]].at = exec[e].at]
    BY <1>3, <2>1 DEF Answer
  <2>3. e[1] \in Calls
    BY KeysFacts
  <2> QED
    BY <2>1, <2>2, <2>3 DEF TypeOK
<1>4. \/ \E c \in Calls : Send(c) \/ Breaks(c) \/ Closed(c)
      \/ \E e \in Executions : Answer(e)
  BY DEF Next, vars, Client, Service, Insert, WriteBatch, WriteFails, Commit, CommitFails,
         BreakDeadlock, Crash
<1>5. CASE \E c \in Calls : Send(c) \/ Breaks(c) \/ Closed(c)
  <2>1. PICK c \in Calls : Send(c) \/ Breaks(c) \/ Closed(c)
    BY <1>5
  <2>2. UNCHANGED <<args, table>>
    BY <2>1 DEF Send, Breaks, Closed
  <2> QED
    BY <1>1, <1>2, <2>1, <2>2 DEF Answers
<1>6. CASE \E e \in Executions : Answer(e)
  <2>1. PICK e \in Executions : Answer(e)
    BY <1>6
  <2>2. UNCHANGED <<args, table>>
    BY <2>1 DEF Answer
  <2> QED
    BY <1>3, <2>1, <2>2 DEF Answers
<1> QED
  BY <1>4, <1>5, <1>6

LEMMA InitLedger == Init => Ledger!Init
<1> SUFFICES ASSUME Init PROVE Ledger!Init
  OBVIOUS
<1>1. [c \in Calls |-> args[c].keys] \in [Calls -> Seq(Keys)]
  BY ConstantsOK DEF Init
<1>2. [c \in Calls |-> IF client[c].at \in Answers THEN client[c].at ELSE "pending"]
        = [c \in Calls |-> "pending"]
  BY DEF Init, Answers
<1>3. table = [k \in Keys |-> NoCall]
  BY DEF Init
<1> QED
  BY <1>1, <1>2, <1>3 DEF Ledger!Init

(* The refinement mapping of ImplementsLedger.                             *)
Asked == [c \in Calls |-> args[c].keys]
Told(c) == IF client[c].at \in Answers THEN client[c].at ELSE "pending"
ToldAll == [c \in Calls |-> Told(c)]

(* Rows are recorded for one call at a time, in whole.                     *)
LEMMA RecordStep ==
  ASSUME LedgerInv, [Next]_vars, table' # table
  PROVE  \E c \in Calls : Ledger!Record(c)
<1> USE DEF LedgerInv, WholeInv
<1>1. PICK e \in Executions :
        /\ exec[e].at = "commit" /\ UNCHANGED client
        /\ \A k \in ToSet(keys(e)) : table[k] = NoCall /\ table'[k] = e[1]
        /\ \A k \in Keys \ ToSet(keys(e)) : table'[k] = table[k]
  BY TableEffects
<1>2. e[1] \in Calls /\ Ledger!Ids(e[1]) = ToSet(keys(e)) /\ ToSet(keys(e)) \subseteq Keys
  BY KeysFacts, LedgerFacts, InsertedFacts DEF TypeInv, keys
<1>3. Ledger!Distinct(e[1])
  <2>1. /\ exec[e].rows = Len(keys(e)) /\ Len(keys(e)) \in Nat
        /\ DOMAIN keys(e) = 1 .. Len(keys(e))
    BY <1>1, KeysFacts DEF TypeInv, Progress
  <2>2. ASSUME NEW i \in DOMAIN keys(e), NEW j \in DOMAIN keys(e), keys(e)[i] = keys(e)[j]
        PROVE  i = j
    <3>1. i \in 1 .. exec[e].rows /\ j \in 1 .. exec[e].rows
      BY <2>1
    <3>2. ~ (i < j) /\ ~ (j < i)
      BY <2>1, <2>2, <3>1 DEF Distinct
    <3> QED
      BY <2>1, <3>1, <3>2
  <2>3. DistinctIds(e[1])
    BY <2>2 DEF DistinctIds, keys
  <2> QED
    BY <1>2, <2>3, LedgerFacts
<1>4. table' = [k \in Keys |-> IF k \in Ledger!Ids(e[1]) THEN e[1] ELSE table[k]]
  <2>1. table' \in [Keys -> Calls \cup {NoCall}]
    BY NextTypeInv DEF TypeInv, TypeOK
  <2> QED
    BY <1>1, <1>2, <2>1
<1>5. UNCHANGED <<args, client>>
  BY <1>1, Effects
<1> QED
  BY <1>1, <1>2, <1>3, <1>4, <1>5 DEF Ledger!Record

(* A client goes on by itself, or is told the truth.                       *)
LEMMA TellStep ==
  ASSUME LedgerInv, [Next]_vars, client' # client
  PROVE  \/ UNCHANGED <<Asked, table, ToldAll>>
         \/ \E c \in Calls : \E answer \in Answers : Ledger!Tell(c, answer)
<1> USE DEF LedgerInv, WholeInv
<1>1. UNCHANGED <<args, table>>
  BY ToldEffects
<1>2. PICK c \in Calls :
        /\ \A d \in Calls \ {c} : client'[d] = client[d]
        /\ client[c].at \notin Answers
        /\ \/ client'[c].at \notin Answers
           \/ client'[c].at \in {"error", "unavailable"}
           \/ \E e \in Executions : e[1] = c /\ Answer(e) /\ client'[c].at = exec[e].at
  BY ToldEffects
<1>3. CASE client'[c].at \notin Answers
  <2>1. \A d \in Calls : Told(d)' = Told(d)
    BY <1>2, <1>3 DEF Told
  <2> QED
    BY <1>1, <2>1 DEF Asked, ToldAll
<1>4. CASE client'[c].at \in Answers
  <2>0. PICK a \in Answers : client'[c].at = a
    BY <1>4
  <2>1. /\ Told(c) = "pending" /\ Told(c)' = a
        /\ \A d \in Calls \ {c} : Told(d)' = Told(d)
    BY <1>2, <2>0 DEF Told
  <2>2. ToldAll[c] = "pending" /\ ToldAll' = [ToldAll EXCEPT ![c] = a]
    BY <2>1 DEF ToldAll
  <2>3. ASSUME a = "ok" PROVE \A k \in Ledger!Ids(c) : table[k] = c
    <3>1. PICK e \in Executions : e[1] = c /\ exec[e].at = "ok"
      BY <1>2, <2>0, <2>3
    <3> QED
      BY <3>1, LedgerFacts DEF Kept, keys
  <2>4. ASSUME a = "conflict"
        PROVE  ~ Ledger!Distinct(c) \/ \E k \in Ledger!Ids(c) : table[k] # NoCall
    <3>1. PICK e \in Executions : e[1] = c /\ exec[e].at = "conflict"
      BY <1>2, <2>0, <2>4
    <3> QED
      BY <3>1, LedgerFacts DEF ConflictsAreTrue, Refused
  <2>5. Ledger!Tell(c, a)
    BY <1>1, <2>2, <2>3, <2>4 DEF Ledger!Tell, ToldAll, Told
  <2> QED
    BY <2>5
<1> QED
  BY <1>3, <1>4

(***************************************************************************)
(* Callers may rely on the ledger, through retries, conflicts, deadlocks,  *)
(* failed writes, lost confirmations and crashes: a call is recorded in    *)
(* whole, in one step and once, and its answer tells the truth.            *)
(***************************************************************************)
THEOREM ServiceImplementsLedger == Spec => ImplementsLedger
<1>1. Init => LedgerInv
  <2> SUFFICES ASSUME Init PROVE LedgerInv
    OBVIOUS
  <2>1. Distinct /\ ConflictsAreTrue
    BY DEF Init, Idle, Distinct, ConflictsAreTrue
  <2> QED
    BY <2>1, InitWholeInv DEF LedgerInv
<1>2. LedgerInv /\ [Next]_vars => LedgerInv'
  BY NextLedgerInv
<1>3. LedgerInv /\ [Next]_vars => [Ledger!Next]_<<Asked, table, ToldAll>>
  <2> SUFFICES ASSUME LedgerInv, [Next]_vars PROVE [Ledger!Next]_<<Asked, table, ToldAll>>
    OBVIOUS
  <2>1. Asked' = Asked
    BY Effects DEF Asked, LedgerInv, WholeInv
  <2>2. CASE table' # table
    BY <2>2, RecordStep DEF Ledger!Next
  <2>3. CASE client' # client
    <3>1. Answers \subseteq Ledger!Told \ {"pending"}
      BY DEF Answers, Ledger!Told
    <3> QED
      BY <2>3, <3>1, TellStep DEF Ledger!Next
  <2>4. CASE table' = table /\ client' = client
    BY <2>1, <2>4 DEF ToldAll, Told
  <2> QED
    BY <2>2, <2>3, <2>4
<1> QED
  BY <1>1, <1>2, <1>3, InitLedger, PTL DEF Spec, ImplementsLedger, Ledger!Spec, Asked, ToldAll, Told

=============================================================================
