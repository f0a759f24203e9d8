-------------------------- MODULE TransactionService --------------------------
(***************************************************************************)
(* The writes of the transaction service and the RPC client that calls     *)
(* them.  createTransaction and createTransactions insert the rows inside  *)
(* a database transaction, write them to Kafka before the commit, and      *)
(* commit; addTransactionOperation and setTransactionStatus insert one row *)
(* and stream nothing.  The client sends a call again, with the same       *)
(* arguments, when the service is unavailable: it may still be working on  *)
(* the call, or have finished it.                                          *)
(***************************************************************************)
EXTENDS Naturals, Sequences, FiniteSets, SequencesExt

CONSTANTS
  Calls,      \* calls of the RPC client, each with arguments of its own
  Keys,       \* primary keys of the rows
  NoCall,     \* not a call: the key has no row
  Retries,    \* retries of an unavailable service
  Batch,      \* KAFKA_PRODUCER_BATCH_SIZE
  Payloads,   \* what a call may be given
  MaxFaults   \* bound on lost connections, failures and crashes

ASSUME ConstantsOK ==
  /\ NoCall \notin Calls
  /\ Retries \in Nat /\ MaxFaults \in Nat
  /\ Batch \in Nat \ {0}
  /\ \A p \in Payloads :
       /\ p.streamed \in BOOLEAN
       /\ p.keys \in Seq(Keys) \ {<<>>}
       /\ ~ p.streamed => Len(p.keys) = 1

VARIABLES
  args,     \* of a call: whether its rows are streamed, and their keys
  client,   \* of a call: the attempt that is under way, or the answer
  exec,     \* of a call and an attempt: what the service does with it
  table,    \* of a key: the call whose row is committed
  topic,    \* of a key and a call: how many messages are in Kafka
  faults

vars == <<args, client, exec, table, topic, faults>>

Attempts == 1 .. Retries + 1
Executions == Calls \X Attempts

(* An execution has inserted `rows` of its rows and streamed `sent`.       *)
Phases == {"unsent", "insert", "stream", "commit", "ok", "conflict", "error", "gone"}
Exec == [at : Phases, rows : Nat, sent : Nat]
Idle == [at |-> "unsent", rows |-> 0, sent |-> 0]

Answers == {"ok", "conflict", "error", "unavailable"}

keys(e) == args[e[1]].keys
Inserted(e) == {keys(e)[i] : i \in 1 .. exec[e].rows}

(* The database transaction of the execution is open.                      *)
Open(e) == exec[e].at \in {"insert", "stream", "commit"}

(* The key of the next row, and the open transactions that inserted it: a  *)
(* unique index makes the INSERT wait until they end.                      *)
NextKey(e) == keys(e)[exec[e].rows + 1]

(* Mutant: no unique index, so a key is free until its row is committed.   *)
AwaitsNothing(e, f) == FALSE

Awaits(e, f) ==
  /\ exec[e].at = "insert" /\ Open(f) /\ e # f
  /\ NextKey(e) \in Inserted(f)

Goes(e, phase) == exec' = [exec EXCEPT ![e].at = phase]

(* A transaction that ends without a commit leaves no row.                 *)
RollsBack(e, answer) ==
  exec' = [exec EXCEPT ![e] = [at |-> answer, rows |-> 0, sent |-> 0]]

MinOf(a, b) == IF a < b THEN a ELSE b
BatchEnd(e) == MinOf(exec[e].sent + Batch, Len(keys(e)))

(* The topic with the messages after the first n of the execution, up to   *)
(* the mth.                                                                *)
Streams(e, n, m) ==
  [r \in Keys \X Calls |->
     IF r[2] = e[1]
     THEN topic[r] + Cardinality({i \in n + 1 .. m : keys(e)[i] = r[1]})
     ELSE topic[r]]

(***************************************************************************)
(* The client: RpcRequestManager.                                          *)
(***************************************************************************)
Send(c) ==
  LET e == <<c, client[c].attempt>> IN
  /\ client[c].at = "call"
  /\ client' = [client EXCEPT ![c].at = "waiting"]
  /\ Goes(e, "insert")
  /\ UNCHANGED <<args, table, topic, faults>>

(* Mutant: a retry too many.                                               *)
RetryOnceMore(c) ==
  client' = [client EXCEPT ![c] =
               IF @.attempt <= Retries + 1
               THEN [at |-> "call", attempt |-> @.attempt + 1]
               ELSE [at |-> "unavailable", attempt |-> @.attempt]]

Retry(c) ==
  client' = [client EXCEPT ![c] =
               IF @.attempt <= Retries
               THEN [at |-> "call", attempt |-> @.attempt + 1]
               ELSE [at |-> "unavailable", attempt |-> @.attempt]]

GivesUp(c) == client' = [client EXCEPT ![c].at = "error"]

(* The client sees an unavailable service, and calls again: it did not get *)
(* the request, or the connection broke while the service was at work or   *)
(* had answered.  Any other error of the RPC ends the call.                *)
Breaks(c) ==
  /\ faults < MaxFaults
  /\ client[c].at \in {"call", "waiting"}
  /\ Retry(c) \/ GivesUp(c)
  /\ faults' = faults + 1
  /\ UNCHANGED <<args, exec, table, topic>>

(* Mutant: an exception is logged, and not returned.                       *)
AnswerResult(e) ==
  LET c == e[1] IN
  /\ exec[e].at \in {"ok", "conflict"}
  /\ Goes(e, "gone")
  /\ client' = IF client[c] = [at |-> "waiting", attempt |-> e[2]]
               THEN [client EXCEPT ![c].at = exec[e].at]
               ELSE client
  /\ UNCHANGED <<args, table, topic, faults>>

(* Only the attempt the client waits for is answered.                      *)
Answer(e) ==
  LET c == e[1] IN
  /\ exec[e].at \in {"ok", "conflict", "error"}
  /\ Goes(e, "gone")
  /\ client' = IF client[c] = [at |-> "waiting", attempt |-> e[2]]
               THEN [client EXCEPT ![c].at = exec[e].at]
               ELSE client
  /\ UNCHANGED <<args, table, topic, faults>>

(***************************************************************************)
(* The service.  An INSERT of a key that has a row is a conflict, and so   *)
(* is one of a key the call has given before.                              *)
(***************************************************************************)
Taken(e) == table[NextKey(e)] # NoCall \/ NextKey(e) \in Inserted(e)

(* Mutant: Kafka is not awaited.                                           *)
InsertsOnly(e) ==
  exec' = [exec EXCEPT ![e].rows = @ + 1,
                       ![e].at = IF exec[e].rows + 1 < Len(keys(e)) THEN "insert"
                                 ELSE "commit"]

(* beforeCommit follows the last INSERT, where the call has one.           *)
Inserts(e) ==
  exec' = [exec EXCEPT ![e].rows = @ + 1,
                       ![e].at = IF exec[e].rows + 1 < Len(keys(e)) THEN "insert"
                                 ELSE IF args[e[1]].streamed THEN "stream"
                                 ELSE "commit"]

Insert(e) ==
  /\ exec[e].at = "insert"
  /\ ~ \E f \in Executions : Awaits(e, f)
  /\ IF Taken(e) THEN RollsBack(e, "conflict") ELSE Inserts(e)
  /\ UNCHANGED <<args, client, table, topic, faults>>

(* PostgreSQL ends one of the transactions that await each other.          *)
Deadlock(E) ==
  \A e \in E : /\ \E f \in E : Awaits(e, f)
               /\ \E f \in E : Awaits(f, e)

BreakDeadlock(e) ==
  /\ \E f \in Executions : Awaits(e, f)
  /\ \E E \in SUBSET Executions : e \in E /\ Deadlock(E)
  /\ RollsBack(e, "error")
  /\ UNCHANGED <<args, client, table, topic, faults>>

(* KafkaStreamProducer.write sends one batch after the other.              *)
WriteBatch(e) ==
  /\ exec[e].at = "stream"
  /\ topic' = Streams(e, exec[e].sent, BatchEnd(e))
  /\ exec' = [exec EXCEPT ![e].sent = BatchEnd(e),
                          ![e].at = IF BatchEnd(e) = Len(keys(e)) THEN "commit" ELSE @]
  /\ UNCHANGED <<args, client, table, faults>>

(* A send that fails may have left its batch in Kafka; the rows roll back. *)
WriteFails(e) ==
  /\ faults < MaxFaults
  /\ exec[e].at = "stream"
  /\ topic' \in {topic, Streams(e, exec[e].sent, BatchEnd(e))}
  /\ RollsBack(e, "error")
  /\ faults' = faults + 1
  /\ UNCHANGED <<args, client, table>>

Recorded(e) ==
  [k \in Keys |-> IF k \in Inserted(e) THEN e[1] ELSE table[k]]

(* Mutant: the first row is committed on its own.                          *)
CommitFirst(e) ==
  /\ exec[e].at = "commit"
  /\ table' = [table EXCEPT ![keys(e)[1]] = e[1]]
  /\ RollsBack(e, "ok")
  /\ UNCHANGED <<args, client, topic, faults>>

Commit(e) ==
  /\ exec[e].at = "commit"
  /\ table' = Recorded(e)
  /\ RollsBack(e, "ok")
  /\ UNCHANGED <<args, client, topic, faults>>

(* A commit whose confirmation is lost may have taken effect.              *)
CommitFails(e) ==
  /\ faults < MaxFaults
  /\ exec[e].at = "commit"
  /\ table' \in {table, Recorded(e)}
  /\ RollsBack(e, "error")
  /\ faults' = faults + 1
  /\ UNCHANGED <<args, client, topic>>

(* The service dies: its transactions roll back and clients that wait see  *)
(* their connections close.                                                *)
Crash ==
  /\ faults < MaxFaults
  /\ \E e \in Executions : exec[e].at \notin {"unsent", "gone"}
  /\ exec' = [e \in Executions |->
                IF exec[e].at = "unsent" THEN Idle ELSE [Idle EXCEPT !.at = "gone"]]
  /\ faults' = faults + 1
  /\ UNCHANGED <<args, client, table, topic>>

(* The connection of an execution that is gone has closed.                 *)
Closed(c) ==
  /\ client[c].at = "waiting"
  /\ exec[<<c, client[c].attempt>>].at = "gone"
  /\ Retry(c)
  /\ UNCHANGED <<args, exec, table, topic, faults>>

-----------------------------------------------------------------------------

Init ==
  /\ args \in [Calls -> Payloads]
  /\ client = [c \in Calls |-> [at |-> "call", attempt |-> 1]]
  /\ exec = [e \in Executions |-> Idle]
  /\ table = [k \in Keys |-> NoCall]
  /\ topic = [r \in Keys \X Calls |-> 0]
  /\ faults = 0

Client(c) == Send(c) \/ Closed(c)

Service(e) ==
  \/ Insert(e) \/ WriteBatch(e) \/ Commit(e)
  \/ BreakDeadlock(e) \/ Answer(e)

Next ==
  \/ \E c \in Calls : Client(c) \/ Breaks(c)
  \/ \E e \in Executions : Service(e) \/ WriteFails(e) \/ CommitFails(e)
  \/ Crash

Spec == Init /\ [][Next]_vars

(* The client waits its backoff and sends; the service, the database and   *)
(* Kafka go on with what they have begun.                                  *)
Fairness ==
  /\ \A c \in Calls : WF_vars(Client(c))
  /\ \A e \in Executions : WF_vars(Service(e))

FairSpec == Spec /\ Fairness

-----------------------------------------------------------------------------

TypeOK ==
  /\ args \in [Calls -> Payloads]
  /\ client \in [Calls -> [at : {"call", "waiting"} \cup Answers, attempt : Attempts]]
  /\ exec \in [Executions -> Exec]
  /\ table \in [Keys -> Calls \cup {NoCall}]
  /\ topic \in [Keys \X Calls -> Nat]
  /\ faults \in 0 .. MaxFaults

(* Whatever fails, a transaction that is recorded has been streamed:       *)
(* beforeCommit, mds-transaction-service/service/provider.ts.              *)
RecordedIsStreamed ==
  \A k \in Keys :
    table[k] # NoCall /\ args[table[k]].streamed =>
      topic[<<k, table[k]>>] > 0

(* A bulk write records all of its transactions or none, through           *)
(* conflicts, deadlocks, failed writes, crashes and retries.               *)
AllOrNothing ==
  \A c \in Calls :
    LET mine == {k \in Keys : table[k] = c}
    IN mine \in {{}, ToSet(args[c].keys)}

(* As long as nothing fails a transaction is streamed at most once, by the *)
(* call that records it, even when several calls give the same id at once: *)
(* tests/transactions.spec.ts:128-139.                                     *)
StreamedOnce ==
  faults = 0 =>
    \A k \in Keys : \A c \in Calls :
      topic[<<k, c>>] > 0 =>
        /\ topic[<<k, c>>] = 1
        /\ \A d \in Calls \ {c} : topic[<<k, d>>] = 0

(* A call that was answered with its result has recorded every row.        *)
OkIsRecorded ==
  \A c \in Calls :
    client[c].at = "ok" => \A k \in ToSet(args[c].keys) : table[k] = c

(* The service implements the ledger its callers rely on, whatever fails:  *)
(* a call is recorded in whole and once, a result and a conflict tell the  *)
(* truth, though a conflict may be with the call's own first attempt.      *)
Ledger ==
  INSTANCE TransactionLedger
    WITH asked <- [c \in Calls |-> args[c].keys],
         ledger <- table,
         told <- [c \in Calls |-> IF client[c].at \in Answers THEN client[c].at ELSE "pending"]

ImplementsLedger == Ledger!Spec

(* A call is answered in the end, whether or not its rows wait for those   *)
(* of others.                                                              *)
EveryCallAnswered == \A c \in Calls : <>(client[c].at \in Answers)

(* What does not hold.  A call that is refused as a conflict has recorded  *)
(* nothing: the retry of a call whose answer was lost meets its own rows.  *)
ConflictIsAnothers ==
  \A c \in Calls : client[c].at = "conflict" => \A k \in Keys : table[k] # c

(* A transaction on the stream is recorded once the calls are over.        *)
StreamedIsRecorded ==
  (\A e \in Executions : ~ Open(e)) =>
    \A r \in DOMAIN topic : topic[r] > 0 => table[r[1]] = r[2]

=============================================================================
