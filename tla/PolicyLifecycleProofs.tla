----------------------- MODULE PolicyLifecycleProofs -----------------------
(***************************************************************************)
(* Proofs about the policy service, for every set of policies, rules,      *)
(* geographies, bodies and requests: type correctness, and from one        *)
(* inductive invariant that published policies are frozen, that the stream *)
(* has them, and that publications are acknowledged and recorded truly.    *)
(***************************************************************************)
EXTENDS PolicyLifecycle, TLAPS

LEMMA AnyBodyIsBody == AnyBody \in Bodies /\ AnyBody \in Body
  BY ConstantsOK DEF AnyBody

LEMMA AnyPolicyIsPolicy == AnyPolicy \in Policies
  BY ConstantsOK DEF AnyPolicy

(* What the type of a request's variables says of one request. *)
LEMMA RequestTypes ==
  ASSUME TypeOK, NEW r \in Requests
  PROVE  /\ call[r].id \in Policies /\ call[r].body \in Body
         /\ call[r].op \in AllOps \cup {"none"}
         /\ stamp[r] \in Nat /\ seen[r] \in Body /\ seen[r].start \in Nat
         /\ call[r].body.rules \in SUBSET Rules
         /\ prevs[r] \in SUBSET Promises
  BY DEF TypeOK, Calls, Body

LEMMA InitTypeOK == Init => TypeOK
<1> SUFFICES ASSUME Init PROVE TypeOK
  OBVIOUS
<1>1. body \in [Policies -> Body]
  BY AnyBodyIsBody, ConstantsOK DEF Init
<1>2. Catalog!TypeOK
  BY DEF Init, Catalog!Init, Catalog!TypeOK, Catalog!Statuses
<1>3. call \in [Requests -> Calls]
  BY AnyBodyIsBody, AnyPolicyIsPolicy DEF Init, Calls
<1>4. superseded \in [Policies -> Seq(Entries)]
  BY DEF Init
<1>5. seen \in [Requests -> Body]
  BY AnyBodyIsBody DEF Init
<1> QED
  BY <1>1, <1>2, <1>3, <1>4, <1>5, ConstantsOK DEF Init, TypeOK, Steps

LEMMA TranslatedIsBody ==
  ASSUME TypeOK, NEW b \in Body PROVE Translated(b) \in Body
<1> DEFINE start == IF b.start < clock + Lead THEN clock + Lead ELSE b.start
<1>1. start \in Nat
  BY ConstantsOK DEF Body, TypeOK
<1>2. Translated(b) = [b EXCEPT !.prev = << >>, !.start = start]
  BY DEF Translated, Body
<1>3. << >> \in Seq(Policies)
  OBVIOUS
<1> HIDE DEF start
<1> QED
  BY <1>1, <1>2, <1>3 DEF Body

(* One lemma per action, or per group of small ones: each keeps the types. *)
LEMMA StartTypeOK ==
  ASSUME TypeOK, NEW r \in Requests, Start(r) PROVE TypeOK'
<1>1. PICK op \in Ops, p \in Policies, b \in Bodies :
        LET c == [op |-> op, id |-> p, body |-> IF op = "intent" THEN Translated(b) ELSE b] IN
        /\ call' = [call EXCEPT ![r] = c]
        /\ todo' = [todo EXCEPT ![r] = IF op \in {"write", "intent"} THEN c.body.rules ELSE {}]
        /\ Goto(r, FirstStep(op))
  BY DEF Start
<1>2. op \in AllOps /\ b \in Body
  BY ConstantsOK
<1>3. Translated(b) \in Body
  BY <1>2, TranslatedIsBody
<1> DEFINE newBody == IF op = "intent" THEN Translated(b) ELSE b
           c == [op |-> op, id |-> p, body |-> newBody]
<1>4. newBody \in Body /\ newBody.rules \in SUBSET Rules
  BY <1>2, <1>3 DEF Body
<1> HIDE DEF newBody
<1>5. c \in Calls
  BY <1>2, <1>4 DEF Calls
<1>6. call' \in [Requests -> Calls]
  BY <1>1, <1>5 DEF TypeOK, newBody
<1>7. todo' \in [Requests -> SUBSET Rules]
  <2>1. todo' = [todo EXCEPT ![r] = IF op \in {"write", "intent"} THEN newBody.rules ELSE {}]
    BY <1>1 DEF newBody
  <2> QED
    BY <1>4, <2>1 DEF TypeOK
<1>8. FirstStep(op) \in Steps
  BY <1>2 DEF FirstStep, AllOps, Steps
<1>9. pc' \in [Requests -> Steps]
  BY <1>1, <1>8 DEF Goto, TypeOK
<1>10. stamp' \in [Requests -> Nat]
  BY DEF Start, TypeOK
<1> QED
  BY <1>6, <1>7, <1>9, <1>10 DEF Start, TypeOK, table, world, Catalog!TypeOK

LEMMA InsertTypeOK ==
  ASSUME TypeOK, NEW r \in Requests, Insert(r) PROVE TypeOK'
<1>1. call[r].id \in Policies /\ call[r].body \in Body
  BY RequestTypes
<1>2. UNCHANGED <<metadata, lock, topic, status, clock, call, stamp, seen, todo, prevs>>
  BY DEF Insert, world, locals
<1>3. pc' \in [Requests -> Steps]
  BY DEF Insert, Goto, TypeOK, Steps
<1>4. /\ policies' \in SUBSET Policies
      /\ policies \subseteq policies'
      /\ body' \in [Policies -> Body]
      /\ published' \in [Policies -> Nat \cup {None}]
      /\ superseded' \in [Policies -> Seq(Entries)]
  <2>1. \/ /\ policies' = policies \cup {call[r].id}
           /\ body' = [body EXCEPT ![call[r].id] = call[r].body]
           /\ published' = [published EXCEPT ![call[r].id] = None]
           /\ superseded' = [superseded EXCEPT ![call[r].id] = << >>]
        \/ UNCHANGED <<policies, body, published, superseded>>
    BY Zenon DEF Insert
  <2>2. superseded' \in [Policies -> Seq(Entries)]
    <3>1. superseded' = superseded \/ superseded' = [superseded EXCEPT ![call[r].id] = << >>]
      BY <2>1
    <3>2. << >> \in Seq(Entries)
      OBVIOUS
    <3> QED
      BY <1>1, <3>1, <3>2 DEF TypeOK
  <2>3. published' \in [Policies -> Nat \cup {None}]
    BY <1>1, <2>1 DEF TypeOK
  <2>4. body' \in [Policies -> Body] /\ policies' \in SUBSET Policies /\ policies \subseteq policies'
    BY <1>1, <2>1 DEF TypeOK
  <2> QED
    BY <2>2, <2>3, <2>4
<1>5. metadata' \in SUBSET policies'
  BY <1>2, <1>4 DEF TypeOK
<1> QED
  BY <1>2, <1>3, <1>4, <1>5 DEF TypeOK, Catalog!TypeOK

LEMMA CheckTypeOK ==
  ASSUME TypeOK, NEW r \in Requests,
         \/ LookUpRule(r) \/ IsPolicyPublished(r) \/ ReadDraft(r)
         \/ ReadMetadata(r) \/ UpdateMetadata(r) \/ CheckGeographies(r)
  PROVE  TypeOK'
<1>1. UNCHANGED <<policies, body, published, superseded, metadata, lock, topic, status, clock,
                  call, stamp, seen, prevs>>
  BY DEF LookUpRule, IsPolicyPublished, ReadDraft, ReadMetadata, UpdateMetadata,
         CheckGeographies, table, world, locals
<1>2. pc' \in [Requests -> Steps]
  BY DEF LookUpRule, IsPolicyPublished, ReadDraft, ReadMetadata, UpdateMetadata,
         CheckGeographies, Goto, GotoIf, TypeOK, Steps
<1>3. todo' \in [Requests -> SUBSET Rules]
  BY RequestTypes DEF LookUpRule, IsPolicyPublished, ReadDraft, ReadMetadata, UpdateMetadata,
         CheckGeographies, locals, TypeOK
<1> QED
  BY <1>1, <1>2, <1>3 DEF TypeOK, Catalog!TypeOK

LEMMA WriteTypeOK ==
  ASSUME TypeOK, NEW r \in Requests,
         InsertMetadata(r) \/ Edit(r) \/ Delete(r)
  PROVE  TypeOK'
<1>1. call[r].id \in Policies /\ call[r].body \in Body
  BY RequestTypes
<1>2. UNCHANGED <<published, superseded, lock, topic, status, clock, call, seen, todo, prevs>>
  BY DEF InsertMetadata, Edit, Delete, world, locals
<1>3. pc' \in [Requests -> Steps]
  BY DEF InsertMetadata, Edit, Delete, Goto, GotoIf, TypeOK, Steps
<1>4. policies' \in SUBSET Policies /\ metadata' \in SUBSET policies'
  BY <1>1 DEF InsertMetadata, Edit, Delete, TypeOK
<1>5. body' \in [Policies -> Body]
  BY <1>1 DEF InsertMetadata, Edit, Delete, TypeOK
<1>6. stamp' \in [Requests -> Nat]
  BY DEF InsertMetadata, Edit, Delete, locals, TypeOK
<1> QED
  BY <1>2, <1>3, <1>4, <1>5, <1>6 DEF TypeOK, Catalog!TypeOK

LEMMA PublishTypeOK ==
  ASSUME TypeOK, NEW r \in Requests,
         ReadPolicy(r) \/ BeginPublish(r) \/ WriteStream(r) \/ Commit(r)
  PROVE  TypeOK'
<1>1. call[r].id \in Policies /\ body[call[r].id] \in Body
      /\ Awaited(body[call[r].id].prev) \in SUBSET Promises
  <2>1. call[r].id \in Policies /\ body[call[r].id] \in Body
    BY RequestTypes DEF TypeOK
  <2>2. body[call[r].id].prev \in Seq(Policies)
    BY <2>1 DEF Body
  <2>3. ASSUME NEW s \in Seq(Policies) PROVE Awaited(s) \in SUBSET Promises
    BY <2>3 DEF Awaited, Promises
  <2> QED
    BY <2>1, <2>2, <2>3
<1>2. UNCHANGED <<policies, body, superseded, metadata, status, clock, call, stamp, todo>>
  BY DEF ReadPolicy, BeginPublish, WriteStream, Commit, table, world, locals
<1>3. pc' \in [Requests -> Steps]
  BY DEF ReadPolicy, BeginPublish, WriteStream, Commit, Goto, GotoIf, TypeOK, Steps
<1>4. published' \in [Policies -> Nat \cup {None}] /\ lock' \in [Policies -> Requests \cup {None}]
  <2>1. \/ published' = published
        \/ published' = [published EXCEPT ![call[r].id] = stamp[r]]
    BY DEF ReadPolicy, BeginPublish, WriteStream, Commit, table
  <2>2. \/ lock' = lock
        \/ lock' = [lock EXCEPT ![call[r].id] = r]
        \/ lock' = [lock EXCEPT ![call[r].id] = None]
    BY Zenon DEF ReadPolicy, BeginPublish, WriteStream, Commit, table
  <2>3. call[r].id \in Policies /\ stamp[r] \in Nat
    BY RequestTypes
  <2>4. published' \in [Policies -> Nat \cup {None}]
    BY <2>1, <2>3 DEF TypeOK
  <2>5. lock' \in [Policies -> Requests \cup {None}]
    BY <2>2, <2>3 DEF TypeOK
  <2> QED
    BY <2>4, <2>5
<1>5. topic' \in SUBSET Messages
  <2>1. Message(r) \in Messages
    BY RequestTypes DEF Message, Messages
  <2> QED
    BY <2>1 DEF ReadPolicy, BeginPublish, WriteStream, Commit, world, TypeOK
<1>6. seen' \in [Requests -> Body] /\ prevs' \in [Requests -> SUBSET Promises]
  BY <1>1 DEF ReadPolicy, BeginPublish, WriteStream, Commit, locals, TypeOK
<1> QED
  BY <1>2, <1>3, <1>4, <1>5, <1>6 DEF TypeOK, Catalog!TypeOK

LEMMA SettleTypeOK ==
  ASSUME TypeOK, NEW r \in Requests, NEW t \in prevs[r], NEW failed \in BOOLEAN,
         Settle(r, t, failed)
  PROVE  pc' \in [Requests -> Steps] /\ prevs' \in [Requests -> SUBSET Promises]
  BY DEF Settle, Goto, TypeOK, Steps

(* What a call of updatePolicySupersededBy does to the request's promises. *)
LEMMA ReadPromise ==
  ASSUME TypeOK, NEW t \in Promises, t.id \in policies
  PROVE  /\ superseded[t.id] \in Seq(Entries)
         /\ [t EXCEPT !.copy = superseded[t.id]] \in Promises
         /\ [t EXCEPT !.copy = superseded[t.id]].copy = superseded[t.id]
  BY DEF TypeOK, Promises

LEMMA SupersedeTypeOK ==
  ASSUME TypeOK, NEW r \in Requests, NEW t \in prevs[r],
         ReadSuperseded(r, t) \/ WriteSuperseded(r, t)
  PROVE  TypeOK'
<1>1. UNCHANGED <<policies, body, published, metadata, lock, topic, status, clock, call,
                  stamp, seen, todo>>
  BY DEF ReadSuperseded, WriteSuperseded, table, world
<1>2. t \in Promises
  BY RequestTypes
<1>3. CASE ReadSuperseded(r, t)
  <2>1. superseded' = superseded
    BY <1>3 DEF ReadSuperseded, table
  <2>2. pc' \in [Requests -> Steps] /\ prevs' \in [Requests -> SUBSET Promises]
    <3>1. CASE Settle(r, t, TRUE)
      BY <3>1, SettleTypeOK
    <3>2. CASE /\ t.id \in policies
               /\ prevs' = [prevs EXCEPT ![r] = (@ \ {t}) \cup {[t EXCEPT !.copy = superseded[t.id]]}]
               /\ UNCHANGED pc
      <4>1. [t EXCEPT !.copy = superseded[t.id]] \in Promises
        BY <1>2, <3>2, ReadPromise
      <4> QED
        BY <3>2, <4>1 DEF TypeOK
    <3> QED
      BY <1>3, <3>1, <3>2 DEF ReadSuperseded
  <2> QED
    BY <1>1, <2>1, <2>2 DEF TypeOK, Catalog!TypeOK
<1>4. CASE WriteSuperseded(r, t)
  <2>1. t.copy \in Seq(Entries) /\ t.id \in Policies
    BY <1>2, <1>4 DEF WriteSuperseded, Promises
  <2>2. [by |-> call[r].id, at |-> seen[r].start] \in Entries
    BY RequestTypes DEF Entries
  <2>3. Append(t.copy, [by |-> call[r].id, at |-> seen[r].start]) \in Seq(Entries)
    BY <2>1, <2>2
  <2>4. superseded' \in [Policies -> Seq(Entries)]
    BY <1>4, <2>1, <2>3 DEF WriteSuperseded, TypeOK
  <2>5. pc' \in [Requests -> Steps] /\ prevs' \in [Requests -> SUBSET Promises]
    BY <1>4, SettleTypeOK DEF WriteSuperseded
  <2> QED
    BY <1>1, <2>4, <2>5 DEF TypeOK, Catalog!TypeOK
<1> QED
  BY <1>3, <1>4

LEMMA EnvironmentTypeOK ==
  ASSUME TypeOK, (\E r \in Requests : Fail(r)) \/ Tick \/ GeographyStep
  PROVE  TypeOK'
<1>1. CASE \E r \in Requests : Fail(r)
  BY <1>1 DEF Fail, Goto, TypeOK, table, world, locals, Steps, Catalog!TypeOK
<1>2. CASE Tick
  BY <1>2 DEF Tick, TypeOK, table, locals, Catalog!TypeOK
<1>3. CASE GeographyStep
  <2>1. Catalog!TypeOK'
    BY <1>3 DEF GeographyStep, Catalog!Next, Catalog!Create, Catalog!Publish, Catalog!Remove,
                Catalog!Move, Catalog!TypeOK, Catalog!Statuses, TypeOK
  <2> QED
    BY <1>3, <2>1 DEF GeographyStep, TypeOK, table, locals
<1> QED
  BY <1>1, <1>2, <1>3

LEMMA StepTypeOK == TypeOK /\ [Next]_vars => TypeOK'
<1> SUFFICES ASSUME TypeOK, [Next]_vars PROVE TypeOK'
  OBVIOUS
<1>1. CASE Next
  BY <1>1, StartTypeOK, InsertTypeOK, CheckTypeOK, WriteTypeOK, PublishTypeOK,
     SupersedeTypeOK, EnvironmentTypeOK DEF Next, Serve, Publishing
<1>2. CASE UNCHANGED vars
  BY <1>2 DEF vars, TypeOK, table, world, locals, Catalog!TypeOK
<1> QED
  BY <1>1, <1>2

(***************************************************************************)
(* Type correctness, and that no metadata outlives its policy.             *)
(***************************************************************************)
THEOREM TypeCorrect == Spec => []TypeOK
  BY InitTypeOK, StepTypeOK, PTL DEF Spec

(***************************************************************************)
(* The inductive invariant.  A request that is between its UPDATE and its  *)
(* commit holds the row, so what it read of it still stands (LockHeld);    *)
(* one that has committed is the only publisher of its policy (Publishers).*)
(* Lists of successors are true, in the table and in the copies requests   *)
(* are about to write back (Lists).                                        *)
(***************************************************************************)
Active == {"stream", "commit", "supersede", "rejected"}
HasPublished(r) ==
  pc[r] \in {"supersede", "rejected"} \/ (pc[r] = "ok" /\ call[r].op \in PublishOps)

OpsMatch ==
  \A r \in Requests :
    /\ pc[r] = "insertMetadata" => call[r].op \in {"intent", "metadata"}
    /\ pc[r] \in {"readMetadata", "updateMetadata"} => call[r].op = "metadata"
    /\ pc[r] = "delete" => call[r].op = "delete"

LockHeld ==
  \A r \in Requests : pc[r] \in {"stream", "commit"} =>
    /\ lock[call[r].id] = r
    /\ Draft(call[r].id)
    /\ seen[r] = body[call[r].id]

Streamed == UseKafka => \A r \in Requests : pc[r] = "commit" => Message(r) \in topic

Publishers ==
  \A r \in Requests : HasPublished(r) =>
    /\ Published(call[r].id)
    /\ published[call[r].id] = stamp[r]
    /\ pc[r] # "ok" => seen[r] = body[call[r].id]
    /\ \A r2 \in Requests \ {r} : HasPublished(r2) => call[r2].id # call[r].id

TrueList(s) == \A i \in DOMAIN s : Published(s[i].by) /\ body[s[i].by].start = s[i].at
Lists ==
  /\ \A q \in Policies : TrueList(superseded[q])
  /\ \A r \in Requests : \A t \in prevs[r] : t.copy # None => TrueList(t.copy)

IInv == /\ TypeOK /\ OpsMatch /\ LockHeld /\ Streamed /\ StreamHasPublished
        /\ Publishers /\ Lists

LEMMA InitIInv == Init => IInv
<1> SUFFICES ASSUME Init PROVE IInv
  OBVIOUS
<1>1. TypeOK
  BY InitTypeOK
<1>2. OpsMatch /\ LockHeld /\ Streamed /\ Publishers
  BY DEF Init, OpsMatch, LockHeld, Streamed, Publishers, HasPublished
<1>3. StreamHasPublished
  BY DEF Init, StreamHasPublished, Published
<1>4. Lists
  BY DEF Init, Lists, TrueList
<1> QED
  BY <1>1, <1>2, <1>3, <1>4 DEF IInv

(***************************************************************************)
(* Most steps are quiet: whatever the invariant looks at stays, but for    *)
(* the variables of one request, which is not publishing after the step.   *)
(***************************************************************************)
Others(r) ==
  \A r2 \in Requests \ {r} :
    /\ pc'[r2] = pc[r2] /\ call'[r2] = call[r2] /\ stamp'[r2] = stamp[r2]
    /\ seen'[r2] = seen[r2] /\ prevs'[r2] = prevs[r2]

NotPublishing(r) == pc[r] \notin Active /\ ~HasPublished(r)

Quiet(r) ==
  /\ UNCHANGED <<policies, body, published, superseded, lock, topic>>
  /\ Others(r)
  /\ \A t \in prevs'[r] : t \in prevs[r] \/ t.copy = None
  /\ NotPublishing(r)'

LEMMA QuietKeeps ==
  ASSUME IInv, NEW r \in Requests, Quiet(r)
  PROVE  (LockHeld /\ Streamed /\ StreamHasPublished /\ Publishers /\ Lists)'
<1> USE DEF IInv, Quiet, Others, NotPublishing
<1>1. LockHeld'
  BY DEF LockHeld, Draft, Active
<1>2. Streamed'
  BY DEF Streamed, Message, Active
<1>3. StreamHasPublished'
  BY DEF StreamHasPublished, Published
<1>4. Publishers'
  BY DEF Publishers, HasPublished, Published
<1>5. Lists'
  BY DEF Lists, TrueList, Published
<1> QED
  BY <1>1, <1>2, <1>3, <1>4, <1>5

(* A list of successors stays true while what is published stays as it is. *)
LEMMA TrueListsPersist ==
  ASSUME NEW t \in Seq(Entries), TrueList(t),
         \A p \in Policies : Published(p) => Published(p)' /\ body'[p] = body[p]
  PROVE  \A i \in DOMAIN t : Published(t[i].by)' /\ body'[t[i].by].start = t[i].at
<1>1. \A i \in DOMAIN t : t[i] \in Entries
  OBVIOUS
<1>2. \A i \in DOMAIN t : t[i].by \in Policies
  BY <1>1 DEF Entries
<1> QED
  BY <1>2 DEF TrueList

(***************************************************************************)
(* Insert, Edit and Delete change one row, which is not published and      *)
(* which no open transaction holds.                                        *)
(***************************************************************************)
ChangesRow(r, p) ==
  /\ ~Published(p) /\ ~Published(p)'
  /\ p \notin policies \/ lock[p] = None
  /\ \A q \in Policies \ {p} :
       /\ q \in policies' <=> q \in policies
       /\ body'[q] = body[q] /\ published'[q] = published[q] /\ superseded'[q] = superseded[q]
  /\ superseded'[p] \in {superseded[p], << >>}
  /\ UNCHANGED <<lock, topic, prevs>>
  /\ Others(r)
  /\ NotPublishing(r)'

LEMMA ChangesRowKeeps ==
  ASSUME IInv, NEW r \in Requests, NEW p \in Policies, ChangesRow(r, p)
  PROVE  (LockHeld /\ Streamed /\ StreamHasPublished /\ Publishers /\ Lists)'
<1> USE DEF IInv, ChangesRow, Others, NotPublishing
<1>1. \A r2 \in Requests : pc'[r2] \in {"stream", "commit"} => call[r2].id # p
  BY ConstantsOK DEF LockHeld, Draft, Active
<1>2. LockHeld'
  BY <1>1, RequestTypes DEF LockHeld, Draft, Active
<1>3. Streamed'
  BY DEF Streamed, Message, Active
<1>4. StreamHasPublished'
  BY DEF StreamHasPublished, Published
<1>5. \A q \in Policies : Published(q) =>
        q # p /\ Published(q)' /\ body'[q] = body[q] /\ published'[q] = published[q]
  BY DEF Published
<1>6. Publishers'
  BY <1>5, RequestTypes DEF Publishers, HasPublished
<1>7. Lists'
  <2>2. \A t \in Seq(Entries) : TrueList(t) =>
          \A i \in DOMAIN t : Published(t[i].by)' /\ body'[t[i].by].start = t[i].at
    BY <1>5, TrueListsPersist
  <2>3. \A q \in Policies : superseded[q] \in Seq(Entries)
    BY DEF TypeOK
  <2>4. \A q \in Policies : TrueList(superseded[q])'
    <3>1. \A q \in Policies : superseded'[q] = superseded[q] \/ superseded'[q] = << >>
      OBVIOUS
    <3> QED
      BY <2>2, <2>3, <3>1 DEF Lists, TrueList
  <2>5. ASSUME NEW r2 \in Requests, NEW t \in prevs'[r2], t.copy # None PROVE TrueList(t.copy)'
    <3>1. t \in prevs[r2] /\ t.copy \in Seq(Entries)
      BY <2>5, RequestTypes DEF Promises
    <3>2. TrueList(t.copy)
      BY <2>5, <3>1 DEF Lists
    <3>3. \A i \in DOMAIN t.copy : Published(t.copy[i].by)' /\ body'[t.copy[i].by].start = t.copy[i].at
      BY <2>2, <3>1, <3>2
    <3> QED
      BY <3>3 DEF TrueList
  <2> QED
    BY <2>4, <2>5 DEF Lists
<1> QED
  BY <1>2, <1>3, <1>4, <1>6, <1>7

LEMMA FailKeeps ==
  ASSUME IInv, NEW r \in Requests, Fail(r)
  PROVE  (LockHeld /\ Streamed /\ StreamHasPublished /\ Publishers /\ Lists)'
<1> USE DEF IInv
<1>1. /\ UNCHANGED <<policies, body, published, superseded, topic, prevs>>
      /\ Others(r) /\ NotPublishing(r)'
  BY DEF Fail, Goto, TypeOK, table, world, locals, Others, NotPublishing, HasPublished, Active
<1>2. \A r2 \in Requests, p \in Policies : r2 # r /\ lock[p] = r2 => lock'[p] = r2
  BY DEF Fail
<1>3. LockHeld'
  BY <1>1, <1>2, RequestTypes DEF LockHeld, Draft, Active, Others, NotPublishing
<1>4. Streamed'
  BY <1>1 DEF Streamed, Message, Active, Others, NotPublishing
<1>5. StreamHasPublished'
  BY <1>1 DEF StreamHasPublished, Published
<1>6. Publishers'
  BY <1>1 DEF Publishers, HasPublished, Published, Others, NotPublishing
<1>7. Lists'
  BY <1>1 DEF Lists, TrueList, Published
<1> QED
  BY <1>3, <1>4, <1>5, <1>6, <1>7

LEMMA BeginPublishKeeps ==
  ASSUME IInv, NEW r \in Requests, BeginPublish(r), Draft(call[r].id)
  PROVE  (LockHeld /\ Streamed /\ StreamHasPublished /\ Publishers /\ Lists)'
<1> USE DEF IInv
<1>1. /\ pc[r] = "update" /\ pc' = [pc EXCEPT ![r] = "stream"]
      /\ lock[call[r].id] = None /\ lock' = [lock EXCEPT ![call[r].id] = r]
      /\ seen' = [seen EXCEPT ![r] = body[call[r].id]]
      /\ UNCHANGED <<policies, body, published, superseded, topic, call, stamp, prevs>>
  BY DEF BeginPublish, GotoIf, Goto, Unlocked, table, world
<1>2. LockHeld'
  BY <1>1, RequestTypes, ConstantsOK DEF LockHeld, Draft, TypeOK
<1>3. Streamed'
  BY <1>1 DEF Streamed, Message, TypeOK
<1>4. StreamHasPublished'
  BY <1>1 DEF StreamHasPublished, Published
<1>5. Publishers'
  BY <1>1 DEF Publishers, HasPublished, Published, TypeOK
<1>6. Lists'
  BY <1>1 DEF Lists, TrueList, Published
<1> QED
  BY <1>2, <1>3, <1>4, <1>5, <1>6

LEMMA WriteStreamKeeps ==
  ASSUME IInv, NEW r \in Requests, WriteStream(r)
  PROVE  (LockHeld /\ Streamed /\ StreamHasPublished /\ Publishers /\ Lists)'
<1> USE DEF IInv
<1>1. /\ pc[r] = "stream" /\ pc' = [pc EXCEPT ![r] = "commit"]
      /\ topic \subseteq topic' /\ (UseKafka => Message(r) \in topic')
      /\ UNCHANGED <<policies, body, published, superseded, lock, call, stamp, seen, prevs>>
  BY DEF WriteStream, Goto, table, locals
<1>2. LockHeld'
  BY <1>1 DEF LockHeld, Draft, TypeOK
<1>3. Streamed'
  BY <1>1 DEF Streamed, Message, TypeOK
<1>4. StreamHasPublished'
  BY <1>1 DEF StreamHasPublished, Published
<1>5. Publishers'
  BY <1>1 DEF Publishers, HasPublished, Published, TypeOK
<1>6. Lists'
  BY <1>1 DEF Lists, TrueList, Published
<1> QED
  BY <1>2, <1>3, <1>4, <1>5, <1>6

LEMMA CommitKeeps ==
  ASSUME IInv, NEW r \in Requests, Commit(r)
  PROVE  (LockHeld /\ Streamed /\ StreamHasPublished /\ Publishers /\ Lists)'
<1> USE DEF IInv
<1> DEFINE p == call[r].id
<1>1. /\ pc[r] = "commit" /\ pc'[r] \in {"ok", "supersede"}
      /\ published' = [published EXCEPT ![p] = stamp[r]]
      /\ lock' = [lock EXCEPT ![p] = None]
      /\ UNCHANGED <<policies, body, superseded, topic, call, stamp, seen, prevs>>
  BY DEF Commit, Goto, world, TypeOK
<1>2. \A r2 \in Requests \ {r} : pc'[r2] = pc[r2]
  BY DEF Commit, Goto, TypeOK
<1>3. /\ p \in Policies /\ stamp[r] \in Nat /\ stamp[r] # None
      /\ lock[p] = r /\ Draft(p) /\ seen[r] = body[p]
  BY <1>1, RequestTypes, ConstantsOK DEF LockHeld
<1>4. \A q \in Policies : Published(q) =>
        q # p /\ Published(q)' /\ body'[q] = body[q] /\ published'[q] = published[q]
  BY <1>1, <1>3 DEF Published, Draft, TypeOK
<1>5. Published(p)' /\ published'[p] = stamp[r]
  BY <1>1, <1>3 DEF Published, Draft, TypeOK
<1> HIDE DEF p
<1>6. LockHeld'
  BY <1>1, <1>2, <1>3, RequestTypes DEF LockHeld, Draft, TypeOK, p
<1>7. Streamed'
  BY <1>1, <1>2 DEF Streamed, Message
<1>8. StreamHasPublished'
  <2>1. UseKafka => [id |-> p, body |-> body[p], published |-> stamp[r]] \in topic
    BY <1>1, <1>3 DEF Streamed, Message, p
  <2> QED
    BY <1>1, <1>4, <1>5, <2>1 DEF StreamHasPublished, Published, TypeOK
<1>9. Publishers'
  <2>1. \A r2 \in Requests \ {r} : HasPublished(r2)' => HasPublished(r2) /\ call[r2].id # p
    BY <1>1, <1>2, <1>4, RequestTypes DEF HasPublished, Publishers
  <2> QED
    BY <1>1, <1>2, <1>3, <1>4, <1>5, <2>1, RequestTypes DEF Publishers, p
<1>10. Lists'
  <2>1. \A q \in Policies : TrueList(superseded[q])'
    BY <1>1, <1>4, TrueListsPersist DEF Lists, TrueList, TypeOK
  <2>2. ASSUME NEW r2 \in Requests, NEW t \in prevs'[r2], t.copy # None PROVE TrueList(t.copy)'
    <3>1. t \in prevs[r2] /\ t.copy \in Seq(Entries)
      BY <1>1, <2>2, RequestTypes DEF Promises
    <3>2. TrueList(t.copy)
      BY <2>2, <3>1 DEF Lists
    <3>3. \A i \in DOMAIN t.copy : Published(t.copy[i].by)' /\ body'[t.copy[i].by].start = t.copy[i].at
      BY <1>4, <3>1, <3>2, TrueListsPersist
    <3> QED
      BY <3>3 DEF TrueList
  <2> QED
    BY <2>1, <2>2 DEF Lists
<1> QED
  BY <1>6, <1>7, <1>8, <1>9, <1>10

(* What Settle leaves of a request that has published its policy. *)
LEMMA SettleStep ==
  ASSUME TypeOK, NEW r \in Requests, NEW t \in prevs[r], NEW failed \in BOOLEAN,
         Superseding(r), Settle(r, t, failed)
  PROVE  /\ pc'[r] \in {"error", "rejected", "ok", "supersede"}
         /\ prevs'[r] = prevs[r] \ {t}
         /\ \A r2 \in Requests \ {r} : pc'[r2] = pc[r2] /\ prevs'[r2] = prevs[r2]
  BY DEF Settle, Goto, Superseding, TypeOK

LEMMA ReadSupersededKeeps ==
  ASSUME IInv, NEW r \in Requests, NEW t \in prevs[r], ReadSuperseded(r, t)
  PROVE  (LockHeld /\ Streamed /\ StreamHasPublished /\ Publishers /\ Lists)'
<1> USE DEF IInv
<1>1. UNCHANGED <<policies, body, published, superseded, lock, topic, call, stamp, seen>>
  BY DEF ReadSuperseded, table, world
<1> DEFINE u == [t EXCEPT !.copy = superseded[t.id]]
<1>2. /\ t \in Promises
      /\ t.id \in policies => u.copy = superseded[t.id] /\ t.id \in Policies
  BY RequestTypes, ReadPromise DEF TypeOK
<1>3. /\ pc[r] \in {"supersede", "rejected"} /\ HasPublished(r)
      /\ pc'[r] \in {"error", "rejected", "ok", "supersede"}
      /\ \A r2 \in Requests \ {r} : pc'[r2] = pc[r2] /\ prevs'[r2] = prevs[r2]
      /\ \A x \in prevs'[r] : x \in prevs[r] \/ (x = u /\ t.id \in policies)
  <2>1. pc[r] \in {"supersede", "rejected"} /\ HasPublished(r)
    BY DEF ReadSuperseded, Superseding, HasPublished
  <2>2. CASE Settle(r, t, TRUE)
    BY <2>1, <2>2, SettleStep DEF Superseding
  <2>3. CASE /\ t.id \in policies
             /\ prevs' = [prevs EXCEPT ![r] = (@ \ {t}) \cup {u}]
             /\ UNCHANGED pc
    <3> HIDE DEF u
    <3> QED
      BY <2>1, <2>3 DEF TypeOK
  <2> QED
    BY <2>2, <2>3 DEF ReadSuperseded
<1> HIDE DEF u
<1>4. LockHeld'
  BY <1>1, <1>3 DEF LockHeld, Draft
<1>5. Streamed'
  BY <1>1, <1>3 DEF Streamed, Message
<1>6. StreamHasPublished'
  BY <1>1 DEF StreamHasPublished, Published
<1>7. Publishers'
  BY <1>1, <1>3 DEF Publishers, HasPublished, Published
<1>8. Lists'
  BY <1>1, <1>2, <1>3 DEF Lists, TrueList, Published
<1> QED
  BY <1>4, <1>5, <1>6, <1>7, <1>8

LEMMA AppendList ==
  ASSUME NEW s \in Seq(Entries), NEW e \in Entries, TrueList(s),
         Published(e.by), body[e.by].start = e.at
  PROVE  TrueList(Append(s, e))
<1>1. /\ DOMAIN Append(s, e) = DOMAIN s \cup {Len(s) + 1}
      /\ \A i \in DOMAIN s : Append(s, e)[i] = s[i]
      /\ Append(s, e)[Len(s) + 1] = e
  OBVIOUS
<1> QED
  BY <1>1 DEF TrueList

LEMMA WriteSupersededKeeps ==
  ASSUME IInv, NEW r \in Requests, NEW t \in prevs[r], WriteSuperseded(r, t)
  PROVE  (LockHeld /\ Streamed /\ StreamHasPublished /\ Publishers /\ Lists)'
<1> USE DEF IInv
<1> DEFINE e == [by |-> call[r].id, at |-> seen[r].start]
<1>1. UNCHANGED <<policies, body, published, lock, topic, call, stamp, seen>>
  BY DEF WriteSuperseded, world
<1>2. /\ pc[r] \in {"supersede", "rejected"} /\ HasPublished(r)
      /\ pc'[r] \in {"error", "rejected", "ok", "supersede"}
      /\ prevs'[r] = prevs[r] \ {t}
      /\ \A r2 \in Requests \ {r} : pc'[r2] = pc[r2] /\ prevs'[r2] = prevs[r2]
  BY SettleStep DEF WriteSuperseded, Superseding, HasPublished
<1>3. t.copy # None /\ t.copy \in Seq(Entries) /\ t.id \in Policies /\ TrueList(t.copy)
  BY RequestTypes DEF WriteSuperseded, Promises, Lists
<1>4. superseded' = superseded \/ superseded' = [superseded EXCEPT ![t.id] = Append(t.copy, e)]
  BY DEF WriteSuperseded
<1>5. e \in Entries /\ Published(e.by) /\ body[e.by].start = e.at
  BY <1>2, RequestTypes DEF Publishers, Entries
<1>6. LockHeld'
  BY <1>1, <1>2 DEF LockHeld, Draft
<1>7. Streamed'
  BY <1>1, <1>2 DEF Streamed, Message
<1>8. StreamHasPublished'
  BY <1>1 DEF StreamHasPublished, Published
<1>9. Publishers'
  BY <1>1, <1>2 DEF Publishers, HasPublished, Published
<1>10. Lists'
  <2>1. TrueList(Append(t.copy, e))
    BY <1>3, <1>5, AppendList
  <2>2. \A q \in Policies : superseded'[q] = superseded[q] \/ superseded'[q] = Append(t.copy, e)
    BY <1>4 DEF TypeOK
  <2> HIDE DEF e
  <2>3. \A q \in Policies : TrueList(superseded'[q])
    BY <2>1, <2>2 DEF Lists
  <2>4. \A r2 \in Requests : \A x \in prevs'[r2] : x \in prevs[r2]
    BY <1>2
  <2> QED
    BY <1>1, <2>3, <2>4 DEF Lists, TrueList, Published
<1> QED
  BY <1>6, <1>7, <1>8, <1>9, <1>10

LEMMA QuietSteps ==
  ASSUME TypeOK, OpsMatch, NEW r \in Requests,
         \/ Start(r) \/ LookUpRule(r) \/ IsPolicyPublished(r) \/ ReadDraft(r)
         \/ InsertMetadata(r) \/ ReadMetadata(r) \/ UpdateMetadata(r)
         \/ ReadPolicy(r) \/ CheckGeographies(r)
         \/ (BeginPublish(r) /\ ~Draft(call[r].id))
  PROVE  Quiet(r) /\ OpsMatch'
<1> USE DEF Quiet, Others, NotPublishing, HasPublished, Active, OpsMatch, PublishOps,
            Goto, GotoIf, TypeOK, table, world, locals
<1>1. CASE Start(r)
  <2>1. PICK op \in Ops, p \in Policies, b \in Body :
          call' = [call EXCEPT ![r] = [op |-> op, id |-> p, body |-> b]]
          /\ pc' = [pc EXCEPT ![r] = FirstStep(op)]
    <3>1. \A b \in Bodies : Translated(b) \in Body
      BY TranslatedIsBody, ConstantsOK
    <3> QED
      BY <1>1, <3>1, ConstantsOK DEF Start
  <2>2. op \in AllOps
    BY ConstantsOK
  <2> QED
    BY <1>1, <2>1, <2>2 DEF Start, FirstStep, AllOps
<1>2. CASE LookUpRule(r)
  BY <1>2 DEF LookUpRule
<1>3. CASE IsPolicyPublished(r)
  BY <1>3 DEF IsPolicyPublished
<1>4. CASE ReadDraft(r)
  BY <1>4 DEF ReadDraft
<1>5. CASE InsertMetadata(r)
  BY <1>5 DEF InsertMetadata
<1>6. CASE ReadMetadata(r)
  BY <1>6 DEF ReadMetadata
<1>7. CASE UpdateMetadata(r)
  BY <1>7 DEF UpdateMetadata
<1>8. CASE ReadPolicy(r)
  <2>1. \A t \in prevs'[r] : t \in prevs[r] \/ t.copy = None
    <3>1. \A s : \A t \in Awaited(s) : t.copy = None
      BY DEF Awaited
    <3>2. prevs'[r] = prevs[r] \/ prevs'[r] = Awaited(body[call[r].id].prev)
      BY <1>8 DEF ReadPolicy
    <3> QED
      BY <3>1, <3>2
  <2> QED
    BY <1>8, <2>1 DEF ReadPolicy
<1>9. CASE CheckGeographies(r)
  BY <1>9 DEF CheckGeographies
<1>10. CASE BeginPublish(r) /\ ~Draft(call[r].id)
  BY <1>10 DEF BeginPublish
<1> QED
  BY <1>1, <1>2, <1>3, <1>4, <1>5, <1>6, <1>7, <1>8, <1>9, <1>10

LEMMA RowSteps ==
  ASSUME TypeOK, OpsMatch, NEW r \in Requests, Insert(r) \/ Edit(r) \/ Delete(r)
  PROVE  (Quiet(r) \/ ChangesRow(r, call[r].id)) /\ OpsMatch'
<1> USE DEF Quiet, ChangesRow, Others, NotPublishing, HasPublished, Active, OpsMatch, PublishOps,
            Goto, GotoIf, TypeOK, world, locals, Published, Draft, Unlocked
<1>1. call[r].id \in Policies
  BY RequestTypes
<1>2. CASE Insert(r)
  BY <1>1, <1>2 DEF Insert
<1>3. CASE Edit(r)
  BY <1>1, <1>3 DEF Edit
<1>4. CASE Delete(r)
  BY <1>1, <1>4 DEF Delete
<1> QED
  BY <1>2, <1>3, <1>4

LEMMA OtherStepsOps ==
  ASSUME TypeOK, OpsMatch, NEW r \in Requests,
         \/ Fail(r) \/ BeginPublish(r) \/ WriteStream(r) \/ Commit(r)
         \/ \E t \in prevs[r] : ReadSuperseded(r, t) \/ WriteSuperseded(r, t)
  PROVE  OpsMatch'
<1>1. UNCHANGED call
  BY DEF Fail, BeginPublish, WriteStream, Commit, ReadSuperseded, WriteSuperseded, world
<1>2. /\ pc'[r] \notin {"insertMetadata", "readMetadata", "updateMetadata", "delete"}
      /\ \A r2 \in Requests \ {r} : pc'[r2] = pc[r2]
  BY DEF Fail, BeginPublish, WriteStream, Commit, ReadSuperseded, WriteSuperseded, Settle,
         Superseding, Goto, GotoIf, TypeOK
<1> QED
  BY <1>1, <1>2 DEF OpsMatch

LEMMA EnvironmentKeeps ==
  ASSUME IInv, Tick \/ GeographyStep \/ UNCHANGED vars
  PROVE  (OpsMatch /\ LockHeld /\ Streamed /\ StreamHasPublished /\ Publishers /\ Lists)'
<1>1. UNCHANGED <<policies, body, published, superseded, lock, topic, pc, call, stamp, seen,
                  prevs>>
  BY DEF Tick, GeographyStep, vars, table, world, locals
<1> QED
  BY <1>1 DEF IInv, OpsMatch, LockHeld, Streamed, StreamHasPublished, Publishers, Lists,
              HasPublished, Published, Draft, Message, TrueList

LEMMA StepIInv == IInv /\ [Next]_vars => IInv'
<1> SUFFICES ASSUME IInv, [Next]_vars PROVE IInv'
  OBVIOUS
<1> USE DEF IInv
<1>1. TypeOK'
  BY StepTypeOK
<1>2. CASE Tick \/ GeographyStep \/ UNCHANGED vars
  BY <1>1, <1>2, EnvironmentKeeps
<1>3. ASSUME NEW r \in Requests, Start(r) \/ Serve(r) \/ Fail(r) PROVE IInv'
  <2>1. CASE \/ Start(r) \/ LookUpRule(r) \/ IsPolicyPublished(r) \/ ReadDraft(r)
             \/ InsertMetadata(r) \/ ReadMetadata(r) \/ UpdateMetadata(r)
             \/ ReadPolicy(r) \/ CheckGeographies(r)
             \/ (BeginPublish(r) /\ ~Draft(call[r].id))
    BY <1>1, <2>1, QuietSteps, QuietKeeps
  <2>2. CASE Insert(r) \/ Edit(r) \/ Delete(r)
    BY <1>1, <2>2, RequestTypes, RowSteps, QuietKeeps, ChangesRowKeeps
  <2>3. CASE Fail(r)
    BY <1>1, <2>3, OtherStepsOps, FailKeeps
  <2>4. CASE BeginPublish(r) /\ Draft(call[r].id)
    BY <1>1, <2>4, OtherStepsOps, BeginPublishKeeps
  <2>5. CASE WriteStream(r)
    BY <1>1, <2>5, OtherStepsOps, WriteStreamKeeps
  <2>6. CASE Commit(r)
    BY <1>1, <2>6, OtherStepsOps, CommitKeeps
  <2>7. CASE \E t \in prevs[r] : ReadSuperseded(r, t) \/ WriteSuperseded(r, t)
    BY <1>1, <2>7, OtherStepsOps, ReadSupersededKeeps, WriteSupersededKeeps
  <2> QED
    BY <1>3, <2>1, <2>2, <2>3, <2>4, <2>5, <2>6, <2>7 DEF Serve, Publishing
<1> QED
  BY <1>2, <1>3 DEF Next

THEOREM Invariance == Spec => []IInv
  BY InitIInv, StepIInv, PTL DEF Spec

(***************************************************************************)
(* Subscribers of the Kafka topic hear of every policy that is published,  *)
(* with the body and the date the table has.                               *)
(***************************************************************************)
THEOREM PublishedPoliciesStreamed == Spec => []StreamHasPublished
<1>1. IInv => StreamHasPublished
  BY DEF IInv
<1> QED
  BY <1>1, Invariance, PTL

(***************************************************************************)
(* What a policy records of its successors is true.  It need be neither    *)
(* complete nor free of repetitions.                                       *)
(***************************************************************************)
THEOREM RecordsAccurate == Spec => []SupersessionAccurate
<1>1. IInv => SupersessionAccurate
  BY DEF IInv, Lists, TrueList, SupersessionAccurate
<1> QED
  BY <1>1, Invariance, PTL

(***************************************************************************)
(* A publication that answers success is the one that published the policy. *)
(***************************************************************************)
THEOREM PublicationsAcknowledged == Spec => []PublishAcknowledged
<1>1. IInv => PublishAcknowledged
  BY DEF IInv, Publishers, HasPublished, PublishAcknowledged
<1> QED
  BY <1>1, Invariance, PTL

(***************************************************************************)
(* A published policy keeps its row, its body and its date.                *)
(***************************************************************************)
Frozen ==
  \A p \in Policies : Published(p) =>
    /\ Published(p)'
    /\ body'[p] = body[p]
    /\ published'[p] = published[p]

LEMMA StepFrozen == IInv /\ [Next]_vars => Frozen
<1> SUFFICES ASSUME IInv, [Next]_vars PROVE Frozen
  OBVIOUS
<1> USE DEF IInv, Frozen, Published
<1>1. CASE UNCHANGED <<policies, body, published>>
  BY <1>1
<1>2. ASSUME NEW r \in Requests, Insert(r) \/ Edit(r) \/ Delete(r) PROVE Frozen
  BY <1>2, RowSteps DEF Quiet, ChangesRow
<1>3. ASSUME NEW r \in Requests, Commit(r) PROVE Frozen
  <2>1. Draft(call[r].id)
    BY <1>3 DEF Commit, LockHeld
  <2> QED
    BY <1>3, <2>1 DEF Commit, Draft, TypeOK
<1>4. ASSUME NEW r \in Requests,
             \/ Start(r) \/ LookUpRule(r) \/ IsPolicyPublished(r) \/ ReadDraft(r)
             \/ InsertMetadata(r) \/ ReadMetadata(r) \/ UpdateMetadata(r)
             \/ ReadPolicy(r) \/ CheckGeographies(r) \/ BeginPublish(r) \/ WriteStream(r)
             \/ Fail(r) \/ \E t \in prevs[r] : ReadSuperseded(r, t) \/ WriteSuperseded(r, t)
      PROVE  UNCHANGED <<policies, body, published>>
  BY <1>4 DEF Start, LookUpRule, IsPolicyPublished, ReadDraft, InsertMetadata, ReadMetadata,
              UpdateMetadata, ReadPolicy, CheckGeographies, BeginPublish, WriteStream, Fail,
              ReadSuperseded, WriteSuperseded, table
<1>5. CASE Tick \/ GeographyStep \/ UNCHANGED vars
  BY <1>5, <1>1 DEF Tick, GeographyStep, vars, table
<1> QED
  BY <1>1, <1>2, <1>3, <1>4, <1>5 DEF Next, Serve, Publishing

THEOREM PublishedPoliciesFrozen == Spec => PublishedFrozen
<1>1. IInv /\ [Next]_vars => [Frozen]_vars
  BY StepFrozen
<1> QED
  BY <1>1, Invariance, PTL DEF Spec, PublishedFrozen, Frozen
=============================================================================
