---------------------- MODULE GeographyLifecycleProofs ----------------------
(***************************************************************************)
(* Proofs about the geography service, for every set of geographies,       *)
(* shapes and requests: type correctness, that published geographies are   *)
(* frozen, and that the service implements GeographyCatalog.               *)
(***************************************************************************)
EXTENDS GeographyLifecycle, TLAPS

LEMMA AnyShapeIsShape == AnyShape \in Shapes
  BY ConstantsOK DEF AnyShape

LEMMA NoCallIsCall == NoCall \in Calls
  BY AnyShapeIsShape DEF NoCall, Calls

LEMMA InitTypeOK == Init => TypeOK
  BY AnyShapeIsShape, NoCallIsCall, ConstantsOK DEF Init, TypeOK, Steps

(* One lemma per action: each keeps the types. *)
LEMMA StartTypeOK ==
  ASSUME TypeOK, NEW r \in Requests, Start(r) PROVE TypeOK'
<1>1. PICK c \in Calls :
        /\ c.op \in Ops
        /\ call' = [call EXCEPT ![r] = c]
        /\ Goto(r, FirstStep(c.op))
        /\ todo' = [todo EXCEPT ![r] = IF c.op = "publish" THEN c.ids ELSE {}]
  BY DEF Start
<1>2. c.ids \in SUBSET Geographies /\ c.op \in AllOps
  BY <1>1, ConstantsOK DEF Calls
<1>3. FirstStep(c.op) \in Steps
  BY <1>2 DEF FirstStep, AllOps, Steps
<1> QED
  BY <1>1, <1>2, <1>3 DEF Start, TypeOK, Goto, tables

LEMMA SettleTypeOK ==
  ASSUME TypeOK, NEW r \in Requests, NEW failed \in BOOLEAN, Settle(r, failed)
  PROVE  pc' \in [Requests -> Steps]
  BY DEF Settle, Goto, TypeOK, Steps

LEMMA PublishingTypeOK ==
  ASSUME TypeOK, NEW r \in Requests, Publishing(r) PROVE TypeOK'
<1>1. PICK g \in Geographies : CheckUnpublished(r, g) \/ SetPublishDate(r, g)
  BY DEF Publishing
<1>2. CASE CheckUnpublished(r, g)
  <2>1. pc' \in [Requests -> Steps]
    BY <1>2, SettleTypeOK DEF CheckUnpublished
  <2>2. todo' \in [Requests -> SUBSET Geographies]
    BY <1>2 DEF CheckUnpublished, TypeOK
  <2>3. ready' \in [Requests -> SUBSET Geographies]
    <3>1. \/ ready' = [ready EXCEPT ![r] = @ \cup {g}]
          \/ ready' = ready
      BY <1>2, Zenon DEF CheckUnpublished
    <3> QED
      BY <3>1 DEF TypeOK
  <2>4. UNCHANGED <<geographies, shape, published, metadata, call>>
    BY <1>2 DEF CheckUnpublished, tables
  <2> QED
    BY <2>1, <2>2, <2>3, <2>4 DEF TypeOK
<1>3. CASE SetPublishDate(r, g)
  <2>1. pc' \in [Requests -> Steps]
    BY <1>3, SettleTypeOK DEF SetPublishDate, Draft
  <2>2. published' \in SUBSET geographies'
    BY <1>3 DEF SetPublishDate, TypeOK, Draft
  <2> QED
    BY <1>3, <2>1, <2>2 DEF SetPublishDate, TypeOK
<1> QED
  BY <1>1, <1>2, <1>3

LEMMA InsertTypeOK ==
  ASSUME TypeOK, NEW r \in Requests, Insert(r) PROVE TypeOK'
<1>1. call[r] \in Calls /\ call[r].ids \in SUBSET Geographies /\ call[r].shape \in Shapes
  BY DEF TypeOK, Calls
<1>2. pc' \in [Requests -> Steps] /\ todo' \in [Requests -> SUBSET Geographies]
  BY <1>1 DEF Insert, Goto, TypeOK, Steps
<1>3. shape' \in [Geographies -> Shapes]
  BY <1>1 DEF Insert, TypeOK
<1>4. geographies' \in SUBSET Geographies /\ published' \in SUBSET geographies'
  BY <1>1 DEF Insert, TypeOK
<1> QED
  BY <1>2, <1>3, <1>4 DEF Insert, TypeOK

LEMMA OtherTypeOK ==
  ASSUME TypeOK, NEW r \in Requests,
         \/ Check(r) \/ Edit(r) \/ Delete(r) \/ DeleteMetadata(r)
         \/ FindMetadata(r) \/ UpsertMetadata(r) \/ Fail(r)
  PROVE  TypeOK'
<1>1. call[r] \in Calls /\ call[r].ids \in SUBSET Geographies /\ call[r].shape \in Shapes
  BY DEF TypeOK, Calls
<1>2. CASE Check(r)
  BY <1>2 DEF Check, Goto, TypeOK, tables, jobs, Steps
<1>3. CASE Edit(r)
  BY <1>1, <1>3 DEF Edit, Goto, TypeOK, jobs, Steps
<1>4. CASE Delete(r)
  BY <1>1, <1>4 DEF Delete, Goto, TypeOK, jobs, Steps, Draft
<1>5. CASE DeleteMetadata(r)
  BY <1>1, <1>5 DEF DeleteMetadata, Goto, TypeOK, jobs, Steps
<1>6. CASE FindMetadata(r)
  BY <1>6 DEF FindMetadata, Goto, TypeOK, tables, jobs, Steps
<1>7. CASE UpsertMetadata(r)
  BY <1>1, <1>7 DEF UpsertMetadata, Goto, TypeOK, jobs, Steps
<1>8. CASE Fail(r)
  BY <1>8 DEF Fail, Goto, TypeOK, tables, Steps
<1> QED
  BY <1>2, <1>3, <1>4, <1>5, <1>6, <1>7, <1>8

LEMMA StepTypeOK == TypeOK /\ [Next]_vars => TypeOK'
<1> SUFFICES ASSUME TypeOK, [Next]_vars PROVE TypeOK'
  OBVIOUS
<1>1. CASE Next
  BY <1>1, StartTypeOK, PublishingTypeOK, InsertTypeOK, OtherTypeOK DEF Next, Serve
<1>2. CASE UNCHANGED vars
  BY <1>2 DEF vars, TypeOK
<1> QED
  BY <1>1, <1>2

(***************************************************************************)
(* Type correctness, and that only ids with a row are published.           *)
(***************************************************************************)
THEOREM TypeCorrect == Spec => []TypeOK
  BY InitTypeOK, StepTypeOK, PTL DEF Spec

(***************************************************************************)
(* What a step of a request does to the tables, seen from outside.         *)
(***************************************************************************)
Frozen == \A g \in published : g \in published' /\ shape'[g] = shape[g]

LEMMA StepFrozen ==
  ASSUME TypeOK, [Next]_vars PROVE Frozen
<1>1. CASE UNCHANGED vars
  BY <1>1 DEF vars, Frozen
<1>2. CASE Next
  <2>1. PICK r \in Requests : Start(r) \/ Serve(r) \/ Fail(r)
    BY <1>2 DEF Next
  <2>2. CASE Insert(r)
    BY <2>2 DEF Insert, Frozen, TypeOK
  <2>3. CASE Publishing(r)
    BY <2>3 DEF Publishing, CheckUnpublished, SetPublishDate, tables, Frozen
  <2>4. CASE Edit(r)
    BY <2>4 DEF Edit, Frozen, TypeOK, Draft
  <2>5. CASE Start(r) \/ Check(r) \/ FindMetadata(r) \/ Fail(r)
    BY <2>5 DEF Start, Check, FindMetadata, Fail, tables, Frozen
  <2>6. CASE Delete(r) \/ DeleteMetadata(r) \/ UpsertMetadata(r)
    BY <2>6 DEF Delete, DeleteMetadata, UpsertMetadata, Frozen
  <2> QED
    BY <2>1, <2>2, <2>3, <2>4, <2>5, <2>6 DEF Serve
<1> QED
  BY <1>1, <1>2

(***************************************************************************)
(* A published geography keeps its row and its content.  The check a       *)
(* handler makes in an earlier statement plays no part in the proof: the   *)
(* WHERE clauses alone carry it.                                           *)
(***************************************************************************)
THEOREM PublishedGeographiesFrozen == Spec => PublishedFrozen
<1>1. TypeOK /\ [Next]_vars => [Frozen]_vars
  BY StepFrozen
<1> QED
  BY <1>1, TypeCorrect, PTL DEF Spec, PublishedFrozen, Frozen

(***************************************************************************)
(* Every step of the service maps to a step of the catalog or a stutter.   *)
(***************************************************************************)
LEMMA InitCatalog == Init => Catalog!Init
  BY ConstantsOK DEF Init, Catalog!Init, Status

LEMMA StepCatalog ==
  ASSUME TypeOK, [Next]_vars PROVE [Catalog!Next]_Status
<1>1. CASE UNCHANGED <<geographies, published>>
  BY <1>1 DEF Status
<1>2. CASE Next
  <2>1. PICK r \in Requests : Start(r) \/ Serve(r) \/ Fail(r)
    BY <1>2 DEF Next
  <2>2. CASE Insert(r)
    <3>1. CASE UNCHANGED geographies
      BY <1>1, <2>2, <3>1 DEF Insert
    <3>2. CASE ~UNCHANGED geographies
      <4>1. call[r].ids \in SUBSET Geographies
        BY DEF TypeOK, Calls
      <4>2. /\ call[r].ids \cap geographies = {}
            /\ geographies' = geographies \cup call[r].ids
            /\ published' = published
        BY <2>2, <3>2 DEF Insert
      <4>3. Catalog!Create(call[r].ids)
        BY <4>1, <4>2 DEF Catalog!Create, Catalog!Move, Status, TypeOK
      <4> QED
        BY <4>1, <4>3 DEF Catalog!Next
    <3> QED
      BY <3>1, <3>2
  <2>3. CASE Publishing(r)
    <3>1. PICK g \in Geographies : CheckUnpublished(r, g) \/ SetPublishDate(r, g)
      BY <2>3 DEF Publishing
    <3>2. CASE CheckUnpublished(r, g) \/ ~Draft(g)
      BY <1>1, <3>1, <3>2 DEF CheckUnpublished, SetPublishDate, tables
    <3>3. CASE SetPublishDate(r, g) /\ Draft(g)
      <4>1. geographies' = geographies /\ published' = published \cup {g}
        BY <3>3 DEF SetPublishDate
      <4>2. Catalog!Publish(g)
        BY <3>3, <4>1 DEF Catalog!Publish, Catalog!Move, Status, Draft
      <4> QED
        BY <4>2 DEF Catalog!Next
    <3> QED
      BY <3>1, <3>2, <3>3
  <2>4. CASE Delete(r)
    <3>1. PICK g \in call[r].ids :
            IF Draft(g) THEN geographies' = geographies \ {g}
                        ELSE UNCHANGED geographies
      BY <2>4 DEF Delete
    <3>2. published' = published /\ g \in Geographies
      BY <2>4 DEF Delete, TypeOK, Calls
    <3>3. CASE Draft(g)
      <4>1. Catalog!Remove(g)
        BY <3>1, <3>2, <3>3 DEF Catalog!Remove, Catalog!Move, Status, Draft, TypeOK
      <4> QED
        BY <3>2, <4>1 DEF Catalog!Next
    <3> QED
      BY <1>1, <3>1, <3>2, <3>3
  <2>5. CASE \/ Start(r) \/ Check(r) \/ Edit(r) \/ DeleteMetadata(r)
             \/ FindMetadata(r) \/ UpsertMetadata(r) \/ Fail(r)
    BY <1>1, <2>5 DEF Start, Check, Edit, DeleteMetadata, FindMetadata, UpsertMetadata,
                      Fail, tables
  <2> QED
    BY <2>1, <2>2, <2>3, <2>4, <2>5 DEF Serve
<1> QED
  BY <1>1, <1>2 DEF vars

(***************************************************************************)
(* The geography service implements the catalog of atomic moves.           *)
(***************************************************************************)
THEOREM LifecycleImplementsCatalog == Spec => ImplementsCatalog
<1>1. TypeOK /\ [Next]_vars => [Catalog!Next]_Status
  BY StepCatalog
<1> QED
  BY InitCatalog, <1>1, TypeCorrect, PTL DEF Spec, ImplementsCatalog, Catalog!Spec

(***************************************************************************)
(* What a request has published and answers for.  A rejected publication   *)
(* answers for nothing.  No two requests have won the same geography: the  *)
(* UPDATE returns a row only where publish_date was NULL.                  *)
(***************************************************************************)
Won(r) ==
  IF pc[r] = "publishing" THEN call[r].ids \ (todo[r] \cup ready[r])
  ELSE IF pc[r] = "ok" /\ call[r].op \in PublishOps THEN call[r].ids ELSE {}

OpsMatch ==
  \A r \in Requests :
    /\ pc[r] = "insert" => call[r].op \in {"write", "writePublished"}
    /\ pc[r] = "deleteMetadata" => call[r].op = "delete"
    /\ pc[r] \in {"find", "upsert"} => call[r].op = "putMetadata"

WonArePublished == \A r \in Requests : Won(r) \subseteq published
WonOnce == \A r1, r2 \in Requests : r1 # r2 => Won(r1) \cap Won(r2) = {}

IInv == TypeOK /\ OpsMatch /\ WonArePublished /\ WonOnce

(* A step that wins nothing, for a request or for all, keeps the invariant. *)
LEMMA NothingWon ==
  ASSUME WonArePublished, WonOnce, published \subseteq published',
         \A r \in Requests : Won(r)' \subseteq Won(r)
  PROVE  WonArePublished' /\ WonOnce'
  BY DEF WonArePublished, WonOnce

LEMMA PublishingWins ==
  ASSUME IInv, NEW r \in Requests, Publishing(r)
  PROVE  (OpsMatch /\ WonArePublished /\ WonOnce)'
<1> USE DEF IInv
<1>1. PICK g \in Geographies : CheckUnpublished(r, g) \/ SetPublishDate(r, g)
  BY DEF Publishing
<1>2. PICK failed \in BOOLEAN :
        /\ Settle(r, failed)
        /\ SetPublishDate(r, g) => failed = ~Draft(g)
        /\ CheckUnpublished(r, g) => (UNCHANGED published)
                                     /\ (~failed => ready' = [ready EXCEPT ![r] = @ \cup {g}])
                                     /\ (failed => UNCHANGED ready)
  BY <1>1 DEF CheckUnpublished, SetPublishDate, tables, Draft
<1>3. /\ UNCHANGED call
      /\ pc[r] \in {"publishing", "failing"}
      /\ pc'[r] \in {"publishing", "failing", "ok", "error"}
      /\ \A r2 \in Requests \ {r} : pc'[r2] = pc[r2] /\ todo'[r2] = todo[r2] /\ ready'[r2] = ready[r2]
      /\ published \subseteq published'
  BY <1>1, <1>2 DEF CheckUnpublished, SetPublishDate, Settle, Goto, TypeOK, tables
<1>4. OpsMatch'
  BY <1>3 DEF OpsMatch
<1>5. \A r2 \in Requests \ {r} : Won(r2)' = Won(r2)
  BY <1>3 DEF Won
<1>6. CASE failed \/ pc[r] = "failing"
  <2>1. pc'[r] \in {"failing", "error"}
    BY <1>2, <1>6 DEF Settle, Goto, TypeOK
  <2>2. Won(r)' = {}
    BY <2>1 DEF Won
  <2> QED
    BY <1>3, <1>4, <1>5, <2>2, NothingWon
<1>7. CASE ~failed /\ pc[r] = "publishing"
  <2>1. /\ pc'[r] = IF todo'[r] \cup ready'[r] # {} THEN "publishing" ELSE "ok"
        /\ Won(r) = call[r].ids \ (todo[r] \cup ready[r])
    BY <1>2, <1>7 DEF Settle, Goto, TypeOK, Won
  <2>2. Won(r)' \subseteq call[r].ids \ (todo'[r] \cup ready'[r])
    BY <1>3, <2>1 DEF Won
  <2>3. CASE CheckUnpublished(r, g)
    <3>1. todo'[r] \cup ready'[r] = todo[r] \cup ready[r]
      BY <1>2, <1>7, <2>3 DEF CheckUnpublished, TypeOK
    <3> QED
      BY <1>3, <1>4, <1>5, <2>1, <2>2, <3>1, NothingWon
  <2>4. CASE SetPublishDate(r, g)
    <3>1. /\ published' = published \cup {g} /\ g \notin published
          /\ todo'[r] = todo[r] /\ ready'[r] = ready[r] \ {g}
      BY <1>2, <1>7, <2>4 DEF SetPublishDate, Draft, TypeOK
    <3>2. Won(r)' \subseteq Won(r) \cup {g}
      BY <2>1, <2>2, <3>1
    <3>3. \A r2 \in Requests : g \notin Won(r2)
      BY <3>1 DEF WonArePublished
    <3> QED
      BY <1>4, <1>5, <3>1, <3>2, <3>3 DEF WonArePublished, WonOnce
  <2> QED
    BY <1>1, <2>3, <2>4
<1> QED
  BY <1>3, <1>6, <1>7

LEMMA OtherStepsWin ==
  ASSUME IInv, NEW r \in Requests,
         \/ Start(r) \/ Insert(r) \/ Check(r) \/ Edit(r) \/ Delete(r) \/ DeleteMetadata(r)
         \/ FindMetadata(r) \/ UpsertMetadata(r) \/ Fail(r)
  PROVE  (OpsMatch /\ WonArePublished /\ WonOnce)'
<1> USE DEF IInv
<1>1. published' = published
  BY DEF Start, Insert, Check, Edit, Delete, DeleteMetadata, FindMetadata, UpsertMetadata, Fail, tables
<1>2. \A r2 \in Requests \ {r} :
        pc'[r2] = pc[r2] /\ call'[r2] = call[r2] /\ todo'[r2] = todo[r2] /\ ready'[r2] = ready[r2]
  BY DEF Start, Insert, Check, Edit, Delete, DeleteMetadata, FindMetadata, UpsertMetadata, Fail,
         Goto, TypeOK, jobs
<1>3. /\ pc'[r] = "ok" => call'[r].op \notin PublishOps
      /\ pc'[r] = "publishing" => todo'[r] = call'[r].ids
      /\ pc'[r] = "insert" => call'[r].op \in {"write", "writePublished"}
      /\ pc'[r] = "deleteMetadata" => call'[r].op = "delete"
      /\ pc'[r] \in {"find", "upsert"} => call'[r].op = "putMetadata"
  <2>1. CASE Start(r)
    <3>1. PICK c \in Calls :
            /\ c.op \in AllOps
            /\ call' = [call EXCEPT ![r] = c]
            /\ pc' = [pc EXCEPT ![r] = FirstStep(c.op)]
            /\ todo' = [todo EXCEPT ![r] = IF c.op = "publish" THEN c.ids ELSE {}]
      BY <2>1, ConstantsOK DEF Start, Goto
    <3>2. pc'[r] = FirstStep(c.op) /\ call'[r] = c /\ (c.op = "publish" => todo'[r] = c.ids)
      BY <3>1 DEF TypeOK
    <3> QED
      BY <3>1, <3>2 DEF FirstStep, AllOps, PublishOps
  <2>2. CASE Insert(r)
    BY <2>2 DEF Insert, Goto, TypeOK, OpsMatch, PublishOps
  <2>3. CASE Edit(r)
    BY <2>3 DEF Edit, Goto, TypeOK, PublishOps
  <2>4. CASE Check(r) \/ Delete(r) \/ DeleteMetadata(r) \/ FindMetadata(r) \/ UpsertMetadata(r) \/ Fail(r)
    BY <2>4 DEF Check, Delete, DeleteMetadata, FindMetadata, UpsertMetadata, Fail, Goto, TypeOK,
                OpsMatch, PublishOps
  <2> QED
    BY <2>1, <2>2, <2>3, <2>4
<1>4. Won(r)' = {}
  BY <1>3 DEF Won
<1>5. \A r2 \in Requests \ {r} : Won(r2)' = Won(r2)
  BY <1>2 DEF Won
<1>6. OpsMatch'
  BY <1>2, <1>3 DEF OpsMatch
<1> QED
  BY <1>1, <1>4, <1>5, <1>6, NothingWon

LEMMA StepIInv == IInv /\ [Next]_vars => IInv'
<1> SUFFICES ASSUME IInv, [Next]_vars PROVE IInv'
  OBVIOUS
<1> USE DEF IInv
<1>1. TypeOK'
  BY StepTypeOK
<1>2. CASE UNCHANGED vars
  BY <1>1, <1>2 DEF vars, OpsMatch, WonArePublished, WonOnce, Won
<1>3. CASE Next
  BY <1>1, <1>3, PublishingWins, OtherStepsWin DEF Next, Serve
<1> QED
  BY <1>2, <1>3

LEMMA InitIInv == Init => IInv
  BY InitTypeOK DEF Init, IInv, OpsMatch, WonArePublished, WonOnce, Won

(***************************************************************************)
(* A publication that answers success has published what it was asked for, *)
(* and is the only one that is told so.                                    *)
(***************************************************************************)
THEOREM PublicationsAcknowledged == Spec => [](OkMeansPublished /\ OnePublisher)
<1>1. IInv => OkMeansPublished /\ OnePublisher
  BY DEF IInv, WonArePublished, WonOnce, Won, OkMeansPublished, OnePublisher
<1> QED
  BY <1>1, InitIInv, StepIInv, PTL DEF Spec
=============================================================================
