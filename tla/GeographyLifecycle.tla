------------------------- MODULE GeographyLifecycle -------------------------
(***************************************************************************)
(* The geography service: the rows of its two tables and the requests of   *)
(* the geography author API, several of them in flight at once.  Each      *)
(* action is what one request does between two awaits: one SQL statement   *)
(* on the shared database, and the guard its result is tested with.        *)
(***************************************************************************)
EXTENDS FiniteSets

CONSTANTS
  Geographies,    \* geography ids
  Shapes,         \* contents of a geography (name, geography_json, ...)
  Requests,       \* requests made to the service
  Ops,            \* the kinds of request the instance makes
  InitialDrafts   \* geographies already written when the instance starts

AllOps == {"write", "writePublished", "publish", "edit", "delete", "putMetadata"}

ASSUME ConstantsOK ==
  /\ Ops \subseteq AllOps
  /\ InitialDrafts \subseteq Geographies
  /\ Shapes # {}

VARIABLES
  geographies,    \* table geographies: the set of ids, see Row
  shape,          \* column geography_json, for the ids with a row
  published,      \* the ids whose publish_date is not NULL
  metadata,       \* table geography_metadata: "none", "shown" or "hidden"
  pc,             \* where each request is
  call,           \* what each request asked for
  todo,           \* geographies the request has to publish and has not checked
  ready           \* geographies it has checked and not yet published

vars == <<geographies, shape, published, metadata, pc, call, todo, ready>>
tables == <<geographies, shape, published, metadata>>
jobs == <<todo, ready>>

Calls == [op : AllOps \cup {"none"}, ids : SUBSET Geographies,
          shape : Shapes, hidden : BOOLEAN]
AnyShape == CHOOSE s \in Shapes : TRUE
NoCall == [op |-> "none", ids |-> {}, shape |-> AnyShape, hidden |-> FALSE]

Steps == {"idle", "insert", "publishing", "failing", "check", "act",
          "deleteMetadata", "find", "upsert", "ok", "error"}
Answered == {"ok", "error"}

Draft(g) == g \in geographies \ published

(***************************************************************************)
(* findGeographies without includeHidden: the LEFT JOIN drops the          *)
(* geographies whose metadata says they are hidden.                        *)
(***************************************************************************)
Found(g) == g \in geographies /\ metadata[g] # "hidden"

Goto(r, step) == pc' = [pc EXCEPT ![r] = step]

(***************************************************************************)
(* The requests.  Creating takes a set of new geographies, the other       *)
(* operations one geography.                                               *)
(***************************************************************************)
FirstStep(op) ==
  CASE op \in {"write", "writePublished"} -> "insert"
    [] op = "publish"                     -> "publishing"
    [] op \in {"edit", "delete"}          -> "check"
    [] op = "putMetadata"                 -> "find"

Start(r) ==
  /\ pc[r] = "idle"
  /\ \E c \in Calls :
       /\ c.op \in Ops
       /\ c.ids # {}
       /\ c.op \notin {"write", "writePublished"} => Cardinality(c.ids) = 1
       /\ c.op \notin {"write", "writePublished", "edit"} => c.shape = AnyShape
       /\ c.hidden => c.op = "putMetadata"
       /\ call' = [call EXCEPT ![r] = c]
       /\ Goto(r, FirstStep(c.op))
       /\ todo' = [todo EXCEPT ![r] = IF c.op = "publish" THEN c.ids ELSE {}]
  /\ UNCHANGED <<tables, ready>>

(* writeGeographies: one INSERT, refused as a whole when an id exists. *)
Insert(r) ==
  LET c == call[r] IN
  /\ pc[r] = "insert"
  /\ \/ /\ c.ids \cap geographies = {}
        /\ geographies' = geographies \cup c.ids
        /\ shape' = [g \in Geographies |-> IF g \in c.ids THEN c.shape ELSE shape[g]]
        /\ IF c.op = "writePublished"
           THEN Goto(r, "publishing") /\ todo' = [todo EXCEPT ![r] = c.ids]
           ELSE Goto(r, "ok") /\ UNCHANGED todo
     \/ /\ c.ids \cap geographies # {}
        /\ Goto(r, "error")
        /\ UNCHANGED <<geographies, shape, todo>>
  /\ UNCHANGED <<published, metadata, call, ready>>

(***************************************************************************)
(* publishGeography, once per id under a Promise.all: the first rejection  *)
(* settles the answer, the other ids carry on.  The two operators before   *)
(* Settle are mutants of it: one never answers after a rejection, the      *)
(* other lets the last id decide.                                          *)
(***************************************************************************)
SettleStuck(r, failed) ==
  LET rejected == failed \/ pc[r] = "failing" IN
  Goto(r, IF rejected THEN "failing"
          ELSE IF todo'[r] \cup ready'[r] # {} THEN "publishing" ELSE "ok")

SettleForgetful(r, failed) ==
  Goto(r, IF todo'[r] \cup ready'[r] # {} THEN "publishing"
          ELSE IF failed THEN "error" ELSE "ok")

Settle(r, failed) ==
  LET rejected == failed \/ pc[r] = "failing" IN
  Goto(r, IF todo'[r] \cup ready'[r] # {}
          THEN IF rejected THEN "failing" ELSE "publishing"
          ELSE IF rejected THEN "error" ELSE "ok")

CheckUnpublished(r, g) ==
  /\ pc[r] \in {"publishing", "failing"}
  /\ g \in todo[r]
  /\ todo' = [todo EXCEPT ![r] = @ \ {g}]
  /\ \/ /\ Found(g) /\ Draft(g)
        /\ ready' = [ready EXCEPT ![r] = @ \cup {g}]
        /\ Settle(r, FALSE)
     \/ /\ ~(Found(g) /\ Draft(g))
        /\ UNCHANGED ready
        /\ Settle(r, TRUE)
  /\ UNCHANGED <<tables, call>>

(* Mutant: the answer does not depend on the row the UPDATE returned. *)
SetPublishDateUnchecked(r, g) ==
  /\ pc[r] \in {"publishing", "failing"}
  /\ g \in ready[r]
  /\ ready' = [ready EXCEPT ![r] = @ \ {g}]
  /\ published' = IF Draft(g) THEN published \cup {g} ELSE published
  /\ UNCHANGED <<geographies, shape, metadata, call, todo>>
  /\ Settle(r, FALSE)

(* UPDATE ... WHERE publish_date IS NULL; no row returned is an error. *)
SetPublishDate(r, g) ==
  /\ pc[r] \in {"publishing", "failing"}
  /\ g \in ready[r]
  /\ ready' = [ready EXCEPT ![r] = @ \ {g}]
  /\ published' = IF Draft(g) THEN published \cup {g} ELSE published
  /\ UNCHANGED <<geographies, shape, metadata, call, todo>>
  /\ Settle(r, ~Draft(g))

(* editGeography and deleteGeography look the geography up first ... *)
Check(r) ==
  /\ pc[r] = "check"
  /\ Goto(r, IF \A g \in call[r].ids : Found(g) /\ Draft(g) THEN "act" ELSE "error")
  /\ UNCHANGED <<tables, call, jobs>>

(* Mutant: the UPDATE trusts the check made one await earlier. *)
EditUnguarded(r) ==
  /\ pc[r] = "act"
  /\ call[r].op = "edit"
  /\ \E g \in call[r].ids : shape' = [shape EXCEPT ![g] = call[r].shape]
  /\ Goto(r, "ok")
  /\ UNCHANGED <<geographies, published, metadata, call, jobs>>

(* ... and then UPDATE ... WHERE publish_date IS NULL; no row is an error. *)
Edit(r) ==
  /\ pc[r] = "act"
  /\ call[r].op = "edit"
  /\ \E g \in call[r].ids :
       \/ /\ Draft(g)
          /\ shape' = [shape EXCEPT ![g] = call[r].shape]
          /\ Goto(r, "ok")
       \/ /\ ~Draft(g)
          /\ Goto(r, "error")
          /\ UNCHANGED shape
  /\ UNCHANGED <<geographies, published, metadata, call, jobs>>

(* Mutant: the DELETE trusts the check made one await earlier. *)
DeleteUnguarded(r) ==
  /\ pc[r] = "act"
  /\ call[r].op = "delete"
  /\ \E g \in call[r].ids :
       /\ geographies' = geographies \ {g}
       /\ metadata' = [metadata EXCEPT ![g] = "none"]
  /\ Goto(r, "deleteMetadata")
  /\ UNCHANGED <<shape, published, call, jobs>>

(***************************************************************************)
(* DELETE ... WHERE publish_date IS NULL.  Nothing looks at the number of  *)
(* rows it deleted.  The foreign key of the metadata cascades.             *)
(***************************************************************************)
Delete(r) ==
  /\ pc[r] = "act"
  /\ call[r].op = "delete"
  /\ \E g \in call[r].ids :
       \/ /\ Draft(g)
          /\ geographies' = geographies \ {g}
          /\ metadata' = [metadata EXCEPT ![g] = "none"]
       \/ /\ ~Draft(g)
          /\ UNCHANGED <<geographies, metadata>>
  /\ Goto(r, "deleteMetadata")
  /\ UNCHANGED <<shape, published, call, jobs>>

DeleteMetadata(r) ==
  /\ pc[r] = "deleteMetadata"
  /\ \E g \in call[r].ids : metadata' = [metadata EXCEPT ![g] = "none"]
  /\ Goto(r, "ok")
  /\ UNCHANGED <<geographies, shape, published, call, jobs>>

(***************************************************************************)
(* PUT metadata: editGeographyMetadata looks for the geography and its     *)
(* metadata; when either is missing the API handler calls                  *)
(* writeGeographiesMetadata instead, which is the same upsert.             *)
(***************************************************************************)
FindMetadata(r) ==
  /\ pc[r] = "find"
  /\ Goto(r, "upsert")
  /\ UNCHANGED <<tables, call, jobs>>

UpsertMetadata(r) ==
  /\ pc[r] = "upsert"
  /\ \E g \in call[r].ids :
       \/ /\ g \in geographies
          /\ metadata' = [metadata EXCEPT ![g] = IF call[r].hidden THEN "hidden" ELSE "shown"]
          /\ Goto(r, "ok")
       \/ /\ g \notin geographies
          /\ Goto(r, "error")
          /\ UNCHANGED metadata
  /\ UNCHANGED <<geographies, shape, published, call, jobs>>

(***************************************************************************)
(* The process dies, or a statement fails, with the request in flight: the *)
(* request ends where it is and what it has committed stays.               *)
(***************************************************************************)
Fail(r) ==
  /\ pc[r] \notin Answered \cup {"idle"}
  /\ Goto(r, "error")
  /\ todo' = [todo EXCEPT ![r] = {}]
  /\ ready' = [ready EXCEPT ![r] = {}]
  /\ UNCHANGED <<tables, call>>

Init ==
  /\ geographies = InitialDrafts
  /\ shape = [g \in Geographies |-> AnyShape]
  /\ published = {}
  /\ metadata = [g \in Geographies |-> "none"]
  /\ pc = [r \in Requests |-> "idle"]
  /\ call = [r \in Requests |-> NoCall]
  /\ todo = [r \in Requests |-> {}]
  /\ ready = [r \in Requests |-> {}]

Publishing(r) == \E g \in Geographies : CheckUnpublished(r, g) \/ SetPublishDate(r, g)

Serve(r) ==
  \/ Insert(r) \/ Publishing(r)
  \/ Check(r) \/ Edit(r) \/ Delete(r) \/ DeleteMetadata(r)
  \/ FindMetadata(r) \/ UpsertMetadata(r)

Next == \E r \in Requests : Start(r) \/ Serve(r) \/ Fail(r)

(* The event loop runs every continuation whose statement has returned. *)
Fairness == \A r \in Requests : WF_vars(Serve(r))

Spec == Init /\ [][Next]_vars
FairSpec == Spec /\ Fairness
-----------------------------------------------------------------------------
TypeOK ==
  /\ geographies \in SUBSET Geographies
  /\ shape \in [Geographies -> Shapes]
  /\ published \in SUBSET geographies
  /\ metadata \in [Geographies -> {"none", "shown", "hidden"}]
  /\ pc \in [Requests -> Steps]
  /\ call \in [Requests -> Calls]
  /\ todo \in [Requests -> SUBSET Geographies]
  /\ ready \in [Requests -> SUBSET Geographies]

(***************************************************************************)
(* A published geography keeps its row and its content, whatever edits,    *)
(* deletes and publications were checked before it was published and run   *)
(* after ("Cannot edit published Geography").                              *)
(***************************************************************************)
PublishedFrozen ==
  [][\A g \in published : g \in published' /\ shape'[g] = shape[g]]_vars

(***************************************************************************)
(* A publication that answers success has published every geography it     *)
(* was asked for, also when another request got there between its check    *)
(* and its update.                                                         *)
(***************************************************************************)
PublishOps == {"publish", "writePublished"}
OkMeansPublished ==
  \A r \in Requests :
    pc[r] = "ok" /\ call[r].op \in PublishOps => call[r].ids \subseteq published

(***************************************************************************)
(* Of the requests that race to publish a geography at most one is told    *)
(* that it did.                                                            *)
(***************************************************************************)
OnePublisher ==
  \A r1, r2 \in Requests :
    /\ r1 # r2
    /\ pc[r1] = "ok" /\ call[r1].op \in PublishOps
    /\ pc[r2] = "ok" /\ call[r2].op \in PublishOps
    => call[r1].ids \cap call[r2].ids = {}

(***************************************************************************)
(* "Throws AlreadyPublishedError if publish date is not null": a delete    *)
(* does not carry on past its DELETE when the geography is published.      *)
(***************************************************************************)
DeleteRefusesPublished ==
  [][\A r \in Requests :
       pc[r] = "act" /\ pc'[r] = "deleteMetadata" => call[r].ids \cap published = {}]_vars

(* Every request that started is answered in the end. *)
EveryRequestAnswered ==
  \A r \in Requests : pc[r] # "idle" ~> pc[r] \in Answered

(***************************************************************************)
(* The service implements the catalog its clients rely on.                 *)
(***************************************************************************)
Status ==
  [g \in Geographies |-> IF g \notin geographies THEN "absent"
                         ELSE IF g \in published THEN "published" ELSE "draft"]
Catalog == INSTANCE GeographyCatalog WITH status <- Status
ImplementsCatalog == Catalog!Spec
=============================================================================
