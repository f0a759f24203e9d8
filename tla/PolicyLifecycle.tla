-------------------------- MODULE PolicyLifecycle --------------------------
(***************************************************************************)
(* The policy service: policies are written as drafts, edited, deleted and *)
(* published, and a published policy supersedes the policies it names.     *)
(* Requests run concurrently; an action is what one request does between   *)
(* two awaits, which is one SQL statement, one call of the geography       *)
(* service or one write to Kafka.  The geography service is the catalog of *)
(* GeographyCatalog.tla, which GeographyLifecycle.tla implements.          *)
(***************************************************************************)
EXTENDS Naturals, Sequences, Functions

CONSTANTS
  Policies, Rules, Geographies,
  Requests,       \* requests made to the service
  Bodies,         \* the policy bodies the requests carry
  Ops,            \* the kinds of request the instance makes
  InitialDrafts,  \* [id -> body] of the drafts the instance starts with
  UseKafka,       \* KAFKA_HOST is set
  Lead,           \* TWENTY_MINUTES plus the fudge factor, in clock ticks
  MaxTime,        \* bound of the clock
  None

AllOps == {"write", "edit", "delete", "publish", "intent", "metadata"}

(* What policy_json and start_date hold, as far as the service looks at it. *)
(* prev_policies is an array that may name a policy twice.                 *)
Body == [rules : SUBSET Rules, geographies : SUBSET Geographies,
         prev : Seq(Policies), start : Nat]

ASSUME ConstantsOK ==
  /\ Ops \subseteq AllOps
  /\ Bodies \subseteq Body
  /\ Policies # {} /\ Bodies # {}
  /\ DOMAIN InitialDrafts \subseteq Policies
  /\ \A p \in DOMAIN InitialDrafts : InitialDrafts[p] \in Body
  /\ UseKafka \in BOOLEAN
  /\ Lead \in Nat
  /\ MaxTime \in Nat
  /\ None \notin Requests \cup Nat

VARIABLES
  policies,    \* table policies: the set of ids with a row
  body,        \* columns policy_json and start_date
  published,   \* column published_date, None for NULL
  superseded,  \* columns superseded_by and superseded_at, written together
  metadata,    \* table policy_metadata: the set of ids with a row
  lock,        \* the request whose open transaction updated the row
  topic,       \* messages on the Kafka topic "policy"
  status,      \* the geographies, as the geography service reports them
  clock,       \* now()
  pc, call,    \* where each request is, and what it asked for
  stamp,       \* its published_date argument
  seen,        \* the body it read, later the body its UPDATE returned
  todo,        \* rule ids it has still to look up
  prevs        \* its unsettled calls of updatePolicySupersededBy

table == <<policies, body, published, superseded, metadata>>
world == <<topic, status, clock>>
locals == <<stamp, seen, todo, prevs>>
vars == <<table, lock, world, pc, call, locals>>

Catalog == INSTANCE GeographyCatalog

Entries == [by : Policies, at : Nat]
Messages == [id : Policies, body : Body, published : Nat]
(* A call for the n-th previous policy, with the superseded columns it read. *)
Promises == [n : Nat, id : Policies, copy : Seq(Entries) \cup {None}]
Calls == [op : AllOps \cup {"none"}, id : Policies, body : Body]
Steps == {"idle", "rules", "insert", "insertMetadata", "readPolicy", "geographies",
          "isPublished", "readDraft", "update", "delete", "stream", "commit",
          "supersede", "rejected", "readMetadata", "updateMetadata", "ok", "error"}
Answered == {"ok", "error"}

Draft(p) == p \in policies /\ published[p] = None
Published(p) == p \in policies /\ published[p] # None
AnyBody == CHOOSE b \in Bodies : TRUE
AnyPolicy == CHOOSE p \in Policies : TRUE

Goto(r, step) == pc' = [pc EXCEPT ![r] = step]
(* A handler that goes on when ok holds and answers an error when not. *)
GotoIf(r, ok, step) == Goto(r, IF ok THEN step ELSE "error")

(* An UPDATE or DELETE waits for the transaction that has updated the row. *)
Unlocked(p) == lock[p] = None

(***************************************************************************)
(* Requests.  An intent brings ids of its own (uuid()) and moves its start *)
(* date when that is less than Lead away (translateIntentToPolicy).  The   *)
(* author API stamps a publication with now() when it calls the service.   *)
(***************************************************************************)
FirstStep(op) ==
  CASE op \in {"write", "intent"} -> "rules"
    [] op \in {"edit", "delete"}  -> "isPublished"
    [] op = "publish"             -> "readPolicy"
    [] op = "metadata"            -> "readMetadata"

Translated(b) == [b EXCEPT !.prev = << >>, !.start = IF @ < clock + Lead THEN clock + Lead ELSE @]

FreshIds(p, b) ==
  /\ p \notin policies
  /\ \A q \in policies : body[q].rules \cap b.rules = {}
  /\ \A r \in Requests : pc[r] # "idle" => call[r].id # p /\ call[r].body.rules \cap b.rules = {}

Start(r) ==
  /\ pc[r] = "idle"
  /\ \E op \in Ops, p \in Policies, b \in Bodies :
       LET c == [op |-> op, id |-> p, body |-> IF op = "intent" THEN Translated(b) ELSE b] IN
       /\ op = "intent" => FreshIds(p, b)
       /\ op \notin {"write", "edit", "intent"} => b = AnyBody
       /\ call' = [call EXCEPT ![r] = c]
       /\ todo' = [todo EXCEPT ![r] = IF op \in {"write", "intent"} THEN c.body.rules ELSE {}]
       /\ Goto(r, FirstStep(op))
  /\ stamp' = [stamp EXCEPT ![r] = clock]
  /\ UNCHANGED <<table, lock, world, seen, prevs>>

(***************************************************************************)
(* writePolicy: throwIfRulesAlreadyExist asks for the policies that hold   *)
(* each rule, one query per rule; then the INSERT, refused when the id     *)
(* exists.                                                                 *)
(***************************************************************************)
LookUpRule(r) ==
  /\ pc[r] = "rules"
  /\ \E x \in todo[r] :
       \/ /\ \A p \in policies \ {call[r].id} : x \notin body[p].rules
          /\ todo' = [todo EXCEPT ![r] = @ \ {x}]
          /\ UNCHANGED pc
       \/ /\ \E p \in policies \ {call[r].id} : x \in body[p].rules
          /\ Goto(r, "error")
          /\ UNCHANGED todo
  /\ UNCHANGED <<table, lock, world, call, stamp, seen, prevs>>

RulesAreNew(r) == pc[r] = "rules" /\ todo[r] = {}

Insert(r) ==
  LET c == call[r] IN
  /\ RulesAreNew(r)
  /\ c.op \in {"write", "intent"}
  /\ \/ /\ c.id \notin policies
        /\ policies' = policies \cup {c.id}
        /\ body' = [body EXCEPT ![c.id] = c.body]
        /\ published' = [published EXCEPT ![c.id] = None]
        /\ superseded' = [superseded EXCEPT ![c.id] = << >>]
        /\ Goto(r, IF c.op = "intent" THEN "insertMetadata" ELSE "ok")
     \/ /\ c.id \in policies
        /\ Goto(r, "error")
        /\ UNCHANGED <<policies, body, published, superseded>>
  /\ UNCHANGED <<metadata, lock, world, call, locals>>

(* writePolicyMetadata: primary key and foreign key are policy_id.  An     *)
(* intent goes on to publish what it has just written, stamped now().      *)
InsertMetadata(r) ==
  LET c == call[r] IN
  /\ pc[r] = "insertMetadata"
  /\ \/ /\ c.id \in policies \ metadata
        /\ metadata' = metadata \cup {c.id}
        /\ Goto(r, IF c.op = "intent" THEN "isPublished" ELSE "ok")
     \/ /\ c.id \notin policies \ metadata
        /\ Goto(r, "error")
        /\ UNCHANGED metadata
  /\ stamp' = [stamp EXCEPT ![r] = clock]
  /\ UNCHANGED <<policies, body, published, superseded, lock, world, call,
                 seen, todo, prevs>>

(* PUT metadata: updatePolicyMetadata, or writePolicyMetadata on NotFound. *)
ReadMetadata(r) ==
  /\ pc[r] = "readMetadata"
  /\ Goto(r, IF call[r].id \in metadata THEN "updateMetadata" ELSE "insertMetadata")
  /\ UNCHANGED <<table, lock, world, call, locals>>

UpdateMetadata(r) ==
  /\ pc[r] = "updateMetadata"
  /\ GotoIf(r, call[r].id \in metadata, "ok")
  /\ UNCHANGED <<table, lock, world, call, locals>>

(***************************************************************************)
(* editPolicy, deletePolicy and publishPolicy begin with isPolicyPublished *)
(* and, but for the delete, with a query for the draft.                    *)
(***************************************************************************)
IsPolicyPublished(r) ==
  /\ pc[r] = "isPublished"
  /\ GotoIf(r, Draft(call[r].id), IF call[r].op = "delete" THEN "delete" ELSE "readDraft")
  /\ UNCHANGED <<table, lock, world, call, locals>>

ReadDraft(r) ==
  LET p == call[r].id IN
  /\ pc[r] = "readDraft"
  /\ \/ /\ call[r].op = "edit"
        /\ GotoIf(r, Draft(p), "rules")
        /\ todo' = [todo EXCEPT ![r] = call[r].body.rules]
     \/ /\ call[r].op \in {"publish", "intent"}
        /\ GotoIf(r, Draft(p) /\ body[p].start >= stamp[r], "update")
        /\ UNCHANGED todo
  /\ UNCHANGED <<table, lock, world, call, stamp, seen, prevs>>

(* Mutant: the UPDATE of an edit without published_date IS NULL. *)
EditUnguarded(r) ==
  LET p == call[r].id IN
  /\ RulesAreNew(r)
  /\ call[r].op = "edit"
  /\ Unlocked(p)
  /\ GotoIf(r, p \in policies, "ok")
  /\ body' = IF p \in policies THEN [body EXCEPT ![p] = call[r].body] ELSE body
  /\ UNCHANGED <<policies, published, superseded, metadata, lock, world, call, locals>>

(* UPDATE ... WHERE published_date IS NULL; no row returned is an error. *)
Edit(r) ==
  LET p == call[r].id IN
  /\ RulesAreNew(r)
  /\ call[r].op = "edit"
  /\ Unlocked(p)
  /\ GotoIf(r, Draft(p), "ok")
  /\ body' = IF Draft(p) THEN [body EXCEPT ![p] = call[r].body] ELSE body
  /\ UNCHANGED <<policies, published, superseded, metadata, lock, world, call, locals>>

(* Mutant: the metadata stays behind when its policy is deleted. *)
DeleteLeavesMetadata(r) ==
  LET p == call[r].id IN
  /\ pc[r] = "delete"
  /\ Unlocked(p)
  /\ GotoIf(r, Draft(p), "ok")
  /\ policies' = IF Draft(p) THEN policies \ {p} ELSE policies
  /\ UNCHANGED <<body, published, superseded, metadata, lock, world, call, locals>>

(* DELETE ... WHERE published_date IS NULL; the metadata goes with the row. *)
Delete(r) ==
  LET p == call[r].id IN
  /\ pc[r] = "delete"
  /\ Unlocked(p)
  /\ GotoIf(r, Draft(p), "ok")
  /\ policies' = IF Draft(p) THEN policies \ {p} ELSE policies
  /\ metadata' = IF Draft(p) THEN metadata \ {p} ELSE metadata
  /\ UNCHANGED <<body, published, superseded, lock, world, call, locals>>

(***************************************************************************)
(* publishPolicy of the provider: read the policy, ask for its geographies, *)
(* and hand its id to publishPolicy of the repository.                     *)
(***************************************************************************)
Awaited(prev) == {[n |-> i, id |-> prev[i], copy |-> None] : i \in DOMAIN prev}

ReadPolicy(r) ==
  LET p == call[r].id IN
  /\ pc[r] = "readPolicy"
  /\ GotoIf(r, p \in policies, "geographies")
  /\ seen' = [seen EXCEPT ![r] = IF p \in policies THEN body[p] ELSE @]
  /\ prevs' = [prevs EXCEPT ![r] = IF p \in policies THEN Awaited(body[p].prev) ELSE @]
  /\ UNCHANGED <<table, lock, world, call, stamp, todo>>

(* Mutant: a geography only has to exist. *)
CheckGeographiesExist(r) ==
  /\ pc[r] = "geographies"
  /\ GotoIf(r, \A g \in seen[r].geographies : status[g] # "absent", "isPublished")
  /\ UNCHANGED <<table, lock, world, call, locals>>

CheckGeographies(r) ==
  /\ pc[r] = "geographies"
  /\ GotoIf(r, \A g \in seen[r].geographies : status[g] = "published", "isPublished")
  /\ UNCHANGED <<table, lock, world, call, locals>>

(* Mutant: the UPDATE of a publication without published_date IS NULL. *)
BeginPublishUnguarded(r) ==
  LET p == call[r].id IN
  /\ pc[r] = "update"
  /\ Unlocked(p)
  /\ GotoIf(r, p \in policies, "stream")
  /\ lock' = IF p \in policies THEN [lock EXCEPT ![p] = r] ELSE lock
  /\ seen' = [seen EXCEPT ![r] = IF p \in policies THEN body[p] ELSE @]
  /\ UNCHANGED <<table, world, call, stamp, todo, prevs>>

(* Mutant: what is streamed is the policy read before the transaction. *)
BeginPublishStale(r) ==
  LET p == call[r].id IN
  /\ pc[r] = "update"
  /\ Unlocked(p)
  /\ GotoIf(r, Draft(p), "stream")
  /\ lock' = IF Draft(p) THEN [lock EXCEPT ![p] = r] ELSE lock
  /\ UNCHANGED <<table, world, call, locals>>

(***************************************************************************)
(* The transaction: UPDATE ... WHERE published_date IS NULL, then Kafka,   *)
(* then the commit.  Until the commit the row is locked and other requests *)
(* read it as it was.                                                      *)
(***************************************************************************)
BeginPublish(r) ==
  LET p == call[r].id IN
  /\ pc[r] = "update"
  /\ Unlocked(p)
  /\ GotoIf(r, Draft(p), "stream")
  /\ lock' = IF Draft(p) THEN [lock EXCEPT ![p] = r] ELSE lock
  /\ seen' = [seen EXCEPT ![r] = IF Draft(p) THEN body[p] ELSE @]
  /\ UNCHANGED <<table, world, call, stamp, todo, prevs>>

Message(r) == [id |-> call[r].id, body |-> seen[r], published |-> stamp[r]]

WriteStream(r) ==
  /\ pc[r] = "stream"
  /\ topic' = IF UseKafka THEN topic \cup {Message(r)} ELSE topic
  /\ Goto(r, "commit")
  /\ UNCHANGED <<table, lock, status, clock, call, locals>>

Commit(r) ==
  LET p == call[r].id IN
  /\ pc[r] = "commit"
  /\ published' = [published EXCEPT ![p] = stamp[r]]
  /\ lock' = [lock EXCEPT ![p] = None]
  /\ Goto(r, IF prevs[r] = {} THEN "ok" ELSE "supersede")
  /\ UNCHANGED <<policies, body, superseded, metadata, world, call, stamp, seen, todo, prevs>>

(***************************************************************************)
(* updatePolicySupersededBy, once per entry of prev_policies under a       *)
(* Promise.all: read the row, append to what was read, write it back.  The *)
(* first rejection settles the answer, the others carry on.                *)
(***************************************************************************)
(* Mutant: the answer waits for ever once a previous policy is rejected. *)
SettleStuck(r, t, failed) ==
  /\ prevs' = [prevs EXCEPT ![r] = @ \ {t}]
  /\ Goto(r, IF failed \/ pc[r] = "rejected" THEN "rejected"
             ELSE IF prevs[r] = {t} THEN "ok" ELSE "supersede")

Settle(r, t, failed) ==
  /\ prevs' = [prevs EXCEPT ![r] = @ \ {t}]
  /\ Goto(r, IF failed \/ pc[r] = "rejected"
             THEN IF prevs[r] = {t} THEN "error" ELSE "rejected"
             ELSE IF prevs[r] = {t} THEN "ok" ELSE "supersede")

Superseding(r) == pc[r] \in {"supersede", "rejected"}

ReadSuperseded(r, t) ==
  /\ Superseding(r)
  /\ t.copy = None
  /\ \/ /\ t.id \in policies
        /\ prevs' = [prevs EXCEPT ![r] = (@ \ {t}) \cup {[t EXCEPT !.copy = superseded[t.id]]}]
        /\ UNCHANGED pc
     \/ /\ t.id \notin policies
        /\ Settle(r, t, TRUE)
  /\ UNCHANGED <<table, lock, world, call, stamp, seen, todo>>

(* Mutant: a policy counts as superseded from the publication on. *)
WriteSupersededAtPublication(r, t) ==
  /\ Superseding(r)
  /\ t.copy # None
  /\ Unlocked(t.id)
  /\ superseded' = IF t.id \in policies
                   THEN [superseded EXCEPT ![t.id] =
                           Append(t.copy, [by |-> call[r].id, at |-> stamp[r]])]
                   ELSE superseded
  /\ Settle(r, t, t.id \notin policies)
  /\ UNCHANGED <<policies, body, published, metadata, lock, world, call,
                 stamp, seen, todo>>

WriteSuperseded(r, t) ==
  /\ Superseding(r)
  /\ t.copy # None
  /\ Unlocked(t.id)
  /\ superseded' = IF t.id \in policies
                   THEN [superseded EXCEPT ![t.id] =
                           Append(t.copy, [by |-> call[r].id, at |-> seen[r].start])]
                   ELSE superseded
  /\ Settle(r, t, t.id \notin policies)
  /\ UNCHANGED <<policies, body, published, metadata, lock, world, call,
                 stamp, seen, todo>>

(***************************************************************************)
(* The process dies, or a statement, the RPC or Kafka fails: the request   *)
(* ends, an open transaction is rolled back, what was committed and what   *)
(* Kafka received stays.                                                   *)
(***************************************************************************)
Fail(r) ==
  /\ pc[r] \notin Answered \cup {"idle"}
  /\ Goto(r, "error")
  /\ lock' = [p \in Policies |-> IF lock[p] = r THEN None ELSE lock[p]]
  /\ UNCHANGED <<table, world, call, locals>>

Tick ==
  /\ clock < MaxTime
  /\ clock' = clock + 1
  /\ UNCHANGED <<table, lock, topic, status, pc, call, locals>>

GeographyStep ==
  /\ Catalog!Next
  /\ UNCHANGED <<table, lock, topic, clock, pc, call, locals>>

Init ==
  /\ policies = DOMAIN InitialDrafts
  /\ body = [p \in Policies |-> IF p \in DOMAIN InitialDrafts THEN InitialDrafts[p] ELSE AnyBody]
  /\ published = [p \in Policies |-> None]
  /\ superseded = [p \in Policies |-> << >>]
  /\ metadata = {}
  /\ lock = [p \in Policies |-> None]
  /\ topic = {}
  /\ Catalog!Init
  /\ clock = 0
  /\ pc = [r \in Requests |-> "idle"]
  /\ call = [r \in Requests |-> [op |-> "none", id |-> AnyPolicy, body |-> AnyBody]]
  /\ stamp = [r \in Requests |-> 0]
  /\ seen = [r \in Requests |-> AnyBody]
  /\ todo = [r \in Requests |-> {}]
  /\ prevs = [r \in Requests |-> {}]

Publishing(r) ==
  \/ ReadPolicy(r) \/ CheckGeographies(r)
  \/ BeginPublish(r) \/ WriteStream(r) \/ Commit(r)
  \/ \E t \in prevs[r] : ReadSuperseded(r, t) \/ WriteSuperseded(r, t)

Serve(r) ==
  \/ LookUpRule(r) \/ Insert(r) \/ IsPolicyPublished(r) \/ ReadDraft(r)
  \/ Edit(r) \/ Delete(r)
  \/ InsertMetadata(r) \/ ReadMetadata(r) \/ UpdateMetadata(r)
  \/ Publishing(r)

Next ==
  \/ \E r \in Requests : Start(r) \/ Serve(r) \/ Fail(r)
  \/ Tick
  \/ GeographyStep

Spec == Init /\ [][Next]_vars

(***************************************************************************)
(* Continuations run when their await returns, and a statement that waits  *)
(* for a row lock runs when the transaction that holds it has ended.       *)
(***************************************************************************)
FairSpec == Spec /\ \A r \in Requests : WF_vars(Serve(r))
-----------------------------------------------------------------------------
TypeOK ==
  /\ policies \in SUBSET Policies
  /\ body \in [Policies -> Body]
  /\ published \in [Policies -> Nat \cup {None}]
  /\ superseded \in [Policies -> Seq(Entries)]
  /\ metadata \in SUBSET policies
  /\ lock \in [Policies -> Requests \cup {None}]
  /\ topic \in SUBSET Messages
  /\ Catalog!TypeOK
  /\ clock \in Nat
  /\ pc \in [Requests -> Steps]
  /\ call \in [Requests -> Calls]
  /\ stamp \in [Requests -> Nat]
  /\ seen \in [Requests -> Body]
  /\ todo \in [Requests -> SUBSET Rules]
  /\ prevs \in [Requests -> SUBSET Promises]

(***************************************************************************)
(* A published policy is never edited, deleted, published again or taken   *)
(* back ("will not edit or delete a published Policy"), however the checks *)
(* and the statements of the requests interleave.                          *)
(***************************************************************************)
PublishedFrozen ==
  [][\A p \in Policies : Published(p) =>
       /\ Published(p)'
       /\ body'[p] = body[p]
       /\ published'[p] = published[p]]_vars

(***************************************************************************)
(* Subscribers hear of every published policy, with the body and the date  *)
(* it was published with: Kafka is written before the commit, while the    *)
(* row is locked.                                                          *)
(***************************************************************************)
StreamHasPublished ==
  UseKafka => \A p \in Policies : Published(p) =>
    [id |-> p, body |-> body[p], published |-> published[p]] \in topic

(***************************************************************************)
(* What a policy records of its successors is true: each is published and  *)
(* starts when the record says the policy was superseded.                  *)
(***************************************************************************)
SupersessionAccurate ==
  \A q \in Policies : \A i \in DOMAIN superseded[q] :
    LET e == superseded[q][i] IN Published(e.by) /\ body[e.by].start = e.at

(* No policy is recorded twice as the successor of another.  A policy whose *)
(* prev_policies repeat an id breaks this: nothing refuses or drops the    *)
(* repetition (MCPolicySupersedeRace.cfg).                               *)
SupersededOnce ==
  \A q \in Policies : \A i, j \in DOMAIN superseded[q] :
    superseded[q][i].by = superseded[q][j].by => i = j

(***************************************************************************)
(* A publication that answers success is the one that published the        *)
(* policy: the date is its own, and no other request was told the same.    *)
(***************************************************************************)
PublishOps == {"publish", "intent"}
PublishAcknowledged ==
  \A r \in Requests : pc[r] = "ok" /\ call[r].op \in PublishOps =>
    /\ Published(call[r].id) /\ published[call[r].id] = stamp[r]
    /\ \A r2 \in Requests \ {r} :
         pc[r2] = "ok" /\ call[r2].op \in PublishOps => call[r2].id # call[r].id

(* Every request that started is answered in the end. *)
EveryRequestAnswered ==
  \A r \in Requests : pc[r] # "idle" ~> pc[r] \in Answered

(***************************************************************************)
(* "Only publish the policy if the geographies are successfully published  *)
(* first".                                                                 *)
(***************************************************************************)
GeographiesPublishedFirst ==
  \A p \in Policies : Published(p) =>
    \A g \in body[p].geographies : status[g] = "published"

(* "Policies cannot be published after their start_date". *)
PublishedBeforeStart ==
  \A p \in Policies : Published(p) => published[p] <= body[p].start

(* "ensures rules are unique when writing new policy". *)
RulesUnique ==
  \A p, q \in policies : p # q => body[p].rules \cap body[q].rules = {}

(***************************************************************************)
(* "publishing B turns it from 'draft' to 'active', and turns A to         *)
(* 'deactivated'": a publication that answers success has recorded itself  *)
(* with every policy its body says it supersedes.                          *)
(***************************************************************************)
SupersessionRecorded ==
  \A r \in Requests : pc[r] = "ok" /\ call[r].op = "publish" =>
    \A q \in Range(body[call[r].id].prev) \cap policies :
      \E i \in DOMAIN superseded[q] : superseded[q][i].by = call[r].id
=============================================================================
