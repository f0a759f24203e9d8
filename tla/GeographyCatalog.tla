-------------------------- MODULE GeographyCatalog --------------------------
(***************************************************************************)
(* What the geography service promises the services that depend on it      *)
(* (the policy service asks it which geographies are published): every     *)
(* geography is absent, a draft or published, every change of that status  *)
(* is one indivisible step, and nothing leaves the published status.       *)
(*                                                                         *)
(* GeographyLifecycle.tla models how the service keeps this promise with   *)
(* handlers that check in one SQL statement and act in another.            *)
(***************************************************************************)
CONSTANT Geographies

VARIABLE status

Statuses == {"absent", "draft", "published"}

Move(S, from, to) ==
  /\ \A g \in S : status[g] = from
  /\ status' = [g \in Geographies |-> IF g \in S THEN to ELSE status[g]]

(* One INSERT statement adds a set of drafts, or none of them. *)
Create(S)  == Move(S, "absent", "draft")
Publish(g) == Move({g}, "draft", "published")
Remove(g)  == Move({g}, "draft", "absent")

Init == status \in [Geographies -> {"absent", "draft"}]

Next ==
  \/ \E S \in SUBSET Geographies : Create(S)
  \/ \E g \in Geographies : Publish(g) \/ Remove(g)

Spec == Init /\ [][Next]_status

TypeOK == status \in [Geographies -> Statuses]
=============================================================================
