------------------------ MODULE MCPolicyLifecycle ------------------------
(* Three policies and the bodies the requests of the runs carry.           *)
EXTENDS PolicyLifecycle, TLC

CONSTANTS p1, p2, p3, x1, x2, x3, g1, g2

MkBody(rules, geos, prev, start) ==
  [rules |-> rules, geographies |-> geos, prev |-> prev, start |-> start]

(* The drafts: p1 stands alone, p2 and p3 supersede it, also when there is *)
(* no p1: nothing asks whether prev_policies exist before the publication. *)
First  == MkBody({x1}, {g1}, << >>, 1)
Second == MkBody({x2}, {g1}, <<p1>>, 1)
Third  == MkBody({x3}, {g1}, <<p1, p1>>, 2)

(* prev_policies may repeat an id (policySchema).                          *)
Twice  == MkBody({x2}, {g1}, <<p1, p1>>, 1)

NoDrafts    == << >>
OneDraft    == p1 :> First
OneSuccessor == p2 :> Twice
ThreeDrafts == p1 :> First @@ p2 :> Second @@ p3 :> Third

(* What edits and new policies may hold. *)
FewBodies    == {First, MkBody({x2}, {g1}, <<p1>>, 0)}
MixedBodies  == {First, MkBody({x2}, {}, <<p1>>, 0)}
EditBodies   == {MkBody({x2}, {g2}, <<p1>>, 0), MkBody({x2}, {g1}, << >>, 1)}
LateBodies   == {MkBody({x1}, {g1}, << >>, 0)}
RuleBodies   == {MkBody({x1}, {}, << >>, 1)}

Symmetric == Permutations(Requests)
=============================================================================
