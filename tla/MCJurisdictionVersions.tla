------------------------ MODULE MCJurisdictionVersions ------------------------
(* Two jurisdictions; patches that rename, move or re-key one, now or at a *)
(* given time, and one that names the other jurisdiction.                  *)
EXTENDS JurisdictionVersions, TLC

CONSTANTS j1, j2, k1, k2, a1, a2, g1

MkBody(j, k, t) == [id |-> j, key |-> k, name |-> a1, geography |-> g1, at |-> t]
MkPatch(k, a, t) == [id |-> None, key |-> k, name |-> a, geography |-> None, at |-> t]

AnyBody == {{MkBody(j1, k1, None)}, {MkBody(j1, k1, 1), MkBody(j2, k2, 0)}, {MkBody(j1, k1, 0)}, {MkBody(j2, k1, None)}}
AnyPatch == {MkPatch(None, a, t) : a \in {a1, a2}, t \in {None} \cup Times}
              \cup {MkPatch(k2, None, None), [MkPatch(None, None, None) EXCEPT !.geography = g1],
                    [MkPatch(None, a2, None) EXCEPT !.id = j2]}

Symmetric == Permutations(Requests)
=============================================================================
