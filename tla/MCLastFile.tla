----------------------------- MODULE MCLastFile -----------------------------
(* Instances of LastFile for TLC: a root directory with two directories below it, one of them a scan root   *)
(* of its own, and two groups that share them.                                                              *)
EXTENDS LastFile, TLC

CONSTANTS root, left, right, f1, f2, f3, f4, g1, g2, p1, p2, w1, w2

Dirs == {root, left, right}
Tree == [d \in Dirs |-> {d, root}]
Files == {f1, f2, f3, f4}
Homes == [f \in Files |-> IF f \in {f1, f3} THEN left ELSE right]
Roots == [f \in Files |-> IF f = f3 THEN left ELSE root]
Groups == {g1, g2}
Members == [g \in Groups |-> IF g = g1 THEN {f1, f2} ELSE {f3, f4}]
Plans == {p1, p2}
OneDir == {right}
Workers == {w1, w2}

Symmetry == Permutations(Plans) \cup Permutations(Workers)
=============================================================================
