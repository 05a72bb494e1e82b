----------------------------- MODULE MCTreeMove -----------------------------
(* Instances of TreeMove for TLC. *)
EXTENDS TreeMove, TLC

CONSTANTS w1, w2

Workers == {w1, w2}

(* Two faults and a change by a user with native renames, where a wrapper  *)
(* can be quarantined; two of these three otherwise.                       *)
Disturbances == mode = "native" \/ faults + tampers <= 2
=============================================================================
