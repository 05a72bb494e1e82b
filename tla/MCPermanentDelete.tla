-------------------------- MODULE MCPermanentDelete --------------------------
(* Instances of PermanentDelete for TLC. *)
EXTENDS PermanentDelete, TLC

CONSTANTS w1, w2, c1

Workers == {w1, w2}
Clerks == {c1}

\* Two faults, or one and a change by a user.
Disturbances == faults + tampers <= 2
=============================================================================
