--------------------------- MODULE MCQuarantineTx ---------------------------
(* Instances of QuarantineTx for TLC. *)
EXTENDS QuarantineTx, TLC

CONSTANTS w1, w2

Workers == {w1, w2}
=============================================================================
