--------------------------- MODULE MCCrossStorage ---------------------------
(* Instances of CrossStorage for TLC. *)
EXTENDS CrossStorage, TLC

CONSTANTS w1, w2

Workers == {w1, w2}
=============================================================================
