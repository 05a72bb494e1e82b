------------------------ MODULE MCStorageOptimization ------------------------
(* Instances of StorageOptimization for TLC. *)
EXTENDS StorageOptimization, TLC

CONSTANTS w1, w2

Workers == {w1, w2}
=============================================================================
