---------------------------- MODULE MCTaskQueue ----------------------------
(***************************************************************************)
(* TaskQueue for TLC: workers are interchangeable process starts.          *)
(***************************************************************************)
EXTENDS TaskQueue, TLC

WorkerSymmetry == Permutations(Worker)

=============================================================================
