-------------------------- MODULE MCPlanLifecycle --------------------------
(***************************************************************************)
(* PlanLifecycle for TLC: process starts and requests are interchangeable. *)
(***************************************************************************)
EXTENDS PlanLifecycle, TLC

ActorSymmetry == Permutations(Worker) \cup Permutations(Client)

=============================================================================
