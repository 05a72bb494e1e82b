--------------------------- MODULE ExclusiveLease ---------------------------
(***************************************************************************)
(* What the task_lock row promises to the workers, without a clock: who    *)
(* owns the lease, and whether it is live.  WorkerLease implements it with *)
(* timestamps; TaskQueue builds on it.                                     *)
(***************************************************************************)
CONSTANTS Worker, None

VARIABLE lock   \* the owner, and whether its age is within the timeout

Init == lock = [owner |-> None, live |-> FALSE]

(* A live lease of another worker cannot be taken.                         *)
Take(w) == /\ lock.owner \in {None, w} \/ ~lock.live
           /\ lock' = [owner |-> w, live |-> TRUE]

Lapse == lock.live /\ lock' = [lock EXCEPT !.live = FALSE]

(* A lapsed lease may come back to life, but only for the same owner.      *)
Revive == lock.owner # None /\ ~lock.live /\ lock' = [lock EXCEPT !.live = TRUE]

Next == (\E w \in Worker : Take(w)) \/ Lapse \/ Revive

Spec == Init /\ [][Next]_lock

=============================================================================
