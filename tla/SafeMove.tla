------------------------------ MODULE SafeMove ------------------------------
(***************************************************************************)
(* What every transaction that moves a payload between places promises:    *)
(* the payload may be doubled, and a worker gives a copy of it up only     *)
(* while another one is left.  The users of the same directories may do as *)
(* they please, and what they do is counted.                               *)
(***************************************************************************)
EXTENDS Naturals, FiniteSets

CONSTANT Place

VARIABLES holders,  \* the places where the whole payload can be found
          touched   \* how often a user has changed a file at one of them

Init == holders \in (SUBSET Place) \ {{}} /\ touched = 0

\* A worker makes the payload appear in one more place, from a private copy if there is none.
Publish(p) == holders' = holders \cup {p} /\ UNCHANGED touched

\* A worker removes it from a place, and only if it is somewhere else too.
Retire(p) == /\ p \in holders
             /\ holders \ {p} /= {}
             /\ holders' = holders \ {p}
             /\ UNCHANGED touched

\* A user replaces or removes a file, a holder or not; that loss is theirs.
Touch(p) == holders' = holders \ {p} /\ touched' = touched + 1

Next == \E p \in Place : Publish(p) \/ Retire(p) \/ Touch(p)

Spec == Init /\ [][Next]_<<holders, touched>>
=============================================================================
