-------------------------- MODULE WriteAheadDelete --------------------------
(***************************************************************************)
(* What every journalled permanent deletion promises: a name is given up   *)
(* only after the intent to give up this very name is durable, and the     *)
(* deletion is closed once, when every name was intended and none is left. *)
(* The users of the directories may do as they please, and are counted.    *)
(***************************************************************************)
EXTENDS Naturals

VARIABLES names,     \* the names the deletion is about
          present,   \* those that still lead to the file to delete
          intended,  \* those with a durable intent
          closed,    \* whether the deletion is recorded as complete
          touched    \* how often users have meddled

vars == <<names, present, intended, closed, touched>>

Init == present = names /\ intended = {} /\ closed = FALSE /\ touched = 0

Intend(n) == n \in names /\ ~closed /\ intended' = intended \cup {n} /\ UNCHANGED <<names, present, closed, touched>>

Remove(n) == n \in intended /\ present' = present \ {n} /\ UNCHANGED <<names, intended, closed, touched>>

Close == /\ ~closed /\ intended = names /\ present = {}
         /\ closed' = TRUE
         /\ UNCHANGED <<names, present, intended, touched>>

\* A user replaces or removes a file, or changes what is known of it.
Touch(n) ==
    present' \in {present, present \ {n}} /\ touched' = touched + 1 /\ UNCHANGED <<names, intended, closed>>

Next == (\E n \in names : Intend(n) \/ Remove(n) \/ Touch(n)) \/ Close

Spec == Init /\ [][Next]_vars
=============================================================================
