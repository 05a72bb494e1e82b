--------------------------- MODULE MCWorkflowPlans ---------------------------
(* Workflows of a deduplication and an advanced organizer; beside their behaviours,  *)
(* initial states without a successor put workflows of mode "file" with the files of *)
(* two or three candidates, and perhaps a file that is none, before PathGraph, and   *)
(* directory trees before BatchUtilities.                                            *)
EXTENDS WorkflowPlans, PathGraph, TLC
CONSTANTS u1, j1, scan, tidy, d1, d2, a, b, c
Utilities == INSTANCE UtilitySamples
ModeOf == (scan :> "dedupe" @@ tidy :> "advanced")

VARIABLE sample  \* a workflow of mode "file" with its files, a tree for a utility, or None

Replace(x, y) == Rename([n \in Name |-> IF n = x THEN y ELSE n])
Shift == Rename([n \in Name |-> CASE n = a -> b [] n = b -> c [] OTHER -> n])
Swap == Rename([n \in Name |-> CASE n = a -> b [] n = b -> a [] OTHER -> n])
Actions == {Replace(x, y) : x, y \in Name} \cup {Shift, Swap} \cup {Move(d) : d \in Dir} \cup {Touch, Quarantine}
Workflows == {steps \in UNION {[1..k -> Actions] : k \in 1..2} : Grammatical(steps)}
Placed(n, places) == {file \in [1..n -> places] : \A i, j \in 1..n : i # j => file[i] # file[j]}
FileSamples == [kind : {"file"}, steps : Workflows, file : Placed(2, Path), others : {{}, {<<d1, c>>}}]
            \cup [kind : {"file"}, steps : Workflows, file : Placed(3, {d1} \X Name), others : {{}}]
Proper(s) == \A i \in DOMAIN s.file : s.file[i] \notin s.others

MCInit == Init /\ sample \in {None} \cup {s \in FileSamples : Proper(s)} \cup Utilities!Samples
MCNext == sample = None /\ Next /\ UNCHANGED sample
MCSpec == MCInit /\ [][MCNext]_<<vars, sample>> /\ Fairness

(* Whatever order the path graph accepts, a plan can execute to its end without      *)
(* overwriting a file or missing one, and it leaves every candidate where the        *)
(* preview said (resolve_ordered_operations).                                        *)
OrderIsExecutable ==
  sample # None => (sample.kind = "file" => ExecutableFor(sample.file, sample.others, sample.steps))

(* Whatever a batch utility proposes can be carried out in that order on the tree it  *)
(* was compiled from, even if the tree changed while it read; a quarantine leaves     *)
(* every directory a file, the plan of a flattening empties the wrappers, and a       *)
(* removal leaves no empty directory (compile_batch_utility_preview).                 *)
UtilityPlanIsExecutable == sample # None => (sample.kind # "file" => Utilities!Sound(sample))

\* Four edits, or one and a change of the inputs.
Disturbances == edits + 3 * drifts <= 4
=============================================================================
