------------------------- MODULE MCSchedulerDispatch -------------------------
(* Instances of SchedulerDispatch for TLC. *)
EXTENDS SchedulerDispatch, TLC

CONSTANTS w1, w2, s1, s2

Workers == {w1, w2}
Schedules == {s1, s2}
OneSchedule == {s1}

EveryMinute == {Minutes}

\* An update, a run by hand, the deletion of a job and a fault: two of these.
Updates == {s \in Edited : schedule[s].revision > 1}
ByHand == {s \in Edited : runs[s][Manual].status /= "none"}
Deletions == {<<s, k>> \in Edited \X Key : runs[s][k].status = "dispatched" /\ runs[s][k].work = "none"}
Disturbances == Cardinality(Updates) + Cardinality(ByHand) + Cardinality(Deletions) + faults <= 2
=============================================================================
