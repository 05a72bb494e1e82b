---------------------------- MODULE WorkflowPlans ----------------------------
(* Workflows and the draft plans made from them (app/workflows/service.py,       *)
(* app/workflows/scheduled_handler.py, rebuild_plan in app/service.py).  A        *)
(* workflow is a list of revisions, each a definition; users edit, archive and    *)
(* delete it.  A plan is drafted in two requests: a preview compiles a revision   *)
(* against what the program knows at that time and returns a digest, and          *)
(* generating a plan compiles again, without a transaction, compares the digest   *)
(* and then writes the draft in a second transaction that looks at the workflow    *)
(* once more.  A scheduled job does both with a revision it was pinned to, and a   *)
(* stale plan is rebuilt in the same two steps.                                   *)
(* What a definition compiles to is a value: the definition with the inputs that   *)
(* its mode reads, each of them a version.  How the operations of a workflow of    *)
(* mode "file" are ordered is in PathGraph.                                       *)
EXTENDS Naturals, Sequences, FiniteSets

CONSTANTS Definition,
          Mode,         \* the mode of each definition
          Id,           \* ids a workflow may have
          PlanId,
          Job,          \* jobs of schedules
          Client,       \* users with a preview before them
          MaxRevision,  \* bound on the revisions of a workflow
          MaxEdits,     \* bound on edits of workflows
          MaxDrifts,    \* bound on changes of the inputs
          None

Modes == {"file", "organizer", "advanced", "utility", "dedupe"}
Input == {"index", "policy", "files", "scan", "settings"}
Thread == Client \cup Job

ASSUME WorkflowAssumption ==
  /\ Mode \in [Definition -> Modes]
  /\ Id \subseteq Nat \ {0} /\ PlanId \subseteq Nat \ {0}
  /\ Client \cap Job = {} /\ None \notin Id \cup PlanId \cup Definition \cup Thread
  /\ MaxRevision \in Nat /\ MaxEdits \in Nat /\ MaxDrifts \in Nat

(* The rows of the tables, and what a definition compiles to.  "active" is frozen,  *)
(* ready, validating or executing, "partial" is partial, failed or completed; held  *)
(* is history: the plan has been a draft or active ever since it was made.          *)
PlanStatus == {"draft", "active", "partial", "stale"}
OperationsRow == [definition: Definition, inputs: UNION {[S -> 0..1] : S \in SUBSET Input}]
WorkflowRow == [archived: BOOLEAN, revisions: Seq(Definition)]
PlanRow == [workflow: Id, revision: Nat, operations: OperationsRow, status: PlanStatus, held: BOOLEAN,
            by: Thread, shown: OperationsRow, rebuilds: Definition \cup {None}]
JobRow == [status: {"absent"}]
     \cup [status: {"queued", "running", "completed", "failed"}, workflow: Id, revision: Nat \ {0},
            definition: Definition, action: {"preview", "draft"}]

ASSUME NoneAssumption == None \notin WorkflowRow /\ None \notin PlanRow

VARIABLES
  workflow,  \* the rows of workflows, each with its revisions
  plan,      \* the plans made from workflows
  live,      \* the index, the filter policy, the files, the scans, the settings
  job,       \* the jobs of schedules
  call,      \* what a client's request or a job's handler has got to
  edits, drifts,
  drafts,    \* history: drafts each job has made
  disturbed  \* history: jobs with a reason to fail
vars == <<workflow, plan, live, job, call, edits, drifts, drafts, disturbed>>
-----------------------------------------------------------------------------
(* Compiling.  Each mode reads its own inputs; an advanced organizer puts the      *)
(* removal of wrappers, if it finds any, before everything else.                  *)
FileInputs == {"index", "policy"}
OrganizerInputs == {"files", "policy"}
UtilityInputs == {"files"}
DedupeInputs == {"scan", "settings"}
Reads(d) == CASE Mode[d] = "file" -> FileInputs
              [] Mode[d] \in {"organizer", "advanced"} -> OrganizerInputs
              [] Mode[d] = "utility" -> UtilityInputs
              [] Mode[d] = "dedupe" -> DedupeInputs
Operations(d) == [definition |-> d, inputs |-> [i \in Reads(d) |-> live[i]]]
Wrappers(d) == Mode[d] = "advanced" /\ live["files"] = 1
\* Mutant of Digest: the digest of the definition alone.
DigestOfDefinition(id, r, d) == [workflow |-> id, revision |-> r, definition |-> d, inputs |-> << >>]
Digest(id, r, d) == [workflow |-> id, revision |-> r, definition |-> d, inputs |-> [i \in Reads(d) |-> live[i]]]

Current(id) == Len(workflow[id].revisions)
Usable(id) == workflow[id] # None /\ ~workflow[id].archived
HasRevision(id, r, d) == r \in 1..Current(id) /\ workflow[id].revisions[r] = d
(* A request names a revision or, with 0, means the current one.                   *)
Target(id, r) == IF r = 0 THEN Current(id) ELSE r

Exists(p) == plan[p] # None
NextId(id) == workflow[id] = None /\ \A i \in Id : workflow[i] # None => i < id
(* Ids of deleted plans are used again.  Users leave room for the drafts of the jobs, *)
(* a bound of the instance.                                                        *)
NewPlanId(p) == ~Exists(p) /\ \A q \in PlanId : q < p => Exists(q)
Room == Cardinality({p \in PlanId : Exists(p) /\ plan[p].by \in Client}) < Cardinality(PlanId) - Cardinality(Job)
Active(p) == plan[p].status \in {"draft", "active"}

Idle == [pc |-> "idle"]
Answer(t) == call' = [call EXCEPT ![t] = Idle]
Disturb(S) == disturbed' = disturbed \cup {j \in S : job[j].status \in {"queued", "running"}}
OnWorkflow(id) == {j \in Job : job[j].status # "absent" /\ job[j].workflow = id}

Init == /\ workflow = [id \in Id |-> None]
        /\ plan = [p \in PlanId |-> None]
        /\ live = [i \in Input |-> 0]
        /\ job = [j \in Job |-> [status |-> "absent"]]
        /\ call = [t \in Thread |-> Idle]
        /\ edits = 0 /\ drifts = 0
        /\ drafts = [j \in Job |-> 0] /\ disturbed = {}
-----------------------------------------------------------------------------
(* Editing workflows.  Every request is one transaction; ids of deleted rows are   *)
(* used again.                                                                    *)
Edit == edits < MaxEdits /\ edits' = edits + 1
NotEdit == UNCHANGED <<plan, live, job, call, drifts, drafts>>

Create(id, d) ==
  /\ Edit /\ NextId(id)
  /\ workflow' = [workflow EXCEPT ![id] = [archived |-> FALSE, revisions |-> <<d>>]]
  /\ NotEdit /\ UNCHANGED disturbed

AddRevision(id, d) ==
  /\ Edit /\ Usable(id) /\ Current(id) < MaxRevision
  /\ workflow' = [workflow EXCEPT ![id].revisions = Append(@, d)]
  /\ NotEdit /\ UNCHANGED disturbed
(* An update brings a definition or repeats the current one; a rollback repeats    *)
(* an earlier one.  Both name the current revision and are refused otherwise.      *)
Update(id, d) == AddRevision(id, d)
Rollback(id, r) == Usable(id) /\ r \in 1..Current(id) /\ AddRevision(id, workflow[id].revisions[r])

Archive(id) ==
  /\ Edit /\ Usable(id)
  /\ workflow' = [workflow EXCEPT ![id].archived = TRUE]
  /\ Disturb(OnWorkflow(id)) /\ NotEdit

DependentPlans(id) == {p \in PlanId : Exists(p) /\ plan[p].workflow = id /\ Active(p)}
PermanentDelete(id) ==
  /\ Edit /\ workflow[id] # None /\ workflow[id].archived /\ DependentPlans(id) = {}
  /\ workflow' = [workflow EXCEPT ![id] = None]
  /\ Disturb(OnWorkflow(id)) /\ NotEdit
-----------------------------------------------------------------------------
(* A preview, as a request and in the handler of a job.                           *)
Show(t, id, r) ==
  LET target == Target(id, r)
      d == workflow[id].revisions[target]
  IN call' = [call EXCEPT ![t] =
       [pc |-> "seen", workflow |-> id, revision |-> r, digest |-> Digest(id, target, d), shown |-> Operations(d)]]
PreviewWorkflow(c, id, r) ==
  /\ call[c].pc \in {"idle", "seen"} /\ Usable(id) /\ Target(id, r) \in 1..Current(id)
  /\ Show(c, id, r)
  /\ UNCHANGED <<workflow, plan, live, job, edits, drifts, drafts, disturbed>>

(* Phase A of generate_plan: compile again and compare.                           *)
Compiles(t) ==
  LET id == call[t].workflow
      target == Target(id, call[t].revision)
  IN /\ Usable(id) /\ target \in 1..Current(id)
     /\ Digest(id, target, workflow[id].revisions[target]) = call[t].digest
ReadAgain(t) ==
  LET id == call[t].workflow
      target == Target(id, call[t].revision)
      d == workflow[id].revisions[target]
  IN /\ Compiles(t)
     /\ call' = [call EXCEPT ![t] =
          [pc |-> IF Wrappers(d) THEN "wrappers" ELSE "compiled", workflow |-> id, revision |-> target,
           operations |-> Operations(d), shown |-> call[t].shown]]
(* The structural stage looks at the wrappers once more.                          *)
AsProposed(t) == live["files"] = call[t].operations.inputs["files"]
Stage(t) == AsProposed(t) /\ call' = [call EXCEPT ![t].pc = "compiled"]

GenerateRead(c) ==
  /\ call[c].pc = "seen" /\ ReadAgain(c)
  /\ UNCHANGED <<workflow, plan, live, job, edits, drifts, drafts, disturbed>>
GenerateStructural(c) ==
  /\ call[c].pc = "wrappers" /\ Stage(c)
  /\ UNCHANGED <<workflow, plan, live, job, edits, drifts, drafts, disturbed>>

(* Phase B: the draft is written if the revision is still what was compiled and,   *)
(* for duplicates, the scan is still the same.                                    *)
\* Mutant of SameRevision: the number of the revision is enough.
SameRevisionNumber(t) ==
  Usable(call[t].workflow) /\ call[t].revision \in 1..Current(call[t].workflow)
SameRevision(t) ==
  LET id == call[t].workflow IN
  Usable(id) /\ HasRevision(id, call[t].revision, call[t].operations.definition)
SameLineage(t) ==
  LET d == call[t].operations.definition IN
  Mode[d] = "dedupe" => live["scan"] = call[t].operations.inputs["scan"]
Draft(t, p, rebuilds) ==
  plan' = [plan EXCEPT ![p] =
    [workflow |-> call[t].workflow, revision |-> call[t].revision, operations |-> call[t].operations,
     status |-> "draft", held |-> TRUE, by |-> t, shown |-> call[t].shown, rebuilds |-> rebuilds]]
GenerateCommit(c, p) ==
  /\ call[c].pc = "compiled" /\ SameRevision(c) /\ SameLineage(c) /\ Room /\ NewPlanId(p)
  /\ Draft(c, p, None) /\ Answer(c)
  /\ UNCHANGED <<workflow, live, job, edits, drifts, drafts, disturbed>>

(* A request that is refused at one of its checks, or given up, changes nothing.   *)
GiveUp(c) ==
  /\ call[c].pc # "idle" /\ Answer(c)
  /\ UNCHANGED <<workflow, plan, live, job, edits, drifts, drafts, disturbed>>
-----------------------------------------------------------------------------
(* Rebuilding a stale plan from its metadata.                                     *)
Rebuildable(p) ==
  /\ Exists(p) /\ plan[p].status = "stale"
  /\ Mode[plan[p].operations.definition] \notin {"dedupe", "utility"}
  /\ Usable(plan[p].workflow)
  /\ HasRevision(plan[p].workflow, plan[p].revision, plan[p].operations.definition)
Recompiled(p) == Digest(plan[p].workflow, plan[p].revision, plan[p].operations.definition)
RebuildPreview(c, p) ==
  /\ call[c].pc \in {"idle", "seen"} /\ Rebuildable(p)
  /\ call' = [call EXCEPT ![c] =
       [pc |-> "stale", plan |-> p, digest |-> Recompiled(p), shown |-> Operations(plan[p].operations.definition)]]
  /\ UNCHANGED <<workflow, plan, live, job, edits, drifts, drafts, disturbed>>
RebuildRead(c) ==
  LET p == call[c].plan IN
  /\ call[c].pc = "stale" /\ Rebuildable(p) /\ Recompiled(p) = call[c].digest
  /\ call' = [call EXCEPT ![c] =
       [pc |-> "rebuilt", plan |-> p, metadata |-> plan[p].operations,
        workflow |-> plan[p].workflow, revision |-> plan[p].revision,
        operations |-> Operations(plan[p].operations.definition), shown |-> call[c].shown]]
  /\ UNCHANGED <<workflow, plan, live, job, edits, drifts, drafts, disturbed>>
StillStale(c) ==
  LET p == call[c].plan IN
  /\ Exists(p) /\ plan[p].status = "stale" /\ plan[p].operations = call[c].metadata
  /\ plan[p].workflow = call[c].workflow /\ plan[p].revision = call[c].revision
RebuildCommit(c, p) ==
  /\ call[c].pc = "rebuilt" /\ StillStale(c) /\ SameRevision(c) /\ Room /\ NewPlanId(p)
  /\ Draft(c, p, call[c].metadata.definition) /\ Answer(c)
  /\ UNCHANGED <<workflow, live, job, edits, drifts, drafts, disturbed>>
-----------------------------------------------------------------------------
(* Scheduled jobs.  The dispatcher pins a revision that is valid at that time;      *)
(* only previews are scheduled of utility workflows.                              *)
Enqueue(j, id, r, action) ==
  /\ job[j].status = "absent" /\ Usable(id) /\ r \in 1..Current(id)
  /\ action = "draft" => Mode[workflow[id].revisions[r]] # "utility"
  /\ job' = [job EXCEPT ![j] = [status |-> "queued", workflow |-> id, revision |-> r,
                                definition |-> workflow[id].revisions[r], action |-> action]]
  /\ UNCHANGED <<workflow, plan, live, call, edits, drifts, drafts, disturbed>>
Claim(j) ==
  /\ job[j].status = "queued" /\ \A k \in Job : job[k].status # "running"
  /\ job' = [job EXCEPT ![j].status = "running"]
  /\ call' = [call EXCEPT ![j] = [pc |-> "begun"]]
  /\ UNCHANGED <<workflow, plan, live, edits, drifts, drafts, disturbed>>

Fenced(j) == job[j].status = "running"
Handler(j, pc) == call[j].pc = pc /\ UNCHANGED <<workflow, live, edits, drifts, disturbed>>
Pinned(j) == Usable(job[j].workflow) /\ HasRevision(job[j].workflow, job[j].revision, job[j].definition)
AssertPinned(j) ==
  /\ Handler(j, "begun") /\ Pinned(j) /\ Fenced(j)
  /\ call' = [call EXCEPT ![j].pc = "pinned"]
  /\ UNCHANGED <<plan, job, drafts>>
\* Mutant of PreviewRevision: the current one, as for users who name none.
PreviewCurrent(j) == 0
PreviewRevision(j) == job[j].revision
Previewable(j) ==
  LET id == job[j].workflow IN
  /\ Usable(id) /\ Target(id, PreviewRevision(j)) \in 1..Current(id)
  /\ workflow[id].revisions[Target(id, PreviewRevision(j))] = job[j].definition
ShowPinned(j) ==
  /\ Handler(j, "pinned") /\ Previewable(j)
  /\ IF job[j].action = "preview"
     THEN call' = [call EXCEPT ![j] = [pc |-> "finished"]]
     ELSE Show(j, job[j].workflow, PreviewRevision(j))
  /\ UNCHANGED <<plan, job, drafts>>
GeneratePinned(j) ==
  /\ Handler(j, "seen") /\ Fenced(j) /\ ReadAgain(j)
  /\ UNCHANGED <<plan, job, drafts>>
StagePinned(j) ==
  /\ Handler(j, "wrappers") /\ Stage(j)
  /\ UNCHANGED <<plan, job, drafts>>
(* Nothing asserts the lease here.                                                *)
CommitPinned(j, p) ==
  /\ Handler(j, "compiled") /\ SameRevision(j) /\ SameLineage(j) /\ NewPlanId(p)
  /\ Draft(j, p, None)
  /\ call' = [call EXCEPT ![j] = [pc |-> "drafted", plan |-> p]]
  /\ drafts' = [drafts EXCEPT ![j] = @ + 1]
  /\ UNCHANGED job
IsDraft(p) == Exists(p) /\ plan[p].status = "draft"
ConfirmDraft(j) ==
  /\ Handler(j, "drafted") /\ IsDraft(call[j].plan) /\ Fenced(j)
  /\ call' = [call EXCEPT ![j] = [pc |-> "finished"]]
  /\ UNCHANGED <<plan, job, drafts>>
Finish(j) ==
  /\ Handler(j, "finished") /\ Fenced(j) /\ Answer(j)
  /\ job' = [job EXCEPT ![j].status = "completed"]
  /\ UNCHANGED <<plan, drafts>>

(* The handler raises: at a failed check, or because compiling failed.             *)
Refused(j) == \/ call[j].pc = "begun" /\ ~Pinned(j)
              \/ call[j].pc = "pinned" /\ ~Previewable(j)
              \/ call[j].pc = "seen" /\ ~Compiles(j)
              \/ call[j].pc = "wrappers" /\ ~AsProposed(j)
              \/ call[j].pc = "compiled" /\ ~(SameRevision(j) /\ SameLineage(j))
              \/ call[j].pc = "drafted" /\ ~IsDraft(call[j].plan)
Raise(j) ==
  /\ Fenced(j) /\ Answer(j)
  /\ job' = [job EXCEPT ![j].status = "failed"]
HandlerFails(j) == Refused(j) /\ Raise(j) /\ UNCHANGED <<workflow, plan, live, edits, drifts, drafts, disturbed>>
CompilingFails(j) ==
  /\ call[j].pc \in {"pinned", "seen"} /\ Raise(j) /\ Disturb({j})
  /\ UNCHANGED <<workflow, plan, live, edits, drifts, drafts>>

(* The worker dies, and whoever recovers from it, or from a worker that stalls,     *)
(* fails the job: the handler has no resume.  A stalled worker finds out at its     *)
(* next checkpoint.                                                               *)
Crash(j) ==
  /\ call[j].pc # "idle" /\ Answer(j) /\ Disturb({j})
  /\ UNCHANGED <<workflow, plan, live, job, edits, drifts, drafts>>
\* Mutant of Recover: a job whose draft is there is left to its worker.
RecoverWithoutDraft(j) ==
  /\ Fenced(j) /\ drafts[j] = 0
  /\ job' = [job EXCEPT ![j].status = "failed"] /\ Disturb({j})
  /\ UNCHANGED <<workflow, plan, live, call, edits, drifts, drafts>>
Recover(j) ==
  /\ Fenced(j)
  /\ job' = [job EXCEPT ![j].status = "failed"] /\ Disturb({j})
  /\ UNCHANGED <<workflow, plan, live, call, edits, drifts, drafts>>
Abandon(j) ==
  /\ call[j].pc # "idle" /\ ~Fenced(j) /\ Answer(j)
  /\ UNCHANGED <<workflow, plan, live, job, edits, drifts, drafts, disturbed>>
-----------------------------------------------------------------------------
(* Around them: the life of a plan (PlanLifecycle has it in full), and what the     *)
(* program knows of the file system.  A plan is frozen, validated, executed and      *)
(* validated again.  A validation writes its verdict (stale, partial or ready)       *)
(* whatever the plan under that id is by then, so any status may follow any other.  *)
Advance(p, status) ==
  /\ Exists(p) /\ status # plan[p].status
  /\ plan' = [plan EXCEPT ![p].status = status,
                          ![p].held = plan[p].held /\ status = "active"]
  /\ Disturb({plan[p].by} \cap Job)
  /\ UNCHANGED <<workflow, live, job, call, edits, drifts, drafts>>
LeavePlan(p) ==
  /\ Exists(p)
  /\ plan' = [plan EXCEPT ![p] = None]
  /\ Disturb({plan[p].by} \cap Job)
  /\ UNCHANGED <<workflow, live, job, call, edits, drifts, drafts>>
Drift(i) ==
  /\ \E d \in Definition : i \in Reads(d)
  /\ drifts < MaxDrifts /\ drifts' = drifts + 1
  /\ live' = [live EXCEPT ![i] = 1 - @]
  /\ Disturb({j \in Job : job[j].status # "absent" /\ i \in Reads(job[j].definition)})
  /\ UNCHANGED <<workflow, plan, job, call, edits, drafts>>

Editing ==
  \E id \in Id : \/ \E d \in Definition : Create(id, d) \/ Update(id, d)
                 \/ \E r \in 1..MaxRevision : Rollback(id, r)
                 \/ Archive(id) \/ PermanentDelete(id)
ClientStep(c) ==
  \/ \E id \in Id, r \in 0..MaxRevision : PreviewWorkflow(c, id, r)
  \/ GenerateRead(c) \/ GenerateStructural(c) \/ RebuildRead(c) \/ GiveUp(c)
  \/ \E p \in PlanId : GenerateCommit(c, p) \/ RebuildPreview(c, p) \/ RebuildCommit(c, p)
HandlerStep(j) ==
  \/ AssertPinned(j) \/ ShowPinned(j) \/ GeneratePinned(j) \/ StagePinned(j) \/ ConfirmDraft(j) \/ Finish(j)
  \/ \E p \in PlanId : CommitPinned(j, p)
  \/ HandlerFails(j) \/ Abandon(j)
RecoverDead(j) == call[j].pc = "idle" /\ Recover(j)
JobStep(j) ==
  \/ \E id \in Id, r \in 1..MaxRevision, action \in {"preview", "draft"} : Enqueue(j, id, r, action)
  \/ Claim(j) \/ HandlerStep(j) \/ CompilingFails(j) \/ Crash(j) \/ Recover(j)
Next == \/ Editing
        \/ \E c \in Client : ClientStep(c)
        \/ \E j \in Job : JobStep(j)
        \/ \E p \in PlanId : LeavePlan(p) \/ \E s \in PlanStatus \ {"draft"} : Advance(p, s)
        \/ \E i \in Input : Drift(i)

(* A worker that lives goes on with its job, a free worker claims the next one,     *)
(* and the lease of a dead one expires.                                           *)
Fairness == \A j \in Job : WF_vars(HandlerStep(j)) /\ WF_vars(Claim(j)) /\ WF_vars(RecoverDead(j))
Spec == Init /\ [][Next]_vars /\ Fairness
-----------------------------------------------------------------------------
Settled(j) == job[j].status \in {"completed", "failed"}

(* A plan that has been a draft, frozen, ready or executing ever since it was made  *)
(* is of a workflow that exists and has the revision the plan names, with the        *)
(* definition it was compiled from, whatever was edited, deleted and created again   *)
(* while it was generated.  Nothing is said of a plan that was partial, failed or    *)
(* stale in between: it does not keep its workflow from being deleted, and may be    *)
(* validated and ready again when the workflow is gone.                             *)
NewPlanHasItsRevision ==
  \A p \in PlanId : Exists(p) /\ plan[p].held =>
    /\ workflow[plan[p].workflow] # None
    /\ HasRevision(plan[p].workflow, plan[p].revision, plan[p].operations.definition)

(* What is drafted is what was previewed: from the same definition, for a job the   *)
(* pinned one and for a rebuilt plan that of the stale plan, and from the same      *)
(* inputs, though both may have changed between the two requests.                   *)
DraftIsWhatWasPreviewed ==
  \A p \in PlanId : Exists(p) =>
    /\ plan[p].operations = plan[p].shown
    /\ plan[p].by \in Job => plan[p].operations.definition = job[plan[p].by].definition
    /\ plan[p].rebuilds # None => plan[p].operations.definition = plan[p].rebuilds

(* A job that is reported done has made the one draft it was asked for, or none if  *)
(* a preview was asked for; no job makes two; and a job fails only if it was        *)
(* interrupted, its workflow archived, its inputs or its draft changed, or its      *)
(* definition could not be compiled: later edits of the workflow do not disturb it. *)
TruthfulSchedule ==
  \A j \in Job :
    /\ drafts[j] <= 1
    /\ job[j].status = "completed" => drafts[j] = IF job[j].action = "draft" THEN 1 ELSE 0
    /\ job[j].status = "failed" => j \in disturbed

(* Every scheduled job comes to an end.                                           *)
ScheduledJobSettles == \A j \in Job : job[j].status = "queued" ~> Settled(j)

(* The rows of the tables, and what a request or a job's handler has read.         *)
DigestRow == [workflow: Id, revision: Nat, definition: Definition, inputs: UNION {[S -> 0..1] : S \in SUBSET Input}]
CallRow ==
  [pc: {"idle", "begun", "pinned", "finished"}]
  \cup [pc: {"seen"}, workflow: Id, revision: Nat, digest: DigestRow, shown: OperationsRow]
  \cup [pc: {"wrappers", "compiled"}, workflow: Id, revision: Nat, operations: OperationsRow, shown: OperationsRow]
  \cup [pc: {"stale"}, plan: PlanId, digest: DigestRow, shown: OperationsRow]
  \cup [pc: {"rebuilt"}, plan: PlanId, metadata: OperationsRow, workflow: Id, revision: Nat,
         operations: OperationsRow, shown: OperationsRow]
  \cup [pc: {"drafted"}, plan: PlanId]
TypeOK ==
  /\ workflow \in [Id -> WorkflowRow \cup {None}]
  /\ plan \in [PlanId -> PlanRow \cup {None}]
  /\ live \in [Input -> 0..1]
  /\ job \in [Job -> JobRow] /\ call \in [Thread -> CallRow]
  /\ edits \in 0..MaxEdits /\ drifts \in 0..MaxDrifts
  /\ drafts \in [Job -> Nat] /\ disturbed \subseteq Job
=============================================================================
