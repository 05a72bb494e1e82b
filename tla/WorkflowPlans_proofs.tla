------------------------- MODULE WorkflowPlans_proofs -------------------------
(***************************************************************************)
(* WorkflowPlans for any definitions, modes, ids, users and jobs, and the  *)
(* scheduler whose jobs draft plans (SchedulerDispatch), for any           *)
(* schedules, cron expressions, workers, lifetime of the lease and bounds. *)
(***************************************************************************)
EXTENDS WorkflowPlans, TLAPS, WellFoundedInduction

-----------------------------------------------------------------------------
(* What was compiled is what was shown.                                    *)

(* A preview's digest is that of the operations shown with it, and a       *)
(* compilation that was compared with it repeats them.                     *)
Shown(t) ==
    /\ call[t].pc \in {"seen", "stale"} =>
          call[t].shown = [definition |-> call[t].digest.definition, inputs |-> call[t].digest.inputs]
    /\ call[t].pc \in {"wrappers", "compiled", "rebuilt"} => call[t].operations = call[t].shown
    /\ call[t].pc = "rebuilt" => call[t].metadata.definition = call[t].operations.definition

(* The handler of a job works with the definition its job is pinned to.    *)
Keeps(j) ==
    /\ job[j].status = "absent" => call[j].pc = "idle"
    /\ call[j].pc \notin {"stale", "rebuilt"}
    /\ call[j].pc = "seen" => call[j].digest.definition = job[j].definition
    /\ call[j].pc \in {"wrappers", "compiled"} => call[j].operations.definition = job[j].definition

(* The jobs with a draft have been started.                                *)
JobsOfPlans == \A p \in PlanId : Exists(p) /\ plan[p].by \in Job => job[plan[p].by].status # "absent"

(* The drafts a job has made, by the place of its handler.                 *)
Counted(j) ==
    /\ drafts[j] <= 1
    /\ job[j].status \in {"absent", "queued"} => call[j].pc = "idle" /\ drafts[j] = 0
    /\ job[j].status = "completed" => call[j].pc = "idle" /\ drafts[j] = IF job[j].action = "draft" THEN 1 ELSE 0
    /\ call[j].pc \in {"begun", "pinned", "seen", "wrappers", "compiled"} => drafts[j] = 0
    /\ call[j].pc \in {"seen", "wrappers", "compiled", "drafted"} => job[j].action = "draft"
    /\ call[j].pc = "drafted" => drafts[j] = 1
    /\ call[j].pc = "finished" => drafts[j] = IF job[j].action = "draft" THEN 1 ELSE 0

(* What a handler that nothing has disturbed may rely on at its place: its *)
(* next check will not refuse.                                             *)
OnCourse(j) ==
    /\ job[j].status = "running" => call[j].pc # "idle"
    /\ call[j].pc \in {"seen", "wrappers", "compiled"} =>
          call[j].workflow = job[j].workflow /\ call[j].revision = job[j].revision
    /\ call[j].pc = "seen" => call[j].digest = Digest(job[j].workflow, job[j].revision, job[j].definition)
    /\ call[j].pc \in {"wrappers", "compiled"} => call[j].operations = Operations(job[j].definition)
    /\ call[j].pc = "wrappers" => Mode[job[j].definition] = "advanced"
    /\ call[j].pc = "drafted" => IsDraft(call[j].plan) /\ plan[call[j].plan].by = j
Reliable(j) ==
    /\ job[j].status = "failed" => j \in disturbed
    /\ job[j].status \in {"queued", "running"} /\ j \notin disturbed => Pinned(j) /\ OnCourse(j)

(* A plan that was held ever since is one that a deletion looks for.       *)
HeldActive == \A p \in PlanId : Exists(p) /\ plan[p].held => Active(p)

Invariant ==
    /\ TypeOK /\ HeldActive /\ NewPlanHasItsRevision /\ DraftIsWhatWasPreviewed /\ JobsOfPlans
    /\ \A t \in Thread : Shown(t)
    /\ \A j \in Job : Keeps(j) /\ Counted(j) /\ Reliable(j)
-----------------------------------------------------------------------------
(* Types.                                                                  *)

InputsRow == UNION {[S -> 0..1] : S \in SUBSET Input}

LEMMA Compiled ==
    ASSUME TypeOK, NEW d \in Definition, NEW id \in Id, NEW r \in Nat
    PROVE  /\ Reads(d) \subseteq Input
           /\ Operations(d) \in OperationsRow
           /\ Digest(id, r, d) \in DigestRow
<1>1. Reads(d) \subseteq Input
  BY WorkflowAssumption DEF Reads, FileInputs, OrganizerInputs, UtilityInputs, DedupeInputs, Input, Modes
<1>2. [i \in Reads(d) |-> live[i]] \in [Reads(d) -> 0..1]
  BY <1>1 DEF TypeOK
<1>3. [i \in Reads(d) |-> live[i]] \in InputsRow
  BY <1>1, <1>2 DEF InputsRow
<1> QED BY <1>1, <1>3 DEF Operations, Digest, OperationsRow, DigestRow, InputsRow

(* A usable workflow and its revisions.                                    *)
LEMMA Row ==
    ASSUME TypeOK, NEW id \in Id, workflow[id] # None
    PROVE  /\ workflow[id] \in WorkflowRow /\ Current(id) \in Nat
           /\ \A r \in 1..Current(id) : workflow[id].revisions[r] \in Definition /\ r \in Nat \ {0}
BY DEF TypeOK, Current, WorkflowRow

(* The row of a request by its place.                                      *)
LEMMA CallFields ==
    ASSUME TypeOK, NEW t \in Thread
    PROVE  /\ call[t].pc = "seen" => /\ call[t].workflow \in Id /\ call[t].revision \in Nat
                                     /\ call[t].digest \in DigestRow /\ call[t].shown \in OperationsRow
           /\ call[t].pc \in {"wrappers", "compiled"} =>
                 /\ call[t] \in [pc: {"wrappers", "compiled"}, workflow: Id, revision: Nat,
                                 operations: OperationsRow, shown: OperationsRow]
                 /\ call[t].workflow \in Id /\ call[t].revision \in Nat
                 /\ call[t].operations \in OperationsRow /\ call[t].shown \in OperationsRow
           /\ call[t].pc = "stale" => /\ call[t].plan \in PlanId
                                      /\ call[t].digest \in DigestRow /\ call[t].shown \in OperationsRow
           /\ call[t].pc = "rebuilt" =>
                 /\ call[t].plan \in PlanId /\ call[t].metadata \in OperationsRow
                 /\ call[t].workflow \in Id /\ call[t].revision \in Nat
                 /\ call[t].operations \in OperationsRow /\ call[t].shown \in OperationsRow
           /\ call[t].pc = "drafted" => call[t].plan \in PlanId
           /\ call[t].pc = "begun" => call[t] = [pc |-> "begun"]
<1>1. call[t] \in CallRow
  BY DEF TypeOK
<1> QED BY <1>1 DEF CallRow

LEMMA JobFields ==
    ASSUME TypeOK, NEW j \in Job, job[j].status # "absent"
    PROVE  /\ job[j] \in [status: {"queued", "running", "completed", "failed"}, workflow: Id,
                          revision: Nat \ {0}, definition: Definition, action: {"preview", "draft"}]
           /\ job[j].workflow \in Id /\ job[j].revision \in Nat \ {0} /\ job[j].definition \in Definition
           /\ job[j].status \in {"queued", "running", "completed", "failed"}
           /\ job[j].action \in {"preview", "draft"}
<1>1. job[j] \in JobRow
  BY DEF TypeOK
<1> QED BY <1>1 DEF JobRow

LEMMA PlanFields ==
    ASSUME TypeOK, NEW p \in PlanId, Exists(p)
    PROVE  /\ plan[p] \in PlanRow
           /\ plan[p].workflow \in Id /\ plan[p].revision \in Nat /\ plan[p].operations \in OperationsRow
           /\ plan[p].operations.definition \in Definition /\ plan[p].status \in PlanStatus
           /\ plan[p].by \in Thread
<1>1. plan[p] \in PlanRow
  BY DEF TypeOK, Exists
<1> QED BY <1>1 DEF PlanRow, OperationsRow

LEMMA InitTypeOK == Init => TypeOK
<1> SUFFICES ASSUME Init PROVE TypeOK
  OBVIOUS
<1>1. Idle \in CallRow /\ [status |-> "absent"] \in JobRow
  BY DEF Idle, CallRow, JobRow
<1> QED BY <1>1, WorkflowAssumption DEF Init, TypeOK

(* A new revision goes behind the others.                                  *)
LEMMA AddRevisionEffect ==
    ASSUME TypeOK, NEW id \in Id, NEW d \in Definition, AddRevision(id, d)
    PROVE  /\ workflow[id] \in WorkflowRow
           /\ [workflow[id] EXCEPT !.revisions = Append(@, d)] \in WorkflowRow
           /\ workflow' = [workflow EXCEPT ![id] = [workflow[id] EXCEPT !.revisions = Append(@, d)]]
<1>1. workflow[id] \in WorkflowRow
  BY DEF TypeOK, AddRevision, Usable
<1>2. [workflow[id] EXCEPT !.revisions = Append(@, d)] \in WorkflowRow
  <2>1. workflow[id].revisions \in Seq(Definition)
    BY <1>1 DEF WorkflowRow
  <2>2. Append(workflow[id].revisions, d) \in Seq(Definition)
    BY <2>1
  <2> QED BY <1>1, <2>2 DEF WorkflowRow
<1>3. workflow' = [workflow EXCEPT ![id] = [workflow[id] EXCEPT !.revisions = Append(@, d)]]
  <2>1. workflow' = [workflow EXCEPT ![id].revisions = Append(@, d)]
    BY DEF AddRevision
  <2>2. id \in DOMAIN workflow /\ DOMAIN workflow' = Id
    BY <2>1 DEF TypeOK
  <2> QED BY <1>1, <2>1, <2>2, Zenon
<1> QED BY <1>1, <1>2, <1>3

(* Steps that write workflows.                                             *)
LEMMA EditingTypes == ASSUME TypeOK, Editing PROVE TypeOK'
<1> USE DEF TypeOK
<1>1. ASSUME NEW id \in Id, NEW row \in WorkflowRow \cup {None}, Edit, NotEdit,
             workflow' = [workflow EXCEPT ![id] = row], disturbed' \subseteq Job
      PROVE  TypeOK'
  BY <1>1, WorkflowAssumption DEF Edit, NotEdit
<1>2. ASSUME NEW id \in Id, NEW d \in Definition, Create(id, d) PROVE TypeOK'
  <2>1. <<d>> \in Seq(Definition)
    OBVIOUS
  <2>2. [archived |-> FALSE, revisions |-> <<d>>] \in WorkflowRow
    BY <2>1 DEF WorkflowRow
  <2> QED BY <1>1, <1>2, <2>2 DEF Create
<1>3. ASSUME NEW id \in Id, NEW d \in Definition, AddRevision(id, d) PROVE TypeOK'
  BY <1>1, <1>3, AddRevisionEffect DEF AddRevision
<1>4. ASSUME NEW id \in Id, NEW r \in 1..MaxRevision, Rollback(id, r) PROVE TypeOK'
  BY <1>3, <1>4, Row DEF Rollback, Usable
<1>5. ASSUME NEW id \in Id, Archive(id) PROVE TypeOK'
  <2>1. workflow[id] \in WorkflowRow
    BY <1>5 DEF Archive, Usable
  <2>2. [workflow[id] EXCEPT !.archived = TRUE] \in WorkflowRow
    BY <2>1 DEF WorkflowRow
  <2>3. workflow' = [workflow EXCEPT ![id] = [workflow[id] EXCEPT !.archived = TRUE]]
    BY <1>5, <2>1 DEF Archive
  <2> QED BY <1>1, <1>5, <2>2, <2>3 DEF Archive, Disturb, OnWorkflow
<1>6. ASSUME NEW id \in Id, PermanentDelete(id) PROVE TypeOK'
  BY <1>1, <1>6 DEF PermanentDelete, Disturb, OnWorkflow
<1> QED BY <1>2, <1>3, <1>4, <1>5, <1>6 DEF Editing, Update

(* What the steps of a preview and of a generation put in the call.        *)
LEMMA ShowType ==
    ASSUME TypeOK, NEW t \in Thread, NEW id \in Id, NEW r \in Nat, Usable(id), Target(id, r) \in 1..Current(id),
           Show(t, id, r)
    PROVE  call' \in [Thread -> CallRow]
<1> DEFINE d == workflow[id].revisions[Target(id, r)]
           row == [pc |-> "seen", workflow |-> id, revision |-> r,
                   digest |-> Digest(id, Target(id, r), d), shown |-> Operations(d)]
<1>1. d \in Definition /\ Target(id, r) \in Nat
  BY Row DEF Usable
<1>2. Operations(d) \in OperationsRow /\ Digest(id, Target(id, r), d) \in DigestRow
  BY <1>1, Compiled
<1>3. row \in CallRow
  BY <1>2 DEF CallRow
<1>4. call' = [call EXCEPT ![t] = row]
  BY DEF Show
<1> QED BY <1>3, <1>4 DEF TypeOK

LEMMA ReadAgainType ==
    ASSUME TypeOK, NEW t \in Thread, call[t].pc = "seen", ReadAgain(t)
    PROVE  call' \in [Thread -> CallRow]
<1> DEFINE id == call[t].workflow
           target == Target(id, call[t].revision)
           d == workflow[id].revisions[target]
           row == [pc |-> IF Wrappers(d) THEN "wrappers" ELSE "compiled", workflow |-> id, revision |-> target,
                   operations |-> Operations(d), shown |-> call[t].shown]
<1>1. id \in Id /\ call[t].shown \in OperationsRow
  BY CallFields
<1>2. d \in Definition /\ target \in Nat
  BY <1>1, Row DEF ReadAgain, Compiles, Usable
<1>3. Operations(d) \in OperationsRow
  BY <1>1, <1>2, Compiled
<1>4. row \in CallRow
  BY <1>1, <1>2, <1>3 DEF CallRow
<1>5. call' = [call EXCEPT ![t] = row]
  BY DEF ReadAgain
<1> QED BY <1>4, <1>5 DEF TypeOK

LEMMA StageType ==
    ASSUME TypeOK, NEW t \in Thread, call[t].pc = "wrappers", Stage(t)
    PROVE  /\ call' \in [Thread -> CallRow]
           /\ call' = [call EXCEPT ![t] = [pc |-> "compiled", workflow |-> call[t].workflow, revision |-> call[t].revision,
                                          operations |-> call[t].operations, shown |-> call[t].shown]]
<1> DEFINE row == [pc |-> "compiled", workflow |-> call[t].workflow, revision |-> call[t].revision,
                   operations |-> call[t].operations, shown |-> call[t].shown]
<1>1. call[t] \in [pc: {"wrappers", "compiled"}, workflow: Id, revision: Nat,
                   operations: OperationsRow, shown: OperationsRow]
  BY CallFields
<1>2. [call[t] EXCEPT !.pc = "compiled"] = row
  BY <1>1
<1>3. row \in CallRow
  BY <1>1 DEF CallRow
<1>4. call' = [call EXCEPT ![t] = [call[t] EXCEPT !.pc = "compiled"]]
  BY <1>1 DEF Stage, TypeOK
<1> QED BY <1>2, <1>3, <1>4 DEF TypeOK

LEMMA RebuildTypes ==
    ASSUME TypeOK, NEW c \in Client,
           RebuildRead(c) \/ \E p \in PlanId : RebuildPreview(c, p)
    PROVE  call' \in [Thread -> CallRow]
<1>0. c \in Thread
  BY DEF Thread
<1>1. ASSUME NEW p \in PlanId, RebuildPreview(c, p) PROVE call' \in [Thread -> CallRow]
  <2> DEFINE row == [pc |-> "stale", plan |-> p, digest |-> Recompiled(p),
                     shown |-> Operations(plan[p].operations.definition)]
  <2>1. Recompiled(p) \in DigestRow /\ Operations(plan[p].operations.definition) \in OperationsRow
    BY <1>1, PlanFields, Compiled DEF RebuildPreview, Rebuildable, Recompiled
  <2>2. row \in CallRow
    BY <2>1 DEF CallRow
  <2> QED BY <1>0, <1>1, <2>2 DEF RebuildPreview, TypeOK
<1>2. CASE RebuildRead(c)
  <2> DEFINE p == call[c].plan
             row == [pc |-> "rebuilt", plan |-> p, metadata |-> plan[p].operations,
                     workflow |-> plan[p].workflow, revision |-> plan[p].revision,
                     operations |-> Operations(plan[p].operations.definition), shown |-> call[c].shown]
  <2>1. p \in PlanId /\ call[c].shown \in OperationsRow /\ Exists(p)
    BY <1>0, <1>2, CallFields DEF RebuildRead, Rebuildable
  <2>2. /\ plan[p].operations \in OperationsRow /\ plan[p].workflow \in Id /\ plan[p].revision \in Nat
        /\ Operations(plan[p].operations.definition) \in OperationsRow
    BY <2>1, PlanFields, Compiled
  <2>3. row \in CallRow
    BY <2>1, <2>2 DEF CallRow
  <2> QED BY <1>0, <1>2, <2>3 DEF RebuildRead, TypeOK
<1> QED BY <1>1, <1>2

(* A draft is a row of a plan.                                             *)
LEMMA DraftType ==
    ASSUME TypeOK, NEW t \in Thread, call[t].pc \in {"compiled", "rebuilt"}, NEW p \in PlanId,
           NEW rebuilds \in Definition \cup {None}, Draft(t, p, rebuilds)
    PROVE  /\ plan' \in [PlanId -> PlanRow \cup {None}]
           /\ plan'[p] \in PlanRow
           /\ plan' = [plan EXCEPT ![p] =
                 [workflow |-> call[t].workflow, revision |-> call[t].revision, operations |-> call[t].operations,
                  status |-> "draft", held |-> TRUE, by |-> t, shown |-> call[t].shown, rebuilds |-> rebuilds]]
<1> DEFINE row == [workflow |-> call[t].workflow, revision |-> call[t].revision, operations |-> call[t].operations,
                   status |-> "draft", held |-> TRUE, by |-> t, shown |-> call[t].shown, rebuilds |-> rebuilds]
<1>1. /\ call[t].workflow \in Id /\ call[t].revision \in Nat
      /\ call[t].operations \in OperationsRow /\ call[t].shown \in OperationsRow
  BY CallFields
<1>2. row \in PlanRow
  BY <1>1 DEF PlanRow, PlanStatus
<1> QED BY <1>2 DEF Draft, TypeOK

LEMMA ClientTypes == ASSUME TypeOK, NEW c \in Client, ClientStep(c) PROVE TypeOK'
<1> USE DEF TypeOK
<1>0. c \in Thread /\ Idle \in CallRow
  BY DEF Thread, Idle, CallRow
<1>1. ASSUME NEW id \in Id, NEW r \in 0..MaxRevision, PreviewWorkflow(c, id, r) PROVE TypeOK'
  <2>1. r \in Nat
    BY WorkflowAssumption
  <2>2. call' \in [Thread -> CallRow]
    BY <1>0, <1>1, <2>1, ShowType DEF PreviewWorkflow
  <2> QED BY <1>1, <2>2 DEF PreviewWorkflow
<1>2. CASE GenerateRead(c)
  BY <1>0, <1>2, ReadAgainType DEF GenerateRead
<1>3. CASE GenerateStructural(c)
  BY <1>0, <1>3, StageType DEF GenerateStructural
<1>4. CASE GiveUp(c)
  BY <1>0, <1>4 DEF GiveUp, Answer
<1>5. CASE RebuildRead(c)
  BY <1>5, RebuildTypes DEF RebuildRead
<1>6. ASSUME NEW p \in PlanId, RebuildPreview(c, p) PROVE TypeOK'
  BY <1>6, RebuildTypes DEF RebuildPreview
<1>7. ASSUME NEW p \in PlanId, GenerateCommit(c, p) PROVE TypeOK'
  BY <1>0, <1>7, DraftType DEF GenerateCommit, Answer
<1>8. ASSUME NEW p \in PlanId, RebuildCommit(c, p) PROVE TypeOK'
  <2>1. call[c].metadata.definition \in Definition
    BY <1>0, <1>8, CallFields DEF RebuildCommit, OperationsRow
  <2> QED BY <1>0, <1>8, <2>1, DraftType DEF RebuildCommit, Answer
<1> QED BY <1>1, <1>2, <1>3, <1>4, <1>5, <1>6, <1>7, <1>8 DEF ClientStep

(* The other steps of the jobs.                                            *)
LEMMA JobTypes == ASSUME TypeOK, NEW j \in Job, Keeps(j), JobStep(j) PROVE TypeOK'
<1> USE DEF TypeOK
<1>0. /\ j \in Thread /\ Idle \in CallRow /\ [pc |-> "begun"] \in CallRow /\ [pc |-> "pinned"] \in CallRow
      /\ [pc |-> "finished"] \in CallRow
  BY DEF Thread, Idle, CallRow
<1>1. ASSUME NEW s \in {"queued", "running", "completed", "failed"}, job[j].status # "absent",
             job' = [job EXCEPT ![j].status = s]
      PROVE  job' \in [Job -> JobRow]
  <2>1. [job[j] EXCEPT !.status = s] \in JobRow
    BY <1>1, JobFields DEF JobRow
  <2>2. job' = [job EXCEPT ![j] = [job[j] EXCEPT !.status = s]]
    BY <1>1, JobFields
  <2> QED BY <2>1, <2>2
<1>2. ASSUME NEW id \in Id, NEW r \in 1..MaxRevision, NEW action \in {"preview", "draft"}, Enqueue(j, id, r, action)
      PROVE  TypeOK'
  <2>1. workflow[id].revisions[r] \in Definition /\ r \in Nat \ {0}
    BY <1>2, Row DEF Enqueue, Usable
  <2>2. [status |-> "queued", workflow |-> id, revision |-> r,
         definition |-> workflow[id].revisions[r], action |-> action] \in JobRow
    BY <2>1 DEF JobRow
  <2> QED BY <1>2, <2>2 DEF Enqueue
<1>3. CASE Claim(j)
  BY <1>0, <1>1, <1>3 DEF Claim
<1>4. CASE AssertPinned(j)
  <2>1. call[j] = [pc |-> "begun"]
    BY <1>0, <1>4, CallFields DEF AssertPinned, Handler
  <2>2. [call[j] EXCEPT !.pc = "pinned"] = [pc |-> "pinned"]
    BY <2>1
  <2>3. call' = [call EXCEPT ![j] = [call[j] EXCEPT !.pc = "pinned"]]
    BY <1>4 DEF AssertPinned
  <2> QED BY <1>0, <1>4, <2>2, <2>3 DEF AssertPinned, Handler
<1>5. CASE ShowPinned(j)
  <2>1. call' \in [Thread -> CallRow]
    <3>1. CASE job[j].action = "preview"
      BY <1>0, <1>5, <3>1 DEF ShowPinned
    <3>2. CASE job[j].action # "preview"
      <4>1. job[j].status # "absent"
        BY <1>5 DEF ShowPinned, Handler, Keeps
      <4> QED BY <1>0, <1>5, <3>2, <4>1, ShowType, JobFields DEF ShowPinned, Previewable, PreviewRevision
    <3> QED BY <3>1, <3>2
  <2> QED BY <1>5, <2>1 DEF ShowPinned, Handler
<1>6. CASE GeneratePinned(j)
  BY <1>0, <1>6, ReadAgainType DEF GeneratePinned, Handler
<1>7. CASE StagePinned(j)
  BY <1>0, <1>7, StageType DEF StagePinned, Handler
<1>8. CASE ConfirmDraft(j)
  BY <1>0, <1>8 DEF ConfirmDraft, Handler
<1>9. CASE Finish(j)
  BY <1>0, <1>1, <1>9 DEF Finish, Handler, Fenced, Answer
<1>10. ASSUME NEW p \in PlanId, CommitPinned(j, p) PROVE TypeOK'
  <2>1. [pc |-> "drafted", plan |-> p] \in CallRow
    BY DEF CallRow
  <2>2. drafts' \in [Job -> Nat]
    BY <1>10 DEF CommitPinned
  <2> QED BY <1>0, <1>10, <2>1, <2>2, DraftType DEF CommitPinned, Handler
<1>11. CASE HandlerFails(j) \/ CompilingFails(j)
  BY <1>0, <1>1, <1>11 DEF HandlerFails, CompilingFails, Raise, Answer, Fenced, Disturb
<1>12. CASE Crash(j) \/ Abandon(j)
  BY <1>0, <1>12 DEF Crash, Abandon, Answer, Disturb
<1>13. CASE Recover(j)
  BY <1>1, <1>13 DEF Recover, Fenced, Disturb
<1> QED BY <1>2, <1>3, <1>4, <1>5, <1>6, <1>7, <1>8, <1>9, <1>10, <1>11, <1>12, <1>13 DEF JobStep, HandlerStep

(* Steps around requests and jobs.                                         *)
AroundStep == \/ \E p \in PlanId : LeavePlan(p) \/ \E s \in PlanStatus \ {"draft"} : Advance(p, s)
              \/ \E i \in Input : Drift(i)

Advanced(p, s) == [plan[p] EXCEPT !.status = s, !.held = plan[p].held /\ s = "active"]

LEMMA AdvanceEffect ==
    ASSUME TypeOK, NEW p \in PlanId, NEW s \in PlanStatus \ {"draft"}, Advance(p, s)
    PROVE  /\ plan[p] \in PlanRow /\ Exists(p)
           /\ plan' = [plan EXCEPT ![p] = Advanced(p, s)] /\ Advanced(p, s) \in PlanRow
           /\ plan'[p].status = s /\ plan'[p].held = (plan[p].held /\ s = "active")
           /\ plan'[p].workflow = plan[p].workflow /\ plan'[p].revision = plan[p].revision
           /\ plan'[p].operations = plan[p].operations /\ plan'[p].shown = plan[p].shown
           /\ plan'[p].by = plan[p].by /\ plan'[p].rebuilds = plan[p].rebuilds
<1>1. plan[p] \in PlanRow /\ Exists(p)
  BY PlanFields DEF Advance
<1>2. Advanced(p, s) \in PlanRow
  BY <1>1 DEF Advanced, PlanRow
<1>3. plan' = [plan EXCEPT ![p] = Advanced(p, s)]
  BY DEF Advance, Advanced, TypeOK
<1>4. plan'[p] = Advanced(p, s)
  BY <1>3 DEF TypeOK
<1> QED BY <1>1, <1>2, <1>3, <1>4 DEF Advanced, PlanRow

LEMMA AroundTypes == ASSUME TypeOK, AroundStep PROVE TypeOK'
<1>1. ASSUME NEW p \in PlanId, NEW s \in PlanStatus \ {"draft"}, Advance(p, s) PROVE TypeOK'
  <2>1. Advanced(p, s) \in PlanRow /\ plan' = [plan EXCEPT ![p] = Advanced(p, s)]
    BY <1>1, AdvanceEffect
  <2> QED BY <1>1, <2>1 DEF Advance, Disturb, TypeOK
<1> USE DEF TypeOK
<1>2. ASSUME NEW p \in PlanId, LeavePlan(p) PROVE TypeOK'
  BY <1>2 DEF LeavePlan, Disturb
<1>3. ASSUME NEW i \in Input, Drift(i) PROVE TypeOK'
  BY <1>3, WorkflowAssumption DEF Drift, Disturb
<1> QED BY <1>1, <1>2, <1>3 DEF AroundStep

LEMMA NextTypeOK ==
    ASSUME TypeOK, \A j \in Job : Keeps(j), [Next]_vars
    PROVE  TypeOK'
<1>1. CASE UNCHANGED vars
  BY <1>1 DEF vars, TypeOK
<1> QED BY <1>1, EditingTypes, ClientTypes, JobTypes, AroundTypes DEF Next, AroundStep

-----------------------------------------------------------------------------
(* Editing keeps the revisions that something depends on.                  *)

(* A revision stays what it is until its workflow is deleted.              *)
LEMMA EditingKeepsRevisions ==
    ASSUME TypeOK, Editing, NEW id \in Id, workflow[id] # None, NEW r, NEW d, HasRevision(id, r, d)
    PROVE  \/ /\ workflow'[id] # None /\ HasRevision(id, r, d)'
              /\ \/ workflow'[id].archived = workflow[id].archived
                 \/ disturbed' = disturbed \cup {j \in OnWorkflow(id) : job[j].status \in {"queued", "running"}}
           \/ /\ workflow[id].archived /\ DependentPlans(id) = {}
<1> USE DEF TypeOK
<1>0. /\ workflow[id].revisions \in Seq(Definition)
      /\ r \in 1..Len(workflow[id].revisions) /\ workflow[id].revisions[r] = d
  BY Row DEF HasRevision, Current, WorkflowRow
<1>1. CASE workflow'[id] = workflow[id]
  BY <1>0, <1>1 DEF HasRevision, Current
<1>2. ASSUME NEW k \in Id, NEW e \in Definition, AddRevision(k, e), workflow'[id] # workflow[id]
      PROVE  workflow'[id] # None /\ HasRevision(id, r, d)' /\ workflow'[id].archived = workflow[id].archived
  <2>1. k = id /\ workflow[id] \in WorkflowRow
    BY <1>2, AddRevisionEffect DEF AddRevision
  <2>2. workflow'[id] = [workflow[id] EXCEPT !.revisions = Append(@, e)] /\ workflow'[id] \in WorkflowRow
    <3>1. PICK row \in WorkflowRow : /\ row = [workflow[id] EXCEPT !.revisions = Append(@, e)]
                                     /\ workflow' = [workflow EXCEPT ![id] = row]
      BY <1>2, <2>1, AddRevisionEffect, Zenon
    <3>2. workflow'[id] = row
      BY <3>1
    <3> QED BY <3>1, <3>2, Zenon
  <2>3. workflow'[id].revisions = Append(workflow[id].revisions, e) /\ workflow'[id].archived = workflow[id].archived
    BY <2>1, <2>2 DEF WorkflowRow
  <2>4. workflow'[id] # None
    BY <2>2, NoneAssumption
  <2>5. HasRevision(id, r, d)'
    <3> DEFINE revisions == workflow[id].revisions
    <3>1. Len(Append(revisions, e)) = Len(revisions) + 1 /\ Len(revisions) \in Nat
      BY <1>0
    <3>2. Append(revisions, e)[r] = revisions[r]
      BY <1>0
    <3> HIDE DEF revisions
    <3>3. r \in 1..Len(Append(revisions, e))
      BY <1>0, <3>1 DEF revisions
    <3> QED BY <1>0, <2>3, <3>2, <3>3 DEF HasRevision, Current, revisions
  <2> QED BY <2>3, <2>4, <2>5
<1>3. ASSUME NEW k \in Id, NEW q \in 1..MaxRevision, Rollback(k, q) PROVE \E e \in Definition : AddRevision(k, e)
  BY <1>3, Row DEF Rollback, Usable
<1>4. ASSUME NEW k \in Id, NEW e \in Definition, Create(k, e) PROVE workflow'[id] = workflow[id]
  BY <1>4 DEF Create, NextId
<1>5. ASSUME NEW k \in Id, Archive(k), workflow'[id] # workflow[id]
      PROVE  /\ workflow'[id] # None /\ HasRevision(id, r, d)'
             /\ disturbed' = disturbed \cup {j \in OnWorkflow(id) : job[j].status \in {"queued", "running"}}
  <2>1. k = id /\ workflow[id] \in WorkflowRow
    BY <1>5 DEF Archive
  <2>2. workflow'[id] = [workflow[id] EXCEPT !.archived = TRUE]
    BY <1>5, <2>1 DEF Archive
  <2>3. workflow'[id] \in WorkflowRow /\ workflow'[id].revisions = workflow[id].revisions
    BY <2>1, <2>2 DEF WorkflowRow
  <2> QED BY <1>0, <1>5, <2>1, <2>3, NoneAssumption DEF Archive, Disturb, HasRevision, Current
<1>6. ASSUME NEW k \in Id, PermanentDelete(k), workflow'[id] # workflow[id]
      PROVE  workflow[id].archived /\ DependentPlans(id) = {}
  BY <1>6 DEF PermanentDelete
<1> QED BY <1>1, <1>2, <1>3, <1>4, <1>5, <1>6 DEF Editing, Update

-----------------------------------------------------------------------------
(* New plans have their revision.                                          *)

LEMMA NextNewPlan ==
    ASSUME TypeOK, HeldActive, NewPlanHasItsRevision, [Next]_vars
    PROVE  HeldActive' /\ NewPlanHasItsRevision'
<1> USE DEF Exists, Active
<1> DEFINE Goal == HeldActive' /\ NewPlanHasItsRevision'
<1>1. CASE Editing
  <2>1. UNCHANGED plan
    BY <1>1 DEF Editing, Create, Update, Rollback, AddRevision, Archive, PermanentDelete, NotEdit
  <2>2. ASSUME NEW p \in PlanId, Exists(p), plan[p].held
        PROVE  /\ workflow'[plan[p].workflow] # None
               /\ HasRevision(plan[p].workflow, plan[p].revision, plan[p].operations.definition)'
    <3>1. PICK id \in Id, r \in Nat, d \in Definition :
                 id = plan[p].workflow /\ r = plan[p].revision /\ d = plan[p].operations.definition
      BY <2>2, PlanFields
    <3>2. workflow[id] # None /\ HasRevision(id, r, d) /\ DependentPlans(id) # {}
      BY <2>2, <3>1 DEF HeldActive, NewPlanHasItsRevision, DependentPlans
    <3>3. workflow'[id] # None /\ HasRevision(id, r, d)'
      BY <1>1, <3>2, EditingKeepsRevisions
    <3> QED BY <2>1, <3>1, <3>3
  <2> QED BY <2>1, <2>2 DEF HeldActive, NewPlanHasItsRevision
<1>2. ASSUME NEW t \in Thread, NEW p \in PlanId, NEW rebuilds \in Definition \cup {None}, Draft(t, p, rebuilds),
             call[t].pc \in {"compiled", "rebuilt"}, SameRevision(t), UNCHANGED workflow
      PROVE  Goal
  <2>1. /\ plan' \in [PlanId -> PlanRow \cup {None}]
        /\ plan'[p].workflow = call[t].workflow /\ plan'[p].revision = call[t].revision
        /\ plan'[p].operations = call[t].operations /\ plan'[p].status = "draft"
        /\ \A q \in PlanId \ {p} : plan'[q] = plan[q]
    BY <1>2, DraftType DEF TypeOK
  <2> QED BY <1>2, <2>1 DEF HeldActive, NewPlanHasItsRevision, SameRevision, Usable, HasRevision, Current
<1>3. ASSUME NEW c \in Client, NEW p \in PlanId, GenerateCommit(c, p) \/ RebuildCommit(c, p)
      PROVE  Goal
  <2>1. c \in Thread
    BY DEF Thread
  <2>2. CASE GenerateCommit(c, p)
    BY <1>2, <2>1, <2>2 DEF GenerateCommit
  <2>3. CASE RebuildCommit(c, p)
    <3>1. call[c].metadata.definition \in Definition
      BY <2>1, <2>3, CallFields DEF RebuildCommit, OperationsRow
    <3> QED BY <1>2, <2>1, <2>3, <3>1 DEF RebuildCommit
  <2> QED BY <1>3, <2>2, <2>3
<1>4. ASSUME NEW j \in Job, NEW p \in PlanId, CommitPinned(j, p) PROVE Goal
  BY <1>2, <1>4 DEF CommitPinned, Handler, Thread
<1>5. ASSUME NEW p \in PlanId, NEW s \in PlanStatus \ {"draft"}, Advance(p, s) PROVE Goal
  <2>1. /\ plan'[p].workflow = plan[p].workflow /\ plan'[p].revision = plan[p].revision
        /\ plan'[p].operations = plan[p].operations /\ plan'[p].status = s
        /\ plan'[p].held = (plan[p].held /\ s = "active") /\ Exists(p)
    BY <1>5, AdvanceEffect
  <2>2. UNCHANGED workflow /\ \A q \in PlanId \ {p} : plan'[q] = plan[q]
    BY <1>5 DEF Advance, TypeOK
  <2>3. \A q \in PlanId : Exists(q)' /\ plan'[q].held => Exists(q) /\ plan[q].held
    BY <2>1, <2>2
  <2>4. HeldActive'
    <3>1. plan'[p].held => s = "active"
      BY <2>1
    <3>2. plan'[p].held => plan'[p].status \in {"draft", "active"}
      BY <2>1, <3>1
    <3>3. \A q \in PlanId \ {p} : Exists(q)' /\ plan'[q].held => plan'[q].status \in {"draft", "active"}
      BY <2>2 DEF HeldActive
    <3>4. \A q \in PlanId : Exists(q)' /\ plan'[q].held => plan'[q].status \in {"draft", "active"}
      BY <3>2, <3>3
    <3> QED BY <3>4, Zenon DEF HeldActive
  <2>5. ASSUME NEW q \in PlanId, Exists(q)', plan'[q].held
        PROVE  /\ workflow'[plan'[q].workflow] # None
               /\ HasRevision(plan[q].workflow, plan[q].revision, plan[q].operations.definition)'
    <3>1. /\ plan'[q].workflow = plan[q].workflow /\ plan'[q].revision = plan[q].revision
          /\ plan'[q].operations = plan[q].operations
      BY <2>1, <2>2
    <3>2. /\ workflow[plan[q].workflow] # None
          /\ HasRevision(plan[q].workflow, plan[q].revision, plan[q].operations.definition)
      BY <2>3, <2>5 DEF NewPlanHasItsRevision
    <3> QED BY <2>2, <3>1, <3>2 DEF HasRevision, Current
  <2> QED BY <2>4, <2>5 DEF NewPlanHasItsRevision
<1>6. ASSUME NEW p \in PlanId, LeavePlan(p) PROVE Goal
  BY <1>6 DEF LeavePlan, HeldActive, NewPlanHasItsRevision, HasRevision, Current, TypeOK
<1>7. CASE UNCHANGED <<workflow, plan>>
  BY <1>7 DEF HeldActive, NewPlanHasItsRevision, HasRevision, Current
<1>8. ASSUME NEW c \in Client, ClientStep(c) PROVE Goal
  BY <1>3, <1>7, <1>8 DEF ClientStep, PreviewWorkflow, GenerateRead, GenerateStructural, RebuildRead, GiveUp, RebuildPreview
<1>9. ASSUME NEW j \in Job, JobStep(j) PROVE Goal
  BY <1>4, <1>7, <1>9 DEF JobStep, HandlerStep, Enqueue, Claim, AssertPinned, ShowPinned, GeneratePinned, StagePinned,
     ConfirmDraft, Finish, HandlerFails, Abandon, CompilingFails, Crash, Recover, Handler
<1>10. ASSUME NEW i \in Input, Drift(i) PROVE Goal
  BY <1>7, <1>10 DEF Drift
<1> QED BY <1>1, <1>5, <1>6, <1>7, <1>8, <1>9, <1>10 DEF Next, vars

-----------------------------------------------------------------------------
(* What is drafted is what was shown.                                      *)

(* Only the status of a started job is ever written.                       *)
LEMMA StatusWritten ==
    ASSUME TypeOK, NEW j \in Job, job[j].status # "absent", NEW s, job' = [job EXCEPT ![j].status = s]
    PROVE  /\ job'[j].status = s /\ job'[j].workflow = job[j].workflow /\ job'[j].revision = job[j].revision
           /\ job'[j].definition = job[j].definition /\ job'[j].action = job[j].action
           /\ \A k \in Job \ {j} : job'[k] = job[k]
<1>1. job' = [job EXCEPT ![j] = [job[j] EXCEPT !.status = s]] /\ j \in DOMAIN job
  BY JobFields DEF TypeOK
<1>2. job'[j] = [job[j] EXCEPT !.status = s]
  BY <1>1
<1> QED BY <1>1, <1>2, JobFields

LEMMA JobRowKept ==
    ASSUME TypeOK, [Next]_vars, NEW k \in Job, job[k].status # "absent"
    PROVE  /\ job'[k].status # "absent"
           /\ job'[k].workflow = job[k].workflow /\ job'[k].revision = job[k].revision
           /\ job'[k].definition = job[k].definition /\ job'[k].action = job[k].action
<1>1. CASE job'[k] = job[k]
  BY <1>1
<1>2. ASSUME NEW j \in Job, job[j].status # "absent", NEW s \in {"running", "completed", "failed"},
             job' = [job EXCEPT ![j].status = s]
      PROVE  \/ job'[k] = job[k]
             \/ /\ job'[k].status # "absent"
                /\ job'[k].workflow = job[k].workflow /\ job'[k].revision = job[k].revision
                /\ job'[k].definition = job[k].definition /\ job'[k].action = job[k].action
  BY <1>2, StatusWritten
<1>3. ASSUME NEW j \in Job, JobStep(j)
      PROVE  \/ UNCHANGED job
             \/ \E id, r, action : Enqueue(j, id, r, action)
             \/ Claim(j) \/ Finish(j) \/ (Fenced(j) /\ job' = [job EXCEPT ![j].status = "failed"])
  BY <1>3 DEF JobStep, HandlerStep, AssertPinned, ShowPinned, GeneratePinned, StagePinned, CommitPinned, ConfirmDraft,
     HandlerFails, Abandon, CompilingFails, Crash, Recover, Raise
<1>4. ASSUME NEW j \in Job, NEW id, NEW r, NEW action, Enqueue(j, id, r, action) PROVE job'[k] = job[k]
  BY <1>4 DEF Enqueue, TypeOK
<1>5. ASSUME NEW j \in Job, JobStep(j)
      PROVE  \/ job'[k] = job[k]
             \/ /\ job'[k].status # "absent"
                /\ job'[k].workflow = job[k].workflow /\ job'[k].revision = job[k].revision
                /\ job'[k].definition = job[k].definition /\ job'[k].action = job[k].action
  <2>1. CASE Claim(j)
    BY <1>2, <2>1 DEF Claim
  <2>2. CASE Finish(j)
    BY <1>2, <2>2 DEF Finish, Fenced
  <2>3. CASE Fenced(j) /\ job' = [job EXCEPT ![j].status = "failed"]
    BY <1>2, <2>3 DEF Fenced
  <2> QED BY <1>3, <1>4, <1>5, <2>1, <2>2, <2>3
<1>6. ASSUME ~\E j \in Job : JobStep(j) PROVE UNCHANGED job
  BY <1>6 DEF Next, vars, Editing, Create, Update, Rollback, AddRevision, Archive, PermanentDelete, NotEdit,
     ClientStep, PreviewWorkflow, GenerateRead, GenerateStructural, RebuildRead, GiveUp, GenerateCommit, RebuildPreview,
     RebuildCommit, LeavePlan, Advance, Drift
<1> QED BY <1>1, <1>5, <1>6

(* The steps after which a thread's call can be another one.               *)
LEMMA CallWritten ==
    ASSUME TypeOK, [Next]_vars, NEW t \in Thread
    PROVE  \/ call'[t] = call[t]
           \/ t \in Client /\ ClientStep(t)
           \/ t \in Job /\ JobStep(t)
<1> USE DEF TypeOK, Thread
<1>1. ASSUME NEW c \in Client, ClientStep(c), c # t PROVE call'[t] = call[t]
  BY <1>1 DEF ClientStep, PreviewWorkflow, Show, GenerateRead, ReadAgain, GenerateStructural, Stage, RebuildRead, GiveUp,
     Answer, GenerateCommit, RebuildPreview, RebuildCommit
<1>2. ASSUME NEW j \in Job, JobStep(j), j # t PROVE call'[t] = call[t]
  BY <1>2 DEF JobStep, HandlerStep, Enqueue, Claim, AssertPinned, ShowPinned, Show, GeneratePinned, ReadAgain, StagePinned,
     Stage, CommitPinned, ConfirmDraft, Finish, HandlerFails, Abandon, CompilingFails, Crash, Recover, Raise, Answer
<1>3. ASSUME ~\E c \in Client : ClientStep(c), ~\E j \in Job : JobStep(j) PROVE call'[t] = call[t]
  BY <1>3 DEF Next, vars, Editing, Create, Update, Rollback, AddRevision, Archive, PermanentDelete, NotEdit,
     LeavePlan, Advance, Drift
<1> QED BY <1>1, <1>2, <1>3

LEMMA NextShown ==
    ASSUME TypeOK, NEW t \in Thread, Shown(t), [Next]_vars
    PROVE  Shown(t)'
<1> USE DEF TypeOK
<1>1. CASE call'[t] = call[t]
  BY <1>1 DEF Shown
<1>2. ASSUME NEW id, NEW r, Show(t, id, r) PROVE Shown(t)'
  BY <1>2 DEF Show, Shown, Digest, Operations
<1>3. ASSUME call[t].pc = "seen", ReadAgain(t) PROVE Shown(t)'
  <2> DEFINE d == workflow[call[t].workflow].revisions[Target(call[t].workflow, call[t].revision)]
             digest == Digest(call[t].workflow, Target(call[t].workflow, call[t].revision), d)
  <2>1. digest = call[t].digest
    BY <1>3 DEF ReadAgain, Compiles
  <2>2. digest.definition = d /\ digest.inputs = [i \in Reads(d) |-> live[i]]
    BY DEF Digest
  <2>3. Operations(d) = call[t].shown
    BY <1>3, <2>1, <2>2 DEF Operations, Shown
  <2>4. call'[t] = [pc |-> IF Wrappers(d) THEN "wrappers" ELSE "compiled", workflow |-> call[t].workflow,
                    revision |-> Target(call[t].workflow, call[t].revision),
                    operations |-> Operations(d), shown |-> call[t].shown]
    BY <1>3 DEF ReadAgain
  <2> HIDE DEF d, digest
  <2> QED BY <2>3, <2>4 DEF Shown
<1>4. ASSUME call[t].pc = "wrappers", Stage(t) PROVE Shown(t)'
  BY <1>4, StageType DEF Shown
<1>5. ASSUME NEW p \in PlanId, RebuildPreview(t, p) PROVE Shown(t)'
  BY <1>5 DEF RebuildPreview, Recompiled, Digest, Operations, Shown
<1>6. CASE RebuildRead(t)
  <2> DEFINE d == plan[call[t].plan].operations.definition
  <2>1. Recompiled(call[t].plan) = call[t].digest /\ call[t].pc = "stale"
    BY <1>6 DEF RebuildRead
  <2>2. Operations(d) = call[t].shown /\ Operations(d).definition = d
    BY <2>1 DEF Recompiled, Digest, Operations, Shown
  <2>3. /\ call'[t].pc = "rebuilt" /\ call'[t].shown = call[t].shown /\ call'[t].operations = Operations(d)
        /\ call'[t].metadata.definition = d
    BY <1>6 DEF RebuildRead
  <2> HIDE DEF d
  <2> QED BY <2>2, <2>3 DEF Shown
<1>7. ASSUME call'[t] = Idle \/ call'[t].pc \in {"begun", "pinned", "drafted", "finished"} PROVE Shown(t)'
  BY <1>7 DEF Shown, Idle
<1>8. CASE t \in Client /\ ClientStep(t)
  <2>1. ASSUME NEW id \in Id, NEW r \in 0..MaxRevision, PreviewWorkflow(t, id, r) PROVE Shown(t)'
    BY <1>2, <2>1 DEF PreviewWorkflow
  <2>2. CASE GenerateRead(t) \/ GenerateStructural(t)
    BY <1>3, <1>4, <2>2 DEF GenerateRead, GenerateStructural
  <2>3. ASSUME NEW p \in PlanId, GenerateCommit(t, p) \/ RebuildCommit(t, p) PROVE Shown(t)'
    BY <1>7, <2>3 DEF GenerateCommit, RebuildCommit, Answer
  <2>4. CASE GiveUp(t)
    BY <1>7, <2>4 DEF GiveUp, Answer
  <2> QED BY <1>5, <1>6, <1>8, <2>1, <2>2, <2>3, <2>4 DEF ClientStep
<1>9. CASE t \in Job /\ JobStep(t)
  <2>1. ASSUME NEW id, NEW r, NEW action, Enqueue(t, id, r, action) PROVE Shown(t)'
    BY <1>1, <2>1 DEF Enqueue
  <2>2. CASE Claim(t) \/ ConfirmDraft(t)
    BY <1>7, <2>2 DEF Claim, ConfirmDraft
  <2>3. CASE AssertPinned(t)
    <3>1. call[t] = [pc |-> "begun"] /\ call' = [call EXCEPT ![t] = [call[t] EXCEPT !.pc = "pinned"]]
      BY <2>3, CallFields DEF AssertPinned, Handler
    <3>2. call'[t] = [call[t] EXCEPT !.pc = "pinned"]
      BY <3>1
    <3> QED BY <1>7, <3>1, <3>2
  <2>4. CASE ShowPinned(t)
    BY <1>2, <1>7, <2>4 DEF ShowPinned
  <2>5. CASE GeneratePinned(t) \/ StagePinned(t)
    BY <1>3, <1>4, <2>5 DEF GeneratePinned, StagePinned, Handler
  <2>6. ASSUME NEW p \in PlanId, CommitPinned(t, p) PROVE Shown(t)'
    BY <1>7, <2>6 DEF CommitPinned
  <2>7. CASE Finish(t) \/ HandlerFails(t) \/ Abandon(t) \/ CompilingFails(t) \/ Crash(t)
    BY <1>7, <2>7 DEF Finish, HandlerFails, Abandon, CompilingFails, Crash, Raise, Answer
  <2>8. CASE Recover(t)
    BY <1>1, <2>8 DEF Recover
  <2> QED BY <1>9, <2>1, <2>2, <2>3, <2>4, <2>5, <2>6, <2>7, <2>8 DEF JobStep, HandlerStep
<1> QED BY <1>1, <1>8, <1>9, CallWritten

(* What the handler of a job has got to after each of its steps.           *)
LEMMA HandlerEffects ==
    ASSUME TypeOK, NEW j \in Job
    PROVE  /\ AssertPinned(j) => call'[j] = [pc |-> "pinned"]
           /\ ShowPinned(j) /\ job[j].action # "preview" =>
                 call'[j] = [pc |-> "seen", workflow |-> job[j].workflow, revision |-> job[j].revision,
                             digest |-> Digest(job[j].workflow, Target(job[j].workflow, job[j].revision), job[j].definition),
                             shown |-> Operations(job[j].definition)]
           /\ GeneratePinned(j) =>
                 LET id == call[j].workflow
                     target == Target(id, call[j].revision)
                     d == workflow[id].revisions[target]
                 IN /\ Digest(id, target, d) = call[j].digest /\ d = call[j].digest.definition
                    /\ call'[j] = [pc |-> IF Wrappers(d) THEN "wrappers" ELSE "compiled", workflow |-> id,
                                   revision |-> target, operations |-> Operations(d), shown |-> call[j].shown]
           /\ StagePinned(j) =>
                 call'[j] = [pc |-> "compiled", workflow |-> call[j].workflow, revision |-> call[j].revision,
                             operations |-> call[j].operations, shown |-> call[j].shown]
<1> USE DEF TypeOK
<1>0. j \in Thread /\ j \in DOMAIN call
  BY DEF Thread
<1>1. ASSUME AssertPinned(j) PROVE call'[j] = [pc |-> "pinned"]
  <2>1. call[j] = [pc |-> "begun"] /\ call' = [call EXCEPT ![j] = [call[j] EXCEPT !.pc = "pinned"]]
    BY <1>0, <1>1, CallFields DEF AssertPinned, Handler
  <2>2. call'[j] = [call[j] EXCEPT !.pc = "pinned"]
    BY <1>0, <2>1
  <2> QED BY <2>1, <2>2
<1>2. ASSUME ShowPinned(j), job[j].action # "preview"
      PROVE  call'[j] = [pc |-> "seen", workflow |-> job[j].workflow, revision |-> job[j].revision,
                         digest |-> Digest(job[j].workflow, Target(job[j].workflow, job[j].revision), job[j].definition),
                         shown |-> Operations(job[j].definition)]
  BY <1>0, <1>2 DEF ShowPinned, Show, Previewable, PreviewRevision
<1>3. ASSUME GeneratePinned(j)
      PROVE  LET id == call[j].workflow
                 target == Target(id, call[j].revision)
                 d == workflow[id].revisions[target]
             IN /\ Digest(id, target, d) = call[j].digest /\ d = call[j].digest.definition
                /\ call'[j] = [pc |-> IF Wrappers(d) THEN "wrappers" ELSE "compiled", workflow |-> id,
                               revision |-> target, operations |-> Operations(d), shown |-> call[j].shown]
  <2> DEFINE id == call[j].workflow
             target == Target(id, call[j].revision)
             d == workflow[id].revisions[target]
  <2>1. Digest(id, target, d) = call[j].digest
    BY <1>3 DEF GeneratePinned, ReadAgain, Compiles
  <2>2. Digest(id, target, d).definition = d
    BY DEF Digest
  <2> QED BY <1>0, <1>3, <2>1, <2>2 DEF GeneratePinned, ReadAgain
<1>4. ASSUME StagePinned(j)
      PROVE  call'[j] = [pc |-> "compiled", workflow |-> call[j].workflow, revision |-> call[j].revision,
                         operations |-> call[j].operations, shown |-> call[j].shown]
  BY <1>0, <1>4, StageType DEF StagePinned, Handler
<1> QED BY <1>1, <1>2, <1>3, <1>4

LEMMA NextKeeps ==
    ASSUME TypeOK, NEW j \in Job, Keeps(j), [Next]_vars
    PROVE  Keeps(j)'
<1> USE DEF TypeOK
<1>0. j \in Thread /\ j \notin Client
  BY WorkflowAssumption DEF Thread
<1>1. CASE call'[j] = call[j]
  <2>1. CASE job[j].status # "absent"
    BY <1>1, <2>1, JobRowKept DEF Keeps
  <2>2. CASE job[j].status = "absent"
    <3>1. call[j].pc = "idle"
      BY <2>2 DEF Keeps
    <3> QED BY <1>1, <3>1 DEF Keeps
  <2> QED BY <2>1, <2>2
<1>2. ASSUME call'[j].pc \in {"idle", "begun", "pinned", "drafted", "finished"}, job'[j].status # "absent"
      PROVE Keeps(j)'
  BY <1>2 DEF Keeps
<1>3. CASE JobStep(j)
  <2>0. ASSUME job[j].status # "absent" PROVE job'[j].status # "absent" /\ job'[j].definition = job[j].definition
    BY <2>0, JobRowKept
  <2>1. ASSUME NEW id, NEW r, NEW action, Enqueue(j, id, r, action) PROVE Keeps(j)'
    BY <1>1, <2>1 DEF Enqueue
  <2>2. CASE Claim(j)
    BY <1>0, <1>2, <2>0, <2>2 DEF Claim
  <2>3. ASSUME call[j].pc # "idle" PROVE job[j].status # "absent"
    BY <2>3 DEF Keeps
  <2>4. CASE AssertPinned(j)
    BY <1>2, <2>0, <2>3, <2>4, HandlerEffects DEF AssertPinned, Handler
  <2>5. CASE ShowPinned(j)
    <3>1. job[j].status # "absent"
      BY <2>3, <2>5 DEF ShowPinned, Handler
    <3>2. CASE job[j].action = "preview"
      <4>1. call'[j] = [pc |-> "finished"]
        BY <1>0, <2>5, <3>2 DEF ShowPinned
      <4> QED BY <1>2, <2>0, <3>1, <4>1
    <3>3. CASE job[j].action # "preview"
      <4> DEFINE digest == Digest(job[j].workflow, Target(job[j].workflow, job[j].revision), job[j].definition)
      <4>1. call'[j] = [pc |-> "seen", workflow |-> job[j].workflow, revision |-> job[j].revision,
                        digest |-> digest, shown |-> Operations(job[j].definition)]
        BY <2>5, <3>3, HandlerEffects, Zenon
      <4>2. digest.definition = job[j].definition
        BY DEF Digest
      <4> HIDE DEF digest
      <4>3. call'[j].pc = "seen" /\ call'[j].digest = digest
        BY <4>1
      <4> QED BY <2>0, <3>1, <4>2, <4>3 DEF Keeps
    <3> QED BY <3>2, <3>3
  <2>6. CASE GeneratePinned(j)
    <3>1. job[j].status # "absent" /\ call[j].digest.definition = job[j].definition
      BY <2>3, <2>6 DEF GeneratePinned, Handler, Keeps
    <3>2. PICK d : d = call[j].digest.definition /\ call'[j].operations = Operations(d)
                   /\ call'[j].pc = IF Wrappers(d) THEN "wrappers" ELSE "compiled"
      <4> DEFINE d == workflow[call[j].workflow].revisions[Target(call[j].workflow, call[j].revision)]
      <4>1. /\ d = call[j].digest.definition
            /\ call'[j] = [pc |-> IF Wrappers(d) THEN "wrappers" ELSE "compiled", workflow |-> call[j].workflow,
                           revision |-> Target(call[j].workflow, call[j].revision), operations |-> Operations(d),
                           shown |-> call[j].shown]
        BY <2>6, HandlerEffects, Zenon
      <4> HIDE DEF d
      <4>2. call'[j].operations = Operations(d) /\ call'[j].pc = IF Wrappers(d) THEN "wrappers" ELSE "compiled"
        BY <4>1
      <4> QED BY <4>1, <4>2
    <3>3. Operations(d).definition = d
      BY DEF Operations
    <3>4. call'[j].pc \in {"wrappers", "compiled"}
      BY <3>2
    <3>5. call'[j].operations.definition = job'[j].definition /\ job'[j].status # "absent"
      BY <2>0, <3>1, <3>2, <3>3
    <3> QED BY <3>4, <3>5 DEF Keeps
  <2>7. CASE StagePinned(j)
    <3>1. call[j].pc = "wrappers" /\ job[j].status # "absent" /\ call[j].operations.definition = job[j].definition
      BY <2>3, <2>7 DEF StagePinned, Handler, Keeps
    <3>2. call'[j] = [pc |-> "compiled", workflow |-> call[j].workflow, revision |-> call[j].revision,
                      operations |-> call[j].operations, shown |-> call[j].shown]
      BY <2>7, HandlerEffects, Zenon
    <3>3. call'[j].pc = "compiled" /\ call'[j].operations = call[j].operations
      BY <3>2
    <3> QED BY <2>0, <3>1, <3>3 DEF Keeps
  <2>8. ASSUME NEW p \in PlanId, CommitPinned(j, p) PROVE Keeps(j)'
    <3>1. call'[j].pc = "drafted"
      BY <1>0, <2>8 DEF CommitPinned
    <3> QED BY <1>2, <2>0, <2>3, <2>8, <3>1 DEF CommitPinned, Handler
  <2>9. CASE ConfirmDraft(j)
    <3>1. call'[j].pc = "finished"
      BY <1>0, <2>9 DEF ConfirmDraft
    <3> QED BY <1>2, <2>0, <2>3, <2>9, <3>1 DEF ConfirmDraft, Handler
  <2>10. CASE Finish(j) \/ HandlerFails(j) \/ CompilingFails(j) \/ Crash(j) \/ Abandon(j)
    <3>1. call'[j] = Idle /\ Idle.pc = "idle"
      BY <1>0, <2>10 DEF Finish, HandlerFails, CompilingFails, Crash, Abandon, Raise, Answer, Idle
    <3>2. job[j].status # "absent"
      BY <2>3, <2>10 DEF Finish, HandlerFails, CompilingFails, Crash, Abandon, Raise, Fenced
    <3> QED BY <1>2, <2>0, <3>1, <3>2
  <2>11. CASE Recover(j)
    BY <1>1, <2>11 DEF Recover
  <2> QED BY <1>3, <2>1, <2>2, <2>4, <2>5, <2>6, <2>7, <2>8, <2>9, <2>10, <2>11 DEF JobStep, HandlerStep
<1> QED BY <1>0, <1>1, <1>3, CallWritten

(* The plans there are after a step: those before, in another status at    *)
(* most, and the draft that was written.                                   *)
DraftedBy(p, t) ==
    /\ call[t].pc \in (IF t \in Job THEN {"compiled"} ELSE {"compiled", "rebuilt"})
    /\ SameRevision(t) /\ UNCHANGED workflow
    /\ \E rebuilds \in Definition \cup {None} :
          /\ rebuilds # None => call[t].pc = "rebuilt" /\ rebuilds = call[t].metadata.definition
          /\ Draft(t, p, rebuilds)

LEMMA PlanWritten ==
    ASSUME TypeOK, [Next]_vars, NEW p \in PlanId, Exists(p)'
    PROVE  \/ /\ Exists(p)
              /\ plan'[p].workflow = plan[p].workflow /\ plan'[p].revision = plan[p].revision
              /\ plan'[p].operations = plan[p].operations /\ plan'[p].shown = plan[p].shown
              /\ plan'[p].by = plan[p].by /\ plan'[p].rebuilds = plan[p].rebuilds
           \/ \E t \in Thread : DraftedBy(p, t)
<1> USE DEF TypeOK, Exists
<1> DEFINE Goal == \/ /\ Exists(p)
                      /\ plan'[p].workflow = plan[p].workflow /\ plan'[p].revision = plan[p].revision
                      /\ plan'[p].operations = plan[p].operations /\ plan'[p].shown = plan[p].shown
                      /\ plan'[p].by = plan[p].by /\ plan'[p].rebuilds = plan[p].rebuilds
                   \/ \E t \in Thread : DraftedBy(p, t)
<1>1. CASE plan'[p] = plan[p]
  BY <1>1
<1>2. ASSUME NEW t \in Thread, NEW q \in PlanId, DraftedBy(q, t) PROVE Goal
  <2>1. p = q \/ plan'[p] = plan[p]
    BY <1>2 DEF DraftedBy, Draft
  <2> QED BY <1>1, <1>2, <2>1
<1>3. ASSUME NEW c \in Client, NEW q \in PlanId, GenerateCommit(c, q) PROVE Goal
  BY <1>2, <1>3, WorkflowAssumption DEF GenerateCommit, Thread, DraftedBy
<1>4. ASSUME NEW c \in Client, NEW q \in PlanId, RebuildCommit(c, q) PROVE Goal
  <2>1. call[c].metadata.definition \in Definition /\ c \in Thread /\ c \notin Job
    BY <1>4, CallFields, WorkflowAssumption DEF RebuildCommit, OperationsRow, Thread
  <2> QED BY <1>2, <1>4, <2>1 DEF RebuildCommit, DraftedBy
<1>5. ASSUME NEW j \in Job, NEW q \in PlanId, CommitPinned(j, q) PROVE Goal
  BY <1>2, <1>5 DEF CommitPinned, Handler, Thread, DraftedBy
<1>6. ASSUME NEW q \in PlanId, NEW s \in PlanStatus \ {"draft"}, Advance(q, s) PROVE Goal
  <2>1. CASE p = q
    BY <1>6, <2>1, AdvanceEffect
  <2>2. CASE p # q
    BY <1>1, <1>6, <2>2 DEF Advance
  <2> QED BY <2>1, <2>2
<1>7. ASSUME NEW q \in PlanId, LeavePlan(q) PROVE Goal
  BY <1>1, <1>7 DEF LeavePlan
<1>8. CASE UNCHANGED plan
  BY <1>1, <1>8
<1>9. ASSUME NEW c \in Client, ClientStep(c) PROVE Goal
  BY <1>3, <1>4, <1>8, <1>9 DEF ClientStep, PreviewWorkflow, GenerateRead, GenerateStructural, RebuildRead, GiveUp,
     RebuildPreview
<1>10. ASSUME NEW j \in Job, JobStep(j) PROVE Goal
  BY <1>5, <1>8, <1>10 DEF JobStep, HandlerStep, Enqueue, Claim, AssertPinned, ShowPinned, GeneratePinned, StagePinned,
     ConfirmDraft, Finish, HandlerFails, Abandon, CompilingFails, Crash, Recover
<1>11. CASE Editing
  BY <1>8, <1>11 DEF Editing, Create, Update, Rollback, AddRevision, Archive, PermanentDelete, NotEdit
<1> QED BY <1>6, <1>7, <1>8, <1>9, <1>10, <1>11 DEF Next, vars, Drift

LEMMA NextDrafts ==
    ASSUME TypeOK, DraftIsWhatWasPreviewed, JobsOfPlans, \A t \in Thread : Shown(t), \A j \in Job : Keeps(j), [Next]_vars
    PROVE  DraftIsWhatWasPreviewed' /\ JobsOfPlans'
<1> SUFFICES ASSUME NEW p \in PlanId, Exists(p)'
             PROVE  /\ plan'[p].operations = plan'[p].shown
                    /\ plan'[p].by \in Job => /\ job'[plan'[p].by].status # "absent"
                                              /\ plan'[p].operations.definition = job'[plan'[p].by].definition
                    /\ plan'[p].rebuilds # None => plan'[p].operations.definition = plan'[p].rebuilds
  BY DEF DraftIsWhatWasPreviewed, JobsOfPlans
<1>1. CASE /\ Exists(p)
           /\ plan'[p].operations = plan[p].operations /\ plan'[p].shown = plan[p].shown
           /\ plan'[p].by = plan[p].by /\ plan'[p].rebuilds = plan[p].rebuilds
  BY <1>1, JobRowKept DEF DraftIsWhatWasPreviewed, JobsOfPlans
<1>2. ASSUME NEW t \in Thread, DraftedBy(p, t)
      PROVE  /\ plan'[p].operations = plan'[p].shown
             /\ plan'[p].by \in Job => /\ job'[plan'[p].by].status # "absent"
                                       /\ plan'[p].operations.definition = job'[plan'[p].by].definition
             /\ plan'[p].rebuilds # None => plan'[p].operations.definition = plan'[p].rebuilds
  <2>1. PICK rebuilds \in Definition \cup {None} :
              /\ rebuilds # None => call[t].pc = "rebuilt" /\ rebuilds = call[t].metadata.definition
              /\ Draft(t, p, rebuilds) /\ call[t].pc \in {"compiled", "rebuilt"}
              /\ t \in Job => call[t].pc = "compiled"
    BY <1>2 DEF DraftedBy
  <2>2. /\ plan'[p].operations = call[t].operations /\ plan'[p].shown = call[t].shown
        /\ plan'[p].by = t /\ plan'[p].rebuilds = rebuilds
    BY <2>1, DraftType DEF TypeOK
  <2>3. call[t].operations = call[t].shown /\ (call[t].pc = "rebuilt" => call[t].metadata.definition = call[t].operations.definition)
    BY <2>1 DEF Shown
  <2>4. ASSUME t \in Job
        PROVE  job'[t].status # "absent" /\ call[t].operations.definition = job'[t].definition
    <3>1. job[t].status # "absent" /\ call[t].operations.definition = job[t].definition
      BY <2>1, <2>4 DEF Keeps
    <3> QED BY <2>4, <3>1, JobRowKept
  <2> QED BY <2>1, <2>2, <2>3, <2>4
<1> QED BY <1>1, <1>2, PlanWritten

-----------------------------------------------------------------------------
(* The drafts a job makes.                                                 *)

(* Only its own steps write the row, the call and the count of a job.      *)
LEMMA OwnWritten ==
    ASSUME TypeOK, [Next]_vars, NEW j \in Job
    PROVE  JobStep(j) \/ (job'[j] = job[j] /\ call'[j] = call[j] /\ drafts'[j] = drafts[j])
<1> USE DEF TypeOK, Thread
<1>1. ASSUME NEW c \in Client, ClientStep(c)
      PROVE  job'[j] = job[j] /\ call'[j] = call[j] /\ drafts'[j] = drafts[j]
  <2>1. c # j
    BY WorkflowAssumption
  <2> QED BY <1>1, <2>1 DEF ClientStep, PreviewWorkflow, Show, GenerateRead, ReadAgain, GenerateStructural, Stage, RebuildRead,
     GiveUp, Answer, GenerateCommit, RebuildPreview, RebuildCommit
<1>2. ASSUME NEW k \in Job, JobStep(k), k # j
      PROVE  job'[j] = job[j] /\ call'[j] = call[j] /\ drafts'[j] = drafts[j]
  BY <1>2 DEF JobStep, HandlerStep, Enqueue, Claim, AssertPinned, ShowPinned, Show, GeneratePinned, ReadAgain, StagePinned,
     Stage, CommitPinned, ConfirmDraft, Finish, HandlerFails, Abandon, CompilingFails, Crash, Recover, Raise, Answer
<1>3. ASSUME ~\E c \in Client : ClientStep(c), ~\E k \in Job : JobStep(k)
      PROVE  job'[j] = job[j] /\ call'[j] = call[j] /\ drafts'[j] = drafts[j]
  BY <1>3 DEF Next, vars, Editing, Create, Update, Rollback, AddRevision, Archive, PermanentDelete, NotEdit,
     LeavePlan, Advance, Drift
<1> QED BY <1>1, <1>2, <1>3

LEMMA NextCounted ==
    ASSUME TypeOK, NEW j \in Job, Keeps(j), Counted(j), [Next]_vars
    PROVE  Counted(j)'
<1> USE DEF TypeOK
<1>0. j \in Thread
  BY DEF Thread
<1>1. CASE job'[j] = job[j] /\ call'[j] = call[j] /\ drafts'[j] = drafts[j]
  BY <1>1 DEF Counted
<1>2. ASSUME call[j].pc # "idle"
      PROVE  /\ job[j].status \in {"running", "failed"} /\ job'[j].action = job[j].action
             /\ job[j].action \in {"preview", "draft"}
  BY <1>2, JobFields, JobRowKept DEF Counted, Keeps
<1>3. ASSUME NEW id, NEW r, NEW action, Enqueue(j, id, r, action) PROVE Counted(j)'
  <2>1. job'[j].status = "queued" /\ UNCHANGED <<call, drafts>> /\ job[j].status = "absent"
    BY <1>3 DEF Enqueue
  <2> QED BY <2>1 DEF Counted
<1>4. CASE Claim(j)
  <2>1. job'[j].status = "running"
    BY <1>4, StatusWritten DEF Claim
  <2>2. call'[j].pc = "begun" /\ UNCHANGED drafts /\ job[j].status = "queued"
    BY <1>0, <1>4 DEF Claim
  <2> QED BY <2>1, <2>2 DEF Counted
<1>5. ASSUME UNCHANGED <<job, drafts>>, call[j].pc \in {"begun", "pinned", "seen", "wrappers"},
             call'[j].pc \in {"pinned", "seen", "wrappers", "compiled", "finished"},
             call'[j].pc \in {"seen", "wrappers", "compiled"} => job[j].action = "draft",
             call'[j].pc = "finished" => job[j].action = "preview"
      PROVE  Counted(j)'
  BY <1>2, <1>5 DEF Counted
<1>6. CASE AssertPinned(j)
  <2>1. call'[j] = [pc |-> "pinned"]
    BY <1>6, HandlerEffects, Zenon
  <2>2. UNCHANGED <<job, drafts>> /\ call[j].pc = "begun"
    BY <1>6 DEF AssertPinned, Handler
  <2> QED BY <1>5, <2>1, <2>2
<1>7. CASE ShowPinned(j)
  <2>1. UNCHANGED <<job, drafts>> /\ call[j].pc = "pinned" /\ job[j].action \in {"preview", "draft"}
    BY <1>2, <1>7 DEF ShowPinned, Handler
  <2>2. CASE job[j].action = "preview"
    <3>1. call'[j].pc = "finished"
      BY <1>0, <1>7, <2>2 DEF ShowPinned
    <3> QED BY <1>5, <2>1, <2>2, <3>1
  <2>3. CASE job[j].action = "draft"
    <3>1. call'[j].pc = "seen"
      BY <1>0, <1>7, <2>3 DEF ShowPinned, Show
    <3> QED BY <1>5, <2>1, <2>3, <3>1
  <2> QED BY <2>1, <2>2, <2>3
<1>8. CASE GeneratePinned(j)
  <2>1. call'[j].pc \in {"wrappers", "compiled"}
    BY <1>0, <1>8 DEF GeneratePinned, ReadAgain
  <2>2. UNCHANGED <<job, drafts>> /\ call[j].pc = "seen" /\ job[j].action = "draft"
    BY <1>8 DEF GeneratePinned, Handler, Counted
  <2> QED BY <1>5, <2>1, <2>2
<1>9. CASE StagePinned(j)
  <2>1. call'[j] = [pc |-> "compiled", workflow |-> call[j].workflow, revision |-> call[j].revision,
                    operations |-> call[j].operations, shown |-> call[j].shown]
    BY <1>9, HandlerEffects, Zenon
  <2>2. UNCHANGED <<job, drafts>> /\ call[j].pc = "wrappers" /\ job[j].action = "draft"
    BY <1>9 DEF StagePinned, Handler, Counted
  <2> QED BY <1>5, <2>1, <2>2
<1>10. ASSUME NEW p \in PlanId, CommitPinned(j, p) PROVE Counted(j)'
  <2>1. call'[j].pc = "drafted" /\ drafts'[j] = 1 /\ call[j].pc = "compiled" /\ UNCHANGED job
    BY <1>0, <1>10 DEF CommitPinned, Handler, Counted
  <2> QED BY <1>2, <2>1 DEF Counted
<1>11. CASE ConfirmDraft(j)
  <2>1. call'[j].pc = "finished" /\ UNCHANGED <<job, drafts>> /\ call[j].pc = "drafted"
    BY <1>0, <1>11 DEF ConfirmDraft, Handler
  <2> QED BY <1>2, <2>1 DEF Counted
<1>12. CASE Finish(j)
  <2>1. job'[j].status = "completed" /\ job'[j].action = job[j].action
    BY <1>12, StatusWritten DEF Finish, Fenced
  <2>2. call'[j].pc = "idle" /\ UNCHANGED drafts /\ call[j].pc = "finished"
    BY <1>0, <1>12 DEF Finish, Handler, Answer, Idle
  <2> QED BY <2>1, <2>2 DEF Counted
<1>13. ASSUME Fenced(j), job' = [job EXCEPT ![j].status = "failed"], UNCHANGED drafts,
              call'[j] = call[j] \/ call'[j] = Idle
       PROVE  Counted(j)'
  <2>1. job'[j].status = "failed" /\ job'[j].action = job[j].action
    BY <1>13, StatusWritten DEF Fenced
  <2> QED BY <1>13, <2>1 DEF Counted, Idle
<1>14. CASE HandlerFails(j) \/ CompilingFails(j) \/ Recover(j)
  BY <1>0, <1>13, <1>14 DEF HandlerFails, CompilingFails, Recover, Raise, Answer
<1>15. CASE Crash(j) \/ Abandon(j)
  <2>1. call'[j].pc = "idle" /\ UNCHANGED <<job, drafts>> /\ call[j].pc # "idle"
    BY <1>0, <1>15 DEF Crash, Abandon, Answer, Idle
  <2> QED BY <1>2, <2>1 DEF Counted
<1>16. CASE JobStep(j)
  BY <1>3, <1>4, <1>6, <1>7, <1>8, <1>9, <1>10, <1>11, <1>12, <1>14, <1>15, <1>16 DEF JobStep, HandlerStep
<1> QED BY <1>1, <1>16, OwnWritten

-----------------------------------------------------------------------------
(* What disturbs a job.                                                    *)

LEMMA DisturbedGrows ==
    ASSUME TypeOK, [Next]_vars
    PROVE  disturbed \subseteq disturbed'
<1>1. ASSUME NEW c \in Client, ClientStep(c) PROVE UNCHANGED disturbed
  BY <1>1 DEF ClientStep, PreviewWorkflow, GenerateRead, GenerateStructural, RebuildRead, GiveUp, GenerateCommit,
     RebuildPreview, RebuildCommit
<1>2. ASSUME NEW j \in Job, JobStep(j) PROVE disturbed \subseteq disturbed'
  BY <1>2 DEF JobStep, HandlerStep, Enqueue, Claim, AssertPinned, ShowPinned, GeneratePinned, StagePinned, CommitPinned,
     ConfirmDraft, Finish, HandlerFails, Abandon, CompilingFails, Crash, Recover, Handler, Disturb
<1> QED BY <1>1, <1>2 DEF Next, vars, Editing, Create, Update, Rollback, AddRevision, Archive, PermanentDelete, NotEdit,
    LeavePlan, Advance, Drift, Disturb

(* The revision a job that nothing disturbs is pinned to stays usable.     *)
LEMMA PinnedStays ==
    ASSUME TypeOK, [Next]_vars, NEW j \in Job, job[j].status \in {"queued", "running"}, j \notin disturbed', Pinned(j)
    PROVE  Pinned(j)'
<1>0. PICK id \in Id, r \in Nat \ {0}, d \in Definition :
         id = job[j].workflow /\ r = job[j].revision /\ d = job[j].definition
  BY JobFields
<1>1. job'[j].workflow = id /\ job'[j].revision = r /\ job'[j].definition = d
  BY <1>0, JobRowKept
<1>2. workflow[id] # None /\ ~workflow[id].archived /\ HasRevision(id, r, d)
  BY <1>0 DEF Pinned, Usable
<1>3. j \in OnWorkflow(id)
  BY <1>0 DEF OnWorkflow
<1>4. workflow'[id] # None /\ ~workflow'[id].archived /\ HasRevision(id, r, d)'
  <2>1. CASE Editing
    <3>1. /\ workflow'[id] # None /\ HasRevision(id, r, d)'
          /\ \/ workflow'[id].archived = workflow[id].archived
             \/ disturbed' = disturbed \cup {k \in OnWorkflow(id) : job[k].status \in {"queued", "running"}}
      BY <1>1, <1>2, <2>1, EditingKeepsRevisions
    <3>2. workflow'[id].archived = workflow[id].archived
      BY <1>3, <3>1
    <3> QED BY <1>2, <3>1, <3>2
  <2>2. CASE UNCHANGED workflow
    BY <1>2, <2>2 DEF HasRevision, Current
  <2>3. ASSUME NEW c \in Client, ClientStep(c) PROVE UNCHANGED workflow
    BY <2>3 DEF ClientStep, PreviewWorkflow, GenerateRead, GenerateStructural, RebuildRead, GiveUp, GenerateCommit,
       RebuildPreview, RebuildCommit
  <2>4. ASSUME NEW k \in Job, JobStep(k) PROVE UNCHANGED workflow
    BY <2>4 DEF JobStep, HandlerStep, Enqueue, Claim, AssertPinned, ShowPinned, GeneratePinned, StagePinned, CommitPinned,
       ConfirmDraft, Finish, HandlerFails, Abandon, CompilingFails, Crash, Recover, Handler
  <2> QED BY <2>1, <2>2, <2>3, <2>4 DEF Next, vars, LeavePlan, Advance, Drift
<1> QED BY <1>1, <1>4 DEF Pinned, Usable

(* So do the inputs its definition reads.                                  *)
LEMMA InputsStay ==
    ASSUME TypeOK, [Next]_vars, NEW j \in Job, job[j].status \in {"queued", "running"}, j \notin disturbed'
    PROVE  \A i \in Reads(job[j].definition) : live'[i] = live[i]
<1>1. Reads(job[j].definition) \subseteq Input
  BY JobFields, Compiled
<1>2. ASSUME NEW i \in Input, Drift(i) PROVE \A k \in Reads(job[j].definition) : live'[k] = live[k]
  <2>1. i \notin Reads(job[j].definition)
    BY <1>2 DEF Drift, Disturb
  <2> QED BY <1>1, <1>2, <2>1 DEF Drift, TypeOK
<1>3. ASSUME NEW c \in Client, ClientStep(c) PROVE UNCHANGED live
  BY <1>3 DEF ClientStep, PreviewWorkflow, GenerateRead, GenerateStructural, RebuildRead, GiveUp, GenerateCommit,
     RebuildPreview, RebuildCommit
<1>4. ASSUME NEW k \in Job, JobStep(k) PROVE UNCHANGED live
  BY <1>4 DEF JobStep, HandlerStep, Enqueue, Claim, AssertPinned, ShowPinned, GeneratePinned, StagePinned, CommitPinned,
     ConfirmDraft, Finish, HandlerFails, Abandon, CompilingFails, Crash, Recover, Handler
<1>5. CASE UNCHANGED live
  BY <1>5
<1> QED BY <1>2, <1>3, <1>4, <1>5 DEF Next, vars, LeavePlan, Advance, Editing, Create, Update, Rollback, AddRevision,
    Archive, PermanentDelete, NotEdit

(* And the draft it has made.                                              *)
LEMMA DraftStays ==
    ASSUME TypeOK, [Next]_vars, NEW j \in Job, job[j].status \in {"queued", "running"}, j \notin disturbed',
           NEW p \in PlanId, IsDraft(p), plan[p].by = j
    PROVE  IsDraft(p)' /\ plan'[p].by = j
<1> USE DEF IsDraft, Exists, TypeOK
<1>1. CASE plan'[p] = plan[p]
  BY <1>1
<1>2. ASSUME NEW t, NEW q \in PlanId, NEW rebuilds, Draft(t, q, rebuilds), NewPlanId(q) PROVE plan'[p] = plan[p]
  BY <1>2 DEF Draft, NewPlanId
<1>3. ASSUME NEW q \in PlanId, NEW s \in PlanStatus \ {"draft"}, Advance(q, s) PROVE plan'[p] = plan[p]
  BY <1>3 DEF Advance, Disturb
<1>4. ASSUME NEW q \in PlanId, LeavePlan(q) PROVE plan'[p] = plan[p]
  BY <1>4 DEF LeavePlan, Disturb
<1>5. ASSUME NEW c \in Client, ClientStep(c) PROVE plan'[p] = plan[p]
  BY <1>2, <1>5 DEF ClientStep, PreviewWorkflow, GenerateRead, GenerateStructural, RebuildRead, GiveUp, GenerateCommit,
     RebuildPreview, RebuildCommit
<1>6. ASSUME NEW k \in Job, JobStep(k) PROVE plan'[p] = plan[p]
  BY <1>2, <1>6 DEF JobStep, HandlerStep, Enqueue, Claim, AssertPinned, ShowPinned, GeneratePinned, StagePinned,
     CommitPinned, ConfirmDraft, Finish, HandlerFails, Abandon, CompilingFails, Crash, Recover
<1> QED BY <1>1, <1>3, <1>4, <1>5, <1>6 DEF Next, vars, Drift, Editing, Create, Update, Rollback, AddRevision,
    Archive, PermanentDelete, NotEdit

LEMMA CompiledStays ==
    ASSUME TypeOK, [Next]_vars, NEW j \in Job, job[j].status \in {"queued", "running"}, j \notin disturbed',
           NEW id, NEW r, NEW d, d = job[j].definition
    PROVE  Operations(d)' = Operations(d) /\ Digest(id, r, d)' = Digest(id, r, d)
<1>1. \A i \in Reads(d) : live'[i] = live[i]
  BY InputsStay
<1>2. [i \in Reads(d) |-> live'[i]] = [i \in Reads(d) |-> live[i]]
  BY <1>1
<1> QED BY <1>2 DEF Operations, Digest
-----------------------------------------------------------------------------
(* A job fails for a reason.                                               *)

(* The checks of a job that nothing has disturbed pass.                    *)
LEMMA NotRefused ==
    ASSUME TypeOK, NEW j \in Job, Keeps(j), Counted(j), job[j].status = "running", Pinned(j), OnCourse(j)
    PROVE  ~Refused(j)
<1> DEFINE id == job[j].workflow
           r == job[j].revision
           d == job[j].definition
<1>0. /\ id \in Id /\ r \in Nat \ {0} /\ d \in Definition
      /\ Usable(id) /\ r \in 1..Current(id) /\ workflow[id].revisions[r] = d /\ Target(id, r) = r
  BY JobFields DEF Pinned, HasRevision, Target
<1>1. Previewable(j)
  BY <1>0 DEF Previewable, PreviewRevision
<1>2. ASSUME call[j].pc = "seen" PROVE Compiles(j)
  <2>1. call[j].workflow = id /\ call[j].revision = r /\ call[j].digest = Digest(id, r, d)
    BY <1>2 DEF OnCourse
  <2> QED BY <1>0, <2>1 DEF Compiles
<1>3. ASSUME call[j].pc = "wrappers" PROVE AsProposed(j)
  <2>1. call[j].operations = Operations(d) /\ Mode[d] = "advanced"
    BY <1>3 DEF OnCourse
  <2>2. "files" \in Reads(d)
    BY <2>1 DEF Reads, OrganizerInputs
  <2>3. call[j].operations.inputs = [i \in Reads(d) |-> live[i]]
    BY <2>1 DEF Operations
  <2> QED BY <2>2, <2>3 DEF AsProposed
<1>4. ASSUME call[j].pc = "compiled" PROVE SameRevision(j) /\ SameLineage(j)
  <2>1. call[j].workflow = id /\ call[j].revision = r /\ call[j].operations = Operations(d)
    BY <1>4 DEF OnCourse
  <2>2. call[j].operations.definition = d /\ call[j].operations.inputs = [i \in Reads(d) |-> live[i]]
    BY <2>1 DEF Operations
  <2>3. ASSUME Mode[d] = "dedupe" PROVE "scan" \in Reads(d)
    BY <2>3 DEF Reads, DedupeInputs
  <2> QED BY <1>0, <2>1, <2>2, <2>3 DEF SameRevision, SameLineage, HasRevision
<1>5. ASSUME call[j].pc = "drafted" PROVE IsDraft(call[j].plan)
  BY <1>5 DEF OnCourse
<1> QED BY <1>1, <1>2, <1>3, <1>4, <1>5 DEF Refused

LEMMA FailsForAReason ==
    ASSUME TypeOK, NEW j \in Job, Keeps(j), Counted(j), Reliable(j), [Next]_vars, job'[j].status = "failed"
    PROVE  j \in disturbed'
<1> USE DEF TypeOK
<1>1. CASE job'[j] = job[j]
  BY <1>1, DisturbedGrows DEF Reliable
<1>2. ASSUME NEW id, NEW r, NEW action, Enqueue(j, id, r, action) PROVE FALSE
  BY <1>2 DEF Enqueue
<1>3. CASE Claim(j)
  <2>1. job'[j].status = "running"
    BY <1>3, StatusWritten DEF Claim
  <2> QED BY <2>1
<1>4. CASE Finish(j)
  <2>1. job'[j].status = "completed"
    BY <1>4, StatusWritten DEF Finish, Fenced
  <2> QED BY <2>1
<1>5. CASE HandlerFails(j)
  <2>1. j \in disturbed
    BY <1>5, NotRefused DEF HandlerFails, Raise, Fenced, Reliable
  <2> QED BY <2>1, DisturbedGrows
<1>6. CASE CompilingFails(j) \/ Recover(j)
  BY <1>6 DEF CompilingFails, Recover, Raise, Fenced, Disturb
<1>7. ASSUME JobStep(j)
      PROVE  \/ UNCHANGED job
             \/ \E id, r, action : Enqueue(j, id, r, action)
             \/ Claim(j) \/ Finish(j) \/ HandlerFails(j) \/ CompilingFails(j) \/ Recover(j)
  BY <1>7 DEF JobStep, HandlerStep, AssertPinned, ShowPinned, GeneratePinned, StagePinned, CommitPinned, ConfirmDraft,
     Abandon, Crash
<1> QED BY <1>1, <1>2, <1>3, <1>4, <1>5, <1>6, <1>7, OwnWritten

(* A job that nothing disturbs goes on as it began.                        *)
LEMMA NextOnCourse ==
    ASSUME TypeOK, NEW j \in Job, Keeps(j), Counted(j), job[j].status \in {"queued", "running"},
           Pinned(j), OnCourse(j), [Next]_vars,
           job'[j].status \in {"queued", "running"}, j \notin disturbed'
    PROVE  OnCourse(j)'
<1>c. \A id, r, d : d = job[j].definition => Operations(d)' = Operations(d) /\ Digest(id, r, d)' = Digest(id, r, d)
  BY CompiledStays
<1> USE DEF TypeOK
<1>0. PICK id \in Id, r \in Nat \ {0}, d \in Definition, operations \in {Operations(job[j].definition)},
           digest \in {Digest(job[j].workflow, job[j].revision, job[j].definition)} :
         /\ id = job[j].workflow /\ r = job[j].revision /\ d = job[j].definition
         /\ operations = Operations(d) /\ digest = Digest(id, r, d)
  BY JobFields
<1>1. /\ job'[j].workflow = id /\ job'[j].revision = r /\ job'[j].definition = d
      /\ Operations(d)' = operations /\ Digest(id, r, d)' = digest
  <2>1. Operations(d)' = Operations(d) /\ Digest(id, r, d)' = Digest(id, r, d)
    BY <1>0, <1>c
  <2> QED BY <1>0, <2>1, JobRowKept
<1>2. /\ r \in 1..Current(id) /\ workflow[id].revisions[r] = d /\ Target(id, r) = r
  BY <1>0 DEF Pinned, HasRevision, Target
<1>3. /\ j \in Thread /\ j \in DOMAIN call
      /\ call[j].pc \in {"seen", "wrappers", "compiled"} => call[j].workflow = id /\ call[j].revision = r
      /\ call[j].pc = "seen" => call[j].digest = digest
      /\ call[j].pc \in {"wrappers", "compiled"} => call[j].operations = operations
      /\ call[j].pc = "wrappers" => Mode[d] = "advanced"
      /\ call[j].pc = "drafted" => \E p \in PlanId : call[j].plan = p /\ IsDraft(p) /\ plan[p].by = j
  BY <1>0, CallFields DEF OnCourse, Thread
<1> DEFINE Goes(row) ==
             /\ row.pc \in {"begun", "pinned", "seen", "wrappers", "compiled", "drafted", "finished"}
             /\ row.pc \in {"seen", "wrappers", "compiled"} => row.workflow = id /\ row.revision = r
             /\ row.pc = "seen" => row.digest = digest
             /\ row.pc \in {"wrappers", "compiled"} => row.operations = operations
             /\ row.pc = "wrappers" => Mode[d] = "advanced"
             /\ row.pc = "drafted" => \E p \in PlanId : row.plan = p /\ IsDraft(p)' /\ plan'[p].by = j
<1>4. ASSUME Goes(call'[j]) PROVE OnCourse(j)'
  BY <1>1, <1>4 DEF OnCourse
<1>5. CASE job'[j] = job[j] /\ call'[j] = call[j]
  <2>1. call[j].pc = "drafted" => \E p \in PlanId : call[j].plan = p /\ IsDraft(p)' /\ plan'[p].by = j
    BY <1>3, DraftStays
  <2> QED BY <1>0, <1>1, <1>3, <1>5, <2>1 DEF OnCourse
<1> HIDE DEF Goes
<1>6. ASSUME NEW i, NEW q, NEW action, Enqueue(j, i, q, action) PROVE FALSE
  BY <1>6 DEF Enqueue
<1>7. CASE Claim(j)
  <2>1. call'[j] = [pc |-> "begun"]
    BY <1>3, <1>7 DEF Claim
  <2> QED BY <1>4, <2>1 DEF Goes
<1>8. CASE AssertPinned(j)
  <2>1. call'[j] = [pc |-> "pinned"]
    BY <1>8, HandlerEffects, Zenon
  <2> QED BY <1>4, <2>1 DEF Goes
<1>9. CASE ShowPinned(j)
  <2>1. CASE job[j].action = "preview"
    <3>1. call'[j] = [pc |-> "finished"]
      BY <1>3, <1>9, <2>1 DEF ShowPinned
    <3> QED BY <1>4, <3>1 DEF Goes
  <2>2. CASE job[j].action # "preview"
    <3>1. call'[j] = [pc |-> "seen", workflow |-> job[j].workflow, revision |-> job[j].revision,
                      digest |-> Digest(job[j].workflow, Target(job[j].workflow, job[j].revision), job[j].definition),
                      shown |-> Operations(job[j].definition)]
      BY <1>9, <2>2, HandlerEffects, Zenon
    <3>2. call'[j] = [pc |-> "seen", workflow |-> id, revision |-> r, digest |-> digest, shown |-> operations]
      BY <1>0, <1>2, <3>1
    <3> QED BY <1>4, <3>2 DEF Goes
  <2> QED BY <2>1, <2>2
<1>10. CASE GeneratePinned(j)
  <2>1. call[j].pc = "seen" /\ call[j].workflow = id /\ call[j].revision = r
    BY <1>3, <1>10 DEF GeneratePinned, Handler
  <2>2. call'[j] = [pc |-> IF Wrappers(d) THEN "wrappers" ELSE "compiled", workflow |-> id,
                    revision |-> r, operations |-> operations, shown |-> call[j].shown]
    BY <1>0, <1>2, <1>3, <1>10, <2>1 DEF GeneratePinned, ReadAgain
  <2>3. Wrappers(d) => Mode[d] = "advanced"
    BY DEF Wrappers
  <2> QED BY <1>4, <2>2, <2>3 DEF Goes
<1>11. CASE StagePinned(j)
  <2>1. call[j].pc = "wrappers"
    BY <1>11 DEF StagePinned, Handler
  <2>2. call'[j] = [pc |-> "compiled", workflow |-> call[j].workflow, revision |-> call[j].revision,
                    operations |-> call[j].operations, shown |-> call[j].shown]
    BY <1>11, HandlerEffects, Zenon
  <2>3. call'[j] = [pc |-> "compiled", workflow |-> id, revision |-> r, operations |-> operations, shown |-> call[j].shown]
    BY <1>3, <2>1, <2>2
  <2> QED BY <1>4, <2>3 DEF Goes
<1>12. ASSUME NEW p \in PlanId, CommitPinned(j, p) PROVE OnCourse(j)'
  <2>1. plan'[p] \in PlanRow /\ plan'[p].status = "draft" /\ plan'[p].by = j
    <3>1. call[j].pc = "compiled" /\ Draft(j, p, None)
      BY <1>12 DEF CommitPinned, Handler
    <3>2. plan' = [plan EXCEPT ![p] = [workflow |-> call[j].workflow, revision |-> call[j].revision,
                     operations |-> call[j].operations, status |-> "draft", held |-> TRUE, by |-> j, shown |-> call[j].shown,
                     rebuilds |-> None]]
      BY <3>1 DEF Draft
    <3>3. plan'[p] \in PlanRow
      BY <1>3, <3>1, DraftType
    <3> QED BY <3>2, <3>3
  <2>2. IsDraft(p)'
    BY <2>1, NoneAssumption DEF IsDraft, Exists
  <2>3. call'[j] = [pc |-> "drafted", plan |-> p]
    BY <1>3, <1>12 DEF CommitPinned
  <2> QED BY <1>4, <2>1, <2>2, <2>3 DEF Goes
<1>13. CASE ConfirmDraft(j)
  <2>1. call'[j] = [pc |-> "finished"]
    BY <1>3, <1>13 DEF ConfirmDraft
  <2> QED BY <1>4, <2>1 DEF Goes
<1>14. CASE Finish(j)
  <2>1. job'[j].status = "completed"
    BY <1>14, StatusWritten DEF Finish, Fenced
  <2> QED BY <2>1
<1>15. CASE HandlerFails(j) \/ CompilingFails(j) \/ Recover(j)
  <2>1. job'[j].status = "failed"
    BY <1>15, StatusWritten DEF HandlerFails, CompilingFails, Recover, Raise, Fenced
  <2> QED BY <2>1
<1>16. CASE Crash(j)
  BY <1>16 DEF Crash, Disturb
<1>17. CASE Abandon(j)
  BY <1>17 DEF Abandon, Fenced, Counted
<1>18. CASE JobStep(j)
  BY <1>6, <1>7, <1>8, <1>9, <1>10, <1>11, <1>12, <1>13, <1>14, <1>15, <1>16, <1>17, <1>18 DEF JobStep, HandlerStep
<1> QED BY <1>5, <1>18, OwnWritten

LEMMA NextReliable ==
    ASSUME TypeOK, NEW j \in Job, Keeps(j), Counted(j), Reliable(j), [Next]_vars
    PROVE  Reliable(j)'
<1>1. ASSUME job'[j].status \in {"queued", "running"}, j \notin disturbed'
      PROVE  Pinned(j)' /\ OnCourse(j)'
  <2>1. CASE job[j].status \in {"queued", "running"}
    <3>1. Pinned(j) /\ OnCourse(j)
      BY <1>1, <2>1, DisturbedGrows DEF Reliable
    <3> QED BY <1>1, <2>1, <3>1, PinnedStays, NextOnCourse
  <2>2. CASE job[j].status \notin {"queued", "running"}
    <3>1. JobStep(j)
      BY <1>1, <2>2, OwnWritten
    <3>2. ~(Claim(j) \/ Fenced(j)) /\ job'[j] # job[j]
      BY <1>1, <2>2 DEF Claim, Fenced
    <3>3. PICK id \in Id, r \in 1..MaxRevision, action \in {"preview", "draft"} : Enqueue(j, id, r, action)
      BY <3>1, <3>2 DEF JobStep, HandlerStep, AssertPinned, ShowPinned, GeneratePinned, StagePinned, CommitPinned,
         ConfirmDraft, Finish, HandlerFails, CompilingFails, Crash, Recover, Abandon, Raise
    <3>4. /\ job'[j] = [status |-> "queued", workflow |-> id, revision |-> r,
                        definition |-> workflow[id].revisions[r], action |-> action]
          /\ UNCHANGED <<workflow, call>> /\ Usable(id) /\ r \in 1..Current(id) /\ call[j].pc = "idle"
      BY <3>3 DEF Enqueue, TypeOK, Keeps
    <3>5. Pinned(j)'
      BY <3>4 DEF Pinned, Usable, HasRevision, Current
    <3>6. OnCourse(j)'
      BY <3>4 DEF OnCourse
    <3> QED BY <3>5, <3>6
  <2> QED BY <2>1, <2>2
<1> QED BY <1>1, FailsForAReason DEF Reliable

-----------------------------------------------------------------------------
(* The invariant, and what follows from it.                                *)

LEMMA InitInvariant == Init => Invariant
<1> SUFFICES ASSUME Init PROVE Invariant
  OBVIOUS
<1>1. TypeOK
  BY InitTypeOK
<1>2. HeldActive /\ NewPlanHasItsRevision /\ DraftIsWhatWasPreviewed /\ JobsOfPlans
  BY DEF Init, Exists, HeldActive, NewPlanHasItsRevision, DraftIsWhatWasPreviewed, JobsOfPlans
<1>3. \A t \in Thread : call[t].pc = "idle"
  BY DEF Init, Idle
<1>4. \A j \in Job : job[j].status = "absent" /\ drafts[j] = 0 /\ call[j].pc = "idle"
  BY <1>3 DEF Init, Thread
<1> QED BY <1>1, <1>2, <1>3, <1>4 DEF Invariant, Shown, Keeps, Counted, Reliable

LEMMA NextInvariant == Invariant /\ [Next]_vars => Invariant'
<1> SUFFICES ASSUME Invariant, [Next]_vars PROVE Invariant'
  OBVIOUS
<1>1. /\ TypeOK /\ HeldActive /\ NewPlanHasItsRevision /\ DraftIsWhatWasPreviewed /\ JobsOfPlans
      /\ \A t \in Thread : Shown(t)
      /\ \A j \in Job : Keeps(j) /\ Counted(j) /\ Reliable(j)
  BY DEF Invariant
<1>2. TypeOK' /\ HeldActive' /\ NewPlanHasItsRevision'
  BY <1>1, NextTypeOK, NextNewPlan
<1>3. DraftIsWhatWasPreviewed' /\ JobsOfPlans'
  BY <1>1, NextDrafts
<1>4. \A t \in Thread : Shown(t)'
  BY <1>1, NextShown
<1>5. \A j \in Job : Keeps(j)' /\ Counted(j)' /\ Reliable(j)'
  BY <1>1, NextKeeps, NextCounted, NextReliable
<1> QED BY <1>2, <1>3, <1>4, <1>5 DEF Invariant

LEMMA InvariantHolds == Spec => []Invariant
BY InitInvariant, NextInvariant, PTL DEF Spec

(* Every row, request and handler has the fields its place calls for.      *)
THEOREM WorkflowTypeCorrect == Spec => []TypeOK
<1>1. Invariant => TypeOK
  BY DEF Invariant
<1> QED BY <1>1, InvariantHolds, PTL

(* A plan that has been a draft, frozen, ready or executing ever since it  *)
(* was made names a revision that is there, with the definition it was     *)
(* compiled from: generate_plan and rebuild_plan look at the workflow      *)
(* again in the transaction that writes the draft, and permanent_delete    *)
(* refuses while such a plan exists.  It does not refuse for a plan that   *)
(* is partial, failed or stale, of which nothing is said from then on.     *)
THEOREM NewPlansHaveRevision == Spec => []NewPlanHasItsRevision
<1>1. Invariant => NewPlanHasItsRevision
  BY DEF Invariant
<1> QED BY <1>1, InvariantHolds, PTL

(* What is written is what was previewed, from the pinned definition for a *)
(* job and from the stale plan's definition for a rebuilt plan: the        *)
(* comparison of digests makes it so, whatever happens in between.         *)
THEOREM DraftsAreAsPreviewed == Spec => []DraftIsWhatWasPreviewed
<1>1. Invariant => DraftIsWhatWasPreviewed
  BY DEF Invariant
<1> QED BY <1>1, InvariantHolds, PTL

(* A completed job has made the drafts it was asked for, none makes two,   *)
(* and none fails that nothing has disturbed.                              *)
THEOREM SchedulesAreTruthful == Spec => []TruthfulSchedule
<1>1. Invariant => TruthfulSchedule
  BY DEF Invariant, Counted, Reliable, TruthfulSchedule
<1> QED BY <1>1, InvariantHolds, PTL

-----------------------------------------------------------------------------
(* The scheduler: types, one job per slot, and exact overlaps.             *)
CONSTANTS Schedule, Worker, Crons, TTL, MaxTime, Edited, MaxUpdates, MaxFaults, Manual
VARIABLES clock, lease, schedule, runs, enqueued, tick, last, request, faults

Sched == INSTANCE SchedulerDispatch

(* A non-empty set of minutes has an earliest one.                         *)
LEMMA Earliest ==
    ASSUME NEW S, S \subseteq Nat, S # {}
    PROVE  \E m \in S : \A n \in S : m <= n
<1> DEFINE R == OpToRel(<, Nat)
<1>1. IsWellFoundedOn(R, Nat)
  BY NatLessThanWellFounded
<1>2. \A m, n \in Nat : n < m => <<n, m>> \in R
  BY DEF OpToRel
<1> HIDE DEF R
<1>3. \E m \in S : \A n \in S : ~(<<n, m>> \in R)
  BY <1>1, WFMin
<1>4. \A m, n \in Nat : ~(n < m) => m <= n
  OBVIOUS
<1> QED BY <1>2, <1>3, <1>4, Zenon

(* The next occurrence is a minute, or lies beyond the clock's bound.      *)
LEMMA NextType ==
    ASSUME Sched!SchedulerAssumption, NEW cron \in Crons, NEW t
    PROVE  Sched!Next_(cron, t) \in Sched!Minutes \cup {Sched!Never}
<1> DEFINE later == {m \in cron : m > t}
<1>1. cron \subseteq Sched!Minutes /\ Sched!Minutes \subseteq Nat
  BY DEF Sched!SchedulerAssumption, Sched!Minutes
<1>2. CASE later = {}
  BY <1>2 DEF Sched!Next_
<1>3. CASE later # {}
  <2>1. \E m \in later : \A n \in later : m <= n
    BY <1>1, <1>3, Earliest
  <2>2. (CHOOSE m \in later : \A n \in later : m <= n) \in later
    BY <2>1
  <2> QED BY <1>1, <1>3, <2>2 DEF Sched!Next_
<1> QED BY <1>2, <1>3

-----------------------------------------------------------------------------
(* Type correctness                                                        *)

Ticks == [pc : {"idle", "acquire", "list", "process", "down"}, at : Sched!Minutes, due : SUBSET Schedule,
          listed : [Schedule -> 0..(MaxUpdates + 1)]]
ScheduleRows == [enabled : BOOLEAN, cron : Crons, revision : 1..(MaxUpdates + 1), next : Sched!Minutes \cup {Sched!Never}]
RunRows == [status : Sched!RunStatus, work : Sched!Work]

(* The frame of a worker that is not ticking, and the clock's first minute.*)
LEMMA TickType ==
    ASSUME Sched!SchedulerAssumption
    PROVE  Sched!NoTick \in Ticks /\ 0 \in Sched!Minutes
BY DEF Sched!SchedulerAssumption, Sched!NoTick, Ticks, Sched!Minutes

(* Writing the fields of a tick leaves well-formed ticks.                  *)
LEMMA TickWrites ==
    ASSUME NEW f \in [Worker -> Ticks], NEW w \in Worker
    PROVE  /\ \A pc \in {"idle", "acquire", "list", "process", "down"} : [f EXCEPT ![w].pc = pc] \in [Worker -> Ticks]
           /\ \A due \in SUBSET Schedule : [f EXCEPT ![w].due = due] \in [Worker -> Ticks]
           /\ \A listed \in [Schedule -> 0..(MaxUpdates + 1)] : [f EXCEPT ![w].listed = listed] \in [Worker -> Ticks]
<1>1. f[w] \in Ticks
  OBVIOUS
<1>2. ASSUME NEW pc \in {"idle", "acquire", "list", "process", "down"}
      PROVE  [f EXCEPT ![w].pc = pc] \in [Worker -> Ticks]
  <2>1. [f[w] EXCEPT !.pc = pc] \in Ticks
    BY <1>1 DEF Ticks
  <2> QED BY <2>1
<1>3. ASSUME NEW due \in SUBSET Schedule PROVE [f EXCEPT ![w].due = due] \in [Worker -> Ticks]
  <2>1. [f[w] EXCEPT !.due = due] \in Ticks
    BY <1>1 DEF Ticks
  <2> QED BY <2>1
<1>4. ASSUME NEW listed \in [Schedule -> 0..(MaxUpdates + 1)]
      PROVE  [f EXCEPT ![w].listed = listed] \in [Worker -> Ticks]
  <2>1. [f[w] EXCEPT !.listed = listed] \in Ticks
    BY <1>1 DEF Ticks
  <2> QED BY <2>1
<1> QED BY <1>2, <1>3, <1>4

(* Neither does an update spoil the row of a schedule, nor a job its run.  *)
LEMMA RowWrites ==
    ASSUME Sched!SchedulerAssumption, NEW f \in [Schedule -> ScheduleRows], NEW s \in Schedule, f[s].revision <= MaxUpdates,
           NEW enabled \in BOOLEAN, NEW cron \in Crons, NEW next \in Sched!Minutes \cup {Sched!Never}
    PROVE  [f EXCEPT ![s].enabled = enabled, ![s].cron = cron, ![s].revision = @ + 1, ![s].next = next]
               \in [Schedule -> ScheduleRows]
<1>1. f[s] \in ScheduleRows
  OBVIOUS
<1>2. [f[s] EXCEPT !.enabled = enabled, !.cron = cron, !.revision = @ + 1, !.next = next] \in ScheduleRows
  <2>1. f[s].revision + 1 \in 1..(MaxUpdates + 1)
    BY <1>1 DEF Sched!SchedulerAssumption, ScheduleRows
  <2>2. \A r \in 1..(MaxUpdates + 1) :
            [f[s] EXCEPT !.enabled = enabled, !.cron = cron, !.revision = r, !.next = next] \in ScheduleRows
    BY <1>1 DEF ScheduleRows
  <2> QED BY <2>1, <2>2
<1>3. [f EXCEPT ![s].enabled = enabled, ![s].cron = cron, ![s].revision = @ + 1, ![s].next = next]
          = [f EXCEPT ![s] = [f[s] EXCEPT !.enabled = enabled, !.cron = cron, !.revision = @ + 1, !.next = next]]
  BY <1>1 DEF ScheduleRows
<1> QED BY <1>2, <1>3

(* The end or the deletion of a job leaves well-formed runs.               *)
LEMMA WorkWrites ==
    ASSUME NEW f \in [Schedule -> [Sched!Key -> RunRows]], NEW s \in Schedule, NEW k \in Sched!Key, NEW work \in Sched!Work
    PROVE  [f EXCEPT ![s][k].work = work] \in [Schedule -> [Sched!Key -> RunRows]]
<1>1. [f[s][k] EXCEPT !.work = work] \in RunRows
  BY DEF RunRows
<1>2. [f[s] EXCEPT ![k] = [f[s][k] EXCEPT !.work = work]] \in [Sched!Key -> RunRows]
  BY <1>1
<1> QED BY <1>2

(* A dispatch writes well-formed runs, and counts its job.                 *)
LEMMA DispatchedType ==
    ASSUME Sched!TypeOK, NEW s \in Schedule, NEW k \in Sched!Key, Sched!Dispatched(s, k)
    PROVE  /\ runs' \in [Schedule -> [Sched!Key -> RunRows]]
           /\ enqueued' \in [Schedule -> [Sched!Key -> Nat]]
<1>1. PICK run \in IF Sched!Prior(s) /= {} THEN {Sched!Row("skipped_overlap", "none")}
                   ELSE {Sched!Row("failed", "none"), Sched!Row("dispatched", "active")} :
          /\ runs' = [runs EXCEPT ![s] = [j \in Sched!Key |->
                 IF j = k THEN run ELSE IF j \in Sched!Interrupted(s) THEN Sched!Row("failed", "none") ELSE runs[s][j]]]
          /\ enqueued' = [enqueued EXCEPT ![s][k] = @ + IF run.status = "dispatched" THEN 1 ELSE 0]
  BY DEF Sched!Dispatched
<1>2. run \in RunRows /\ Sched!Row("failed", "none") \in RunRows
  BY DEF RunRows, Sched!Row, Sched!RunStatus, Sched!Work
<1>3. runs \in [Schedule -> [Sched!Key -> RunRows]] /\ enqueued \in [Schedule -> [Sched!Key -> Nat]]
  BY DEF Sched!TypeOK, RunRows
<1> QED BY <1>1, <1>2, <1>3

(* Moving a schedule on keeps its row well-formed.                         *)
LEMMA AdvancedType ==
    ASSUME Sched!SchedulerAssumption, Sched!TypeOK, NEW s \in Schedule, NEW t, Sched!Advanced(s, t)
    PROVE  schedule' \in [Schedule -> ScheduleRows]
<1>1. schedule \in [Schedule -> ScheduleRows]
  BY DEF Sched!TypeOK, ScheduleRows
<1>2. Sched!Next_(schedule[s].cron, t) \in Sched!Minutes \cup {Sched!Never}
  BY <1>1, NextType DEF ScheduleRows
<1> QED BY <1>1, <1>2 DEF Sched!Advanced, ScheduleRows

(* The slot a dispatch takes is the minute the tick sampled.               *)
LEMMA SlotIsMinute ==
    ASSUME Sched!SchedulerAssumption, Sched!TypeOK, NEW w \in Worker, NEW s \in Schedule,
           Sched!IsDue(s, Sched!Sampled(w)), schedule[s].next >= Sched!Sampled(w)
    PROVE  schedule[s].next \in Sched!Key
<1>1. Sched!Sampled(w) \in Sched!Minutes /\ schedule[s].next \in Sched!Minutes \cup {Sched!Never}
  BY DEF Sched!TypeOK, Sched!Sampled
<1> QED BY <1>1 DEF Sched!SchedulerAssumption, Sched!IsDue, Sched!Minutes, Sched!Never, Sched!Key

(* The rows after a schedule has been processed.                           *)
LEMMA ProcessRows ==
    ASSUME Sched!SchedulerAssumption, Sched!TypeOK, NEW w \in Worker, NEW s \in Schedule, Sched!Process(w, s)
    PROVE  /\ schedule' \in [Schedule -> ScheduleRows]
           /\ runs' \in [Schedule -> [Sched!Key -> RunRows]]
           /\ enqueued' \in [Schedule -> [Sched!Key -> Nat]]
<1>0. /\ schedule \in [Schedule -> ScheduleRows]
      /\ runs \in [Schedule -> [Sched!Key -> RunRows]]
      /\ enqueued \in [Schedule -> [Sched!Key -> Nat]]
  BY DEF Sched!TypeOK, ScheduleRows, RunRows
<1>1. CASE UNCHANGED Sched!rows
  BY <1>0, <1>1 DEF Sched!rows
<1>2. CASE Sched!DispatchSlot(w, s)
  <2>1. schedule[s].next \in Sched!Key
    BY <1>2, SlotIsMinute DEF Sched!DispatchSlot
  <2> QED BY <1>2, <2>1, DispatchedType, AdvancedType DEF Sched!DispatchSlot
<1>3. CASE Sched!MissSlot(w, s) \/ Sched!HealPointer(w, s)
  BY <1>0, <1>3, AdvancedType DEF Sched!MissSlot, Sched!HealPointer
<1> QED BY <1>1, <1>2, <1>3 DEF Sched!Process, Sched!NotDue

(* Types hold initially.                                                   *)
LEMMA TypeInit ==
    ASSUME Sched!SchedulerAssumption
    PROVE  Sched!Init => Sched!TypeOK
<1> SUFFICES ASSUME Sched!Init PROVE Sched!TypeOK
  OBVIOUS
<1> USE DEF Sched!SchedulerAssumption
<1>1. PICK cron \in [Schedule -> Crons], reserved \in SUBSET Edited :
          /\ \A s \in reserved : 0 \in cron[s]
          /\ schedule = [s \in Schedule |->
                 [enabled |-> TRUE, cron |-> cron[s], revision |-> 1,
                  next |-> IF 0 \in cron[s] /\ s \notin reserved THEN 0 ELSE Sched!Next_(cron[s], 0)]]
          /\ runs = [s \in Schedule |-> [k \in Sched!Key |-> IF s \in reserved /\ k = 0 THEN Sched!Row("pending", "none")
                                                    ELSE Sched!NoRun]]
  BY DEF Sched!Init
<1>2. schedule \in [Schedule -> ScheduleRows]
  <2>1. \A s \in Schedule : Sched!Next_(cron[s], 0) \in Sched!Minutes \cup {Sched!Never}
    BY NextType
  <2> QED BY <1>1, <2>1, TickType DEF ScheduleRows
<1>3. runs \in [Schedule -> [Sched!Key -> RunRows]]
  BY <1>1 DEF RunRows, Sched!Row, Sched!NoRun, Sched!RunStatus, Sched!Work
<1>4. /\ clock \in Sched!Minutes /\ lease \in [owner : Worker \cup {None}, expires : 0..(MaxTime + TTL)]
      /\ enqueued \in [Schedule -> [Sched!Key -> Nat]]
      /\ last \in [Worker -> Sched!Minutes \cup {Sched!Never}]
      /\ request \in [of : Schedule \cup {None}, revision : 0..MaxUpdates, at : Sched!Minutes]
      /\ faults \in 0..MaxFaults
  BY TickType DEF Sched!Init, Sched!NoRequest, Sched!Minutes
<1>5. tick \in [Worker -> Ticks]
  BY TickType DEF Sched!Init
<1> QED BY <1>2, <1>3, <1>4, <1>5 DEF Sched!TypeOK, ScheduleRows, RunRows, Ticks

(* Every step preserves the types.                                         *)
LEMMA TypeStep ==
    ASSUME Sched!SchedulerAssumption
    PROVE  Sched!TypeOK /\ [Sched!Next]_Sched!vars => Sched!TypeOK'
<1> SUFFICES ASSUME Sched!TypeOK, [Sched!Next]_Sched!vars PROVE Sched!TypeOK'
  OBVIOUS
<1> USE DEF Sched!SchedulerAssumption
<1> DEFINE Kept == /\ schedule' \in [Schedule -> ScheduleRows]
                   /\ runs' \in [Schedule -> [Sched!Key -> RunRows]]
                   /\ enqueued' \in [Schedule -> [Sched!Key -> Nat]]
           Rest == /\ clock' \in Sched!Minutes /\ lease' \in [owner : Worker \cup {None}, expires : 0..(MaxTime + TTL)]
                   /\ tick' \in [Worker -> Ticks] /\ last' \in [Worker -> Sched!Minutes \cup {Sched!Never}]
                   /\ request' \in [of : Schedule \cup {None}, revision : 0..MaxUpdates, at : Sched!Minutes]
                   /\ faults' \in 0..MaxFaults
<1>0. /\ schedule \in [Schedule -> ScheduleRows]
      /\ runs \in [Schedule -> [Sched!Key -> RunRows]]
      /\ tick \in [Worker -> Ticks] /\ Sched!NoTick \in Ticks
      /\ clock \in Sched!Minutes /\ lease \in [owner : Worker \cup {None}, expires : 0..(MaxTime + TTL)]
      /\ enqueued \in [Schedule -> [Sched!Key -> Nat]] /\ last \in [Worker -> Sched!Minutes \cup {Sched!Never}]
      /\ request \in [of : Schedule \cup {None}, revision : 0..MaxUpdates, at : Sched!Minutes]
      /\ faults \in 0..MaxFaults
  BY TickType DEF Sched!TypeOK, ScheduleRows, RunRows, Ticks
<1>r. UNCHANGED Sched!rows => Kept
  BY <1>0 DEF Sched!rows
<1>q. Kept /\ Rest => Sched!TypeOK'
  BY DEF Sched!TypeOK, ScheduleRows, RunRows, Ticks
<1>t. \A w \in Worker : Sched!Sampled(w) \in Sched!Minutes /\ Sched!Sampled(w) + TTL \in 0..(MaxTime + TTL)
  BY <1>0 DEF Sched!Sampled, Ticks, Sched!Minutes
<1>c. ASSUME NEW w \in Worker, Sched!Completed(w)
      PROVE  tick' \in [Worker -> Ticks] /\ last' \in [Worker -> Sched!Minutes \cup {Sched!Never}]
  BY <1>0, <1>t, <1>c DEF Sched!Completed
<1>d. ASSUME NEW w \in Worker, Sched!Raised(w)
      PROVE  tick' \in [Worker -> Ticks] /\ last' \in [Worker -> Sched!Minutes \cup {Sched!Never}]
  BY <1>0, <1>d DEF Sched!Raised
<1>1. ASSUME NEW w \in Worker, Sched!StartTick(w) PROVE Sched!TypeOK'
  <2>1. tick' \in [Worker -> Ticks]
    BY <1>0, <1>1 DEF Sched!StartTick, Ticks, Sched!NoTick
  <2> QED BY <1>0, <1>1, <1>r, <1>q, <2>1 DEF Sched!StartTick
<1>2. ASSUME NEW w \in Worker, Sched!Acquire(w) PROVE Sched!TypeOK'
  <2>1. CASE Sched!Completed(w) /\ UNCHANGED lease
    BY <1>0, <1>2, <1>c, <1>r, <1>q, <2>1 DEF Sched!Acquire
  <2>2. CASE /\ lease' = [owner |-> w, expires |-> Sched!Sampled(w) + TTL]
             /\ tick' = [tick EXCEPT ![w].pc = "list"]
             /\ UNCHANGED last
    <3>1. tick' \in [Worker -> Ticks]
      BY <1>0, <2>2, TickWrites
    <3>2. lease' \in [owner : Worker \cup {None}, expires : 0..(MaxTime + TTL)]
      BY <1>t, <2>2
    <3> QED BY <1>0, <1>2, <1>r, <1>q, <2>2, <3>1, <3>2 DEF Sched!Acquire
  <2> QED BY <1>2, <2>1, <2>2 DEF Sched!Acquire
<1>3. ASSUME NEW w \in Worker, Sched!ListDue(w) PROVE Sched!TypeOK'
  <2> DEFINE due == {s \in Schedule : Sched!IsDue(s, Sched!Sampled(w))}
  <2>1. CASE due = {}
    BY <1>0, <1>3, <1>c, <1>r, <1>q, <2>1 DEF Sched!ListDue
  <2>2. CASE due # {}
    <3>1. [s \in Schedule |-> schedule[s].revision] \in [Schedule -> 0..(MaxUpdates + 1)]
      BY <1>0 DEF ScheduleRows
    <3>2. tick' = [tick EXCEPT ![w].pc = "process", ![w].due = due,
                               ![w].listed = [s \in Schedule |-> schedule[s].revision]]
      BY <1>3, <2>2 DEF Sched!ListDue
    <3> HIDE DEF due
    <3>3. due \in SUBSET Schedule
      BY DEF due
    <3>4. [tick EXCEPT ![w].pc = "process"] \in [Worker -> Ticks]
      BY <1>0, TickWrites
    <3>5. [tick EXCEPT ![w].pc = "process", ![w].due = due] \in [Worker -> Ticks]
      BY <3>3, <3>4, TickWrites
    <3>6. tick' \in [Worker -> Ticks]
      BY <3>1, <3>2, <3>5, TickWrites
    <3> QED BY <1>0, <1>3, <1>r, <1>q, <2>2, <3>6 DEF Sched!ListDue, due
  <2> QED BY <2>1, <2>2
<1>4. ASSUME NEW w \in Worker, NEW s \in Schedule, Sched!Process(w, s) PROVE Sched!TypeOK'
  <2>1. Kept
    BY <1>4, ProcessRows
  <2>2. CASE Sched!Raised(w)
    BY <1>0, <1>4, <1>d, <1>q, <2>1, <2>2 DEF Sched!Process
  <2>3. CASE Sched!Completed(w)
    BY <1>0, <1>4, <1>c, <1>q, <2>1, <2>3 DEF Sched!Process
  <2>4. CASE tick' = [tick EXCEPT ![w].due = @ \ {s}] /\ UNCHANGED last
    <3>1. tick[w].due \ {s} \in SUBSET Schedule
      BY <1>0 DEF Ticks
    <3>2. tick' = [tick EXCEPT ![w].due = tick[w].due \ {s}]
      BY <2>4
    <3>3. tick' \in [Worker -> Ticks]
      BY <1>0, <3>1, <3>2, TickWrites
    <3> QED BY <1>0, <1>4, <1>q, <2>1, <2>4, <3>3 DEF Sched!Process
  <2> QED BY <1>4, <2>2, <2>3, <2>4 DEF Sched!Process
<1>5. ASSUME NEW w \in Worker, Sched!TickFails(w) PROVE Sched!TypeOK'
  BY <1>0, <1>5, <1>d, <1>r, <1>q DEF Sched!TickFails
<1>6. ASSUME NEW w \in Worker, Sched!Crash(w) PROVE Sched!TypeOK'
  <2>1. tick' \in [Worker -> Ticks]
    BY <1>0, <1>6 DEF Sched!Crash, Ticks
  <2> QED BY <1>0, <1>6, <1>r, <1>q, <2>1 DEF Sched!Crash
<1>7. ASSUME NEW s \in Edited, Sched!AskUpdate(s) PROVE Sched!TypeOK'
  <2>1. s \in Schedule /\ schedule[s].revision \in 0..MaxUpdates
    BY <1>0, <1>7 DEF Sched!AskUpdate, ScheduleRows
  <2>2. request' \in [of : Schedule \cup {None}, revision : 0..MaxUpdates, at : Sched!Minutes]
    BY <1>0, <1>7, <2>1 DEF Sched!AskUpdate
  <2> QED BY <1>0, <1>7, <1>r, <1>q, <2>2 DEF Sched!AskUpdate
<1>8. ASSUME NEW s \in Edited, Sched!RunNow(s) PROVE Sched!TypeOK'
  BY <1>0, <1>8, <1>q, DispatchedType DEF Sched!RunNow, Sched!Key
<1>9. ASSUME NEW s \in Edited, NEW k \in Sched!Key, Sched!JobDeleted(s, k) PROVE Sched!TypeOK'
  <2>1. "none" \in Sched!Work
    BY DEF Sched!Work
  <2> QED BY <1>0, <1>9, <1>q, <2>1, WorkWrites DEF Sched!JobDeleted
<1>10. ASSUME NEW enabled \in BOOLEAN, NEW cron \in Crons, Sched!Update(enabled, cron) PROVE Sched!TypeOK'
  <2> DEFINE s == request.of
  <2>1. s \in Schedule
    BY <1>10 DEF Sched!Update
  <2>2. CASE schedule[s].revision /= request.revision
    <3>1. request' \in [of : Schedule \cup {None}, revision : 0..MaxUpdates, at : Sched!Minutes]
      BY <1>10, TickType DEF Sched!Update, Sched!NoRequest
    <3> QED BY <1>0, <1>10, <1>q, <2>2, <3>1 DEF Sched!Update
  <2>3. CASE schedule[s].revision = request.revision
    <3> DEFINE next == IF enabled THEN Sched!Next_(cron, request.at) ELSE Sched!Never
    <3>1. schedule' = [schedule EXCEPT ![s].enabled = enabled, ![s].cron = cron, ![s].revision = @ + 1,
                                       ![s].next = next]
      BY <1>10, <2>3 DEF Sched!Update
    <3>2. next \in Sched!Minutes \cup {Sched!Never}
      BY NextType
    <3>3. schedule[s].revision <= MaxUpdates
      BY <1>0, <2>3
    <3> HIDE DEF next
    <3>4. [schedule EXCEPT ![s].enabled = enabled, ![s].cron = cron, ![s].revision = @ + 1, ![s].next = next]
              \in [Schedule -> ScheduleRows]
      BY <1>0, <2>1, <3>2, <3>3, RowWrites, Zenon
    <3>5. schedule' \in [Schedule -> ScheduleRows]
      BY <3>1, <3>4
    <3>6. request' \in [of : Schedule \cup {None}, revision : 0..MaxUpdates, at : Sched!Minutes]
      BY <1>10, TickType DEF Sched!Update, Sched!NoRequest
    <3> QED BY <1>0, <1>10, <1>q, <3>5, <3>6 DEF Sched!Update
  <2> QED BY <2>2, <2>3
<1>11. ASSUME NEW s \in Schedule, NEW k \in Sched!Key, Sched!JobEnds(s, k) PROVE Sched!TypeOK'
  <2>1. "ended" \in Sched!Work
    BY DEF Sched!Work
  <2> QED BY <1>0, <1>11, <1>q, <2>1, WorkWrites DEF Sched!JobEnds
<1>12. ASSUME Sched!Pass PROVE Sched!TypeOK'
  BY <1>0, <1>12, <1>r, <1>q DEF Sched!Pass, Sched!Minutes
<1>13. ASSUME UNCHANGED Sched!vars PROVE Sched!TypeOK'
  BY <1>13 DEF Sched!vars, Sched!TypeOK
<1> QED BY <1>1, <1>2, <1>3, <1>4, <1>5, <1>6, <1>7, <1>8, <1>9, <1>10, <1>11, <1>12, <1>13 DEF Sched!Next, Sched!Ticking

(* Every variable of the scheduler has its type, always.                   *)
THEOREM SchedulerTypeCorrect ==
    ASSUME Sched!SchedulerAssumption
    PROVE  Sched!Spec => []Sched!TypeOK
<1>1. Sched!Init => Sched!TypeOK
  BY TypeInit
<1>2. Sched!TypeOK /\ [Sched!Next]_Sched!vars => Sched!TypeOK'
  BY TypeStep
<1> QED BY <1>1, <1>2, PTL DEF Sched!Spec

-----------------------------------------------------------------------------
(* One job per slot, and exact overlaps                                    *)

(* OneJobPerSlot is not inductive alone: a run without a record has had no *)
(* job, and only a run that was dispatched has one going.                  *)
RunsOK ==
    \A s \in Schedule, k \in Sched!Key :
        /\ enqueued[s][k] <= 1
        /\ runs[s][k].status = "none" => enqueued[s][k] = 0
        /\ runs[s][k].work # "none" => runs[s][k].status = "dispatched"

(* What a dispatch does to the runs, given that its own has no record.     *)
LEMMA DispatchEffect ==
    ASSUME Sched!TypeOK, RunsOK, NEW s \in Schedule, NEW k \in Sched!Key, Sched!Dispatched(s, k), runs[s][k].status = "none"
    PROVE  /\ RunsOK'
           /\ \A r \in Schedule, j \in Sched!Key : <<r, j>> # <<s, k>> =>
                  /\ enqueued'[r][j] = enqueued[r][j]
                  /\ runs'[r][j].status # "skipped_overlap" \/ runs'[r][j] = runs[r][j]
           /\ enqueued'[s][k] > enqueued[s][k] => Sched!Prior(s) = {}
           /\ runs'[s][k].status = "skipped_overlap" => Sched!Prior(s) # {}
<1>1. PICK run \in IF Sched!Prior(s) /= {} THEN {Sched!Row("skipped_overlap", "none")}
                   ELSE {Sched!Row("failed", "none"), Sched!Row("dispatched", "active")} :
          /\ runs' = [runs EXCEPT ![s] = [j \in Sched!Key |->
                 IF j = k THEN run ELSE IF j \in Sched!Interrupted(s) THEN Sched!Row("failed", "none") ELSE runs[s][j]]]
          /\ enqueued' = [enqueued EXCEPT ![s][k] = @ + IF run.status = "dispatched" THEN 1 ELSE 0]
  BY DEF Sched!Dispatched
<1>2. /\ runs \in [Schedule -> [Sched!Key -> RunRows]] /\ enqueued \in [Schedule -> [Sched!Key -> Nat]]
      /\ enqueued[s][k] = 0
  BY DEF Sched!TypeOK, RunRows, RunsOK
<1>3. /\ run.status \in {"skipped_overlap", "failed", "dispatched"}
      /\ run.work # "none" => run.status = "dispatched"
      /\ run.status = "skipped_overlap" => Sched!Prior(s) # {}
      /\ run.status = "dispatched" => Sched!Prior(s) = {}
  BY DEF Sched!Row
<1>4. /\ runs'[s][k] = run
      /\ enqueued'[s][k] = IF run.status = "dispatched" THEN 1 ELSE 0
  BY <1>1, <1>2
<1>5. ASSUME NEW r \in Schedule, NEW j \in Sched!Key, <<r, j>> # <<s, k>>
      PROVE  /\ enqueued'[r][j] = enqueued[r][j]
             /\ runs'[r][j] = runs[r][j] \/ runs'[r][j] = Sched!Row("failed", "none")
  <2>1. CASE r = s
    BY <1>1, <1>2, <1>5, <2>1
  <2>2. CASE r # s
    BY <1>1, <1>2, <2>2
  <2> QED BY <2>1, <2>2
<1>6. Sched!Row("failed", "none").status = "failed" /\ Sched!Row("failed", "none").work = "none"
  BY DEF Sched!Row
<1>7. ASSUME NEW r \in Schedule, NEW j \in Sched!Key
      PROVE  /\ enqueued'[r][j] <= 1
             /\ runs'[r][j].status = "none" => enqueued'[r][j] = 0
             /\ runs'[r][j].work # "none" => runs'[r][j].status = "dispatched"
  <2>1. CASE r = s /\ j = k
    BY <1>3, <1>4, <2>1
  <2>2. CASE <<r, j>> # <<s, k>>
    BY <1>5, <1>6, <2>2 DEF RunsOK
  <2> QED BY <2>1, <2>2
<1> QED BY <1>2, <1>3, <1>4, <1>5, <1>6, <1>7 DEF RunsOK

(* The effects of a step of the system on runs and jobs: none, a dispatch  *)
(* to a run without a record, or the end or deletion of a job.             *)
LEMMA StepEffect ==
    ASSUME Sched!SchedulerAssumption, Sched!TypeOK, [Sched!Next]_Sched!vars
    PROVE  \/ UNCHANGED <<runs, enqueued>>
           \/ \E s \in Schedule, k \in Sched!Key : Sched!Dispatched(s, k) /\ runs[s][k].status = "none"
           \/ \E s \in Schedule, k \in Sched!Key :
                  Sched!JobEnds(s, k) \/ Sched!JobDeleted(s, k)
<1>1. ASSUME NEW w \in Worker, NEW s \in Schedule, Sched!Process(w, s)
      PROVE  \/ UNCHANGED <<runs, enqueued>>
             \/ \E k \in Sched!Key : Sched!Dispatched(s, k) /\ runs[s][k].status = "none"
  <2>1. CASE Sched!DispatchSlot(w, s)
    BY <2>1, SlotIsMinute DEF Sched!DispatchSlot
  <2> QED BY <1>1, <2>1 DEF Sched!Process, Sched!MissSlot, Sched!HealPointer, Sched!NotDue, Sched!rows
<1>2. ASSUME NEW w \in Worker, Sched!StartTick(w) \/ Sched!Acquire(w) \/ Sched!ListDue(w) \/ Sched!TickFails(w) \/ Sched!Crash(w)
      PROVE  UNCHANGED <<runs, enqueued>>
  BY <1>2 DEF Sched!StartTick, Sched!Acquire, Sched!ListDue, Sched!TickFails, Sched!Crash, Sched!rows
<1>3. ASSUME NEW s \in Edited, Sched!RunNow(s)
      PROVE  Sched!Dispatched(s, Manual) /\ runs[s][Manual].status = "none" /\ s \in Schedule /\ Manual \in Sched!Key
  BY <1>3 DEF Sched!SchedulerAssumption, Sched!RunNow, Sched!Key
<1>4. Edited \subseteq Schedule
  BY DEF Sched!SchedulerAssumption
<1>5. CASE \E s \in Edited : Sched!AskUpdate(s)
  BY <1>5 DEF Sched!AskUpdate, Sched!rows
<1>6. CASE \E enabled \in BOOLEAN, cron \in Crons : Sched!Update(enabled, cron)
  BY <1>6 DEF Sched!Update
<1>7. CASE Sched!Pass \/ UNCHANGED Sched!vars
  BY <1>7 DEF Sched!Pass, Sched!rows, Sched!vars
<1> QED BY <1>1, <1>2, <1>3, <1>4, <1>5, <1>6, <1>7 DEF Sched!Next, Sched!Ticking

(* The end of a job, or its deletion, only touches the link of its run.    *)
LEMMA JobEffect ==
    ASSUME Sched!TypeOK, NEW s \in Schedule, NEW k \in Sched!Key, Sched!JobEnds(s, k) \/ Sched!JobDeleted(s, k),
           NEW r \in Schedule, NEW j \in Sched!Key
    PROVE  /\ runs'[r][j].status = runs[r][j].status
           /\ runs'[r][j].work = runs[r][j].work \/ runs[r][j].work # "none"
<1>1. runs[s][k].work # "none" /\ \E v : runs' = [runs EXCEPT ![s][k].work = v]
  BY DEF Sched!JobEnds, Sched!JobDeleted
<1>2. PICK v : runs' = [runs EXCEPT ![s][k].work = v]
  BY <1>1
<1>3. runs \in [Schedule -> [Sched!Key -> RunRows]]
  BY DEF Sched!TypeOK, RunRows
<1>4. CASE r = s /\ j = k
  <2>1. runs'[s][k] = [runs[s][k] EXCEPT !.work = v]
    BY <1>2, <1>3
  <2>2. runs[s][k] \in RunRows
    BY <1>3
  <2> QED BY <1>1, <1>4, <2>1, <2>2 DEF RunRows
<1>5. CASE r # s \/ j # k
  BY <1>2, <1>3, <1>5
<1> QED BY <1>4, <1>5

(* No run has a job initially.                                             *)
LEMMA RunsInit == Sched!Init => RunsOK
<1> SUFFICES ASSUME Sched!Init PROVE RunsOK
  OBVIOUS
<1>1. PICK reserved \in SUBSET Edited :
          runs = [s \in Schedule |-> [k \in Sched!Key |-> IF s \in reserved /\ k = 0 THEN Sched!Row("pending", "none")
                                                    ELSE Sched!NoRun]]
  BY DEF Sched!Init
<1>2. \A s \in Schedule, k \in Sched!Key : runs[s][k].work = "none" /\ enqueued[s][k] = 0
  BY <1>1 DEF Sched!Row, Sched!NoRun, Sched!Init
<1> QED BY <1>2 DEF RunsOK

(* Every step preserves what is known of runs and their jobs.              *)
LEMMA RunsStep ==
    ASSUME Sched!SchedulerAssumption
    PROVE  Sched!TypeOK /\ RunsOK /\ [Sched!Next]_Sched!vars => RunsOK'
<1> SUFFICES ASSUME Sched!TypeOK, RunsOK, [Sched!Next]_Sched!vars PROVE RunsOK'
  OBVIOUS
<1>1. CASE UNCHANGED <<runs, enqueued>>
  BY <1>1 DEF RunsOK
<1>2. ASSUME NEW s \in Schedule, NEW k \in Sched!Key, Sched!Dispatched(s, k), runs[s][k].status = "none" PROVE RunsOK'
  BY <1>2, DispatchEffect
<1>3. ASSUME NEW s \in Schedule, NEW k \in Sched!Key, Sched!JobEnds(s, k) \/ Sched!JobDeleted(s, k) PROVE RunsOK'
  <2>1. \A r \in Schedule, j \in Sched!Key :
            /\ runs'[r][j].status = runs[r][j].status
            /\ runs'[r][j].work = runs[r][j].work \/ runs[r][j].work # "none"
    BY <1>3, JobEffect
  <2>2. UNCHANGED enqueued
    BY <1>3 DEF Sched!JobEnds, Sched!JobDeleted
  <2> QED BY <2>1, <2>2 DEF RunsOK
<1> QED BY <1>1, <1>2, <1>3, StepEffect

(* OneJobPerSlot: the slot of a schedule, or a run by hand, gets one job   *)
(* at most, for any number of workers that tick, fail and repeat.          *)
THEOREM OneJob ==
    ASSUME Sched!SchedulerAssumption
    PROVE  Sched!Spec => []Sched!OneJobPerSlot
<1>1. Sched!Init => Sched!TypeOK /\ RunsOK
  BY TypeInit, RunsInit
<1>2. Sched!TypeOK /\ RunsOK /\ [Sched!Next]_Sched!vars => (Sched!TypeOK /\ RunsOK)'
  BY TypeStep, RunsStep
<1>3. RunsOK => Sched!OneJobPerSlot
  BY DEF RunsOK, Sched!OneJobPerSlot
<1> QED BY <1>1, <1>2, <1>3, PTL DEF Sched!Spec

(* OverlapIsExact: a job is only enqueued when its schedule has none       *)
(* going, and a slot only skipped when it has.                             *)
THEOREM ExactOverlap ==
    ASSUME Sched!SchedulerAssumption
    PROVE  Sched!Spec => Sched!OverlapIsExact
<1> DEFINE Exact == \A s \in Schedule, k \in Sched!Key :
           /\ enqueued'[s][k] > enqueued[s][k] => \A j \in Sched!Key : runs[s][j].work /= "active"
           /\ runs[s][k].status = "none" /\ runs'[s][k].status = "skipped_overlap" =>
                  \E j \in Sched!Key : runs[s][j].work = "active"
<1>1. Sched!Init => Sched!TypeOK /\ RunsOK
  BY TypeInit, RunsInit
<1>2. Sched!TypeOK /\ RunsOK /\ [Sched!Next]_Sched!vars => (Sched!TypeOK /\ RunsOK)'
  BY TypeStep, RunsStep
<1>3. Sched!TypeOK /\ RunsOK /\ [Sched!Next]_Sched!vars => [Exact]_Sched!vars
  <2> SUFFICES ASSUME Sched!TypeOK, RunsOK, [Sched!Next]_Sched!vars PROVE Exact
    OBVIOUS
  <2>0. \A s \in Schedule, k \in Sched!Key : enqueued[s][k] \in Nat
    BY DEF Sched!TypeOK
  <2>1. CASE UNCHANGED <<runs, enqueued>>
    BY <2>0, <2>1
  <2>2. ASSUME NEW s \in Schedule, NEW k \in Sched!Key, Sched!Dispatched(s, k), runs[s][k].status = "none" PROVE Exact
    <3>1. \A j \in Sched!Key : runs[s][j].work = "active" => j \in Sched!Prior(s)
      BY DEF RunsOK, Sched!Prior, Sched!Active
    <3>2. \A j \in Sched!Prior(s) : j \in Sched!Key /\ runs[s][j].work = "active"
      BY DEF Sched!Prior, Sched!Active
    <3> QED BY <2>0, <2>2, <3>1, <3>2, DispatchEffect
  <2>3. ASSUME NEW s \in Schedule, NEW k \in Sched!Key, Sched!JobEnds(s, k) \/ Sched!JobDeleted(s, k) PROVE Exact
    <3>1. \A r \in Schedule, j \in Sched!Key : runs'[r][j].status = runs[r][j].status
      BY <2>3, JobEffect
    <3>2. UNCHANGED enqueued
      BY <2>3 DEF Sched!JobEnds, Sched!JobDeleted
    <3>3. ASSUME NEW r \in Schedule, NEW j \in Sched!Key PROVE ~(enqueued'[r][j] > enqueued[r][j])
      BY <2>0, <3>2
    <3>4. ASSUME NEW r \in Schedule, NEW j \in Sched!Key
          PROVE  ~(runs[r][j].status = "none" /\ runs'[r][j].status = "skipped_overlap")
      BY <3>1
    <3> QED BY <3>3, <3>4
  <2> QED BY <2>1, <2>2, <2>3, StepEffect
<1> QED BY <1>1, <1>2, <1>3, PTL DEF Sched!Spec, Sched!OverlapIsExact
=============================================================================
