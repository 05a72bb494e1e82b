------------------------ MODULE PlanLifecycle_proofs ------------------------
(***************************************************************************)
(* TaskQueue, and PlanLifecycle around it, for any number of workers,      *)
(* requests, plans, jobs, items and creations.  The first part is about    *)
(* the queue alone; the second inherits its steps, and every other step of *)
(* the composition leaves the queue's tables alone.  The third is about    *)
(* the lease that both are built on, with its timestamps (WorkerLease).    *)
(***************************************************************************)
EXTENDS PlanLifecycle, TLAPS

(***************************************************************************)
(* Theorems of TaskQueue                                                   *)
(***************************************************************************)

-----------------------------------------------------------------------------
(* What the helpers of the model do to the tables.                         *)

(* The status a plan is synced to is a plan status.                        *)
LEMMA SyncedStatusType ==
    ASSUME PlanOK, NEW p \in Plan, NEW t \in Terminal \cup {"running", "paused"}
    PROVE  SyncedStatus(p, t) \in PlanStatus
<1> DEFINE states == {item[p][i] : i \in Item}
<1>1. CASE t \in Terminal
  <2>1. CASE states = {"completed"}
    BY <1>1, <2>1 DEF SyncedStatus, Terminal, PlanStatus
  <2>2. CASE states # {"completed"} /\ states \cap {"completed", "failed"} # {}
    BY <1>1, <2>2 DEF SyncedStatus, Terminal, PlanStatus
  <2>3. CASE states \cap {"completed", "failed"} = {}
    BY <1>1, <2>3 DEF SyncedStatus, Terminal, PlanStatus
  <2> QED BY <2>1, <2>2, <2>3
<1>2. CASE t \in {"running", "paused"}
  BY <1>2 DEF SyncedStatus, Terminal, PlanStatus, PlanOK
<1> QED BY <1>1, <1>2

(* SyncPlan changes the status of one plan at most, to a plan status.      *)
LEMMA SyncPlanType ==
    ASSUME PlanOK, NEW j \in JobId, NEW t \in Terminal \cup {"running", "paused"}, SyncPlan(j, t)
    PROVE  plan' \in [Plan -> PlanStatus]
<1>1. ASSUME job[j].plan \in Plan
      PROVE  SyncedStatus(job[j].plan, t) \in PlanStatus
  BY <1>1, SyncedStatusType
<1> QED BY <1>1 DEF SyncPlan, PlanOK

(* SetStatus changes the status of one job and nothing else of any job.    *)
LEMMA SetStatusEffect ==
    ASSUME JobOK, NEW j \in JobId, NEW s \in JobStatus, SetStatus(j, s)
    PROVE  /\ JobOK'
           /\ job'[j].st = s
           /\ \A k \in JobId : /\ k # j => job'[k] = job[k]
                               /\ job'[k].kind = job[k].kind
                               /\ job'[k].plan = job[k].plan
BY DEF SetStatus, JobOK, JobRecord

(* A new row is a queued job of its kind and plan, and no other row moves.  *)
LEMMA NewJobEffect ==
    ASSUME JobOK, NEW j \in JobId, NEW k \in Kind, NEW p \in Plan \cup {None},
           k = "exec" => p \in Plan,
           job' = [job EXCEPT ![j] = NewJob(k, p)]
    PROVE  /\ JobOK'
           /\ job'[j].st = "queued" /\ job'[j].kind = k /\ job'[j].plan = p
           /\ \A i \in JobId \ {j} : job'[i] = job[i]
<1>1. NewJob(k, p) = [st |-> "queued", kind |-> k, plan |-> p, ckpt |-> FALSE, pause |-> FALSE]
  BY DEF NewJob
<1>2. NewJob(k, p) \in JobRecord
  BY <1>1 DEF JobRecord, JobStatus, Active
<1>3. job'[j] = [st |-> "queued", kind |-> k, plan |-> p, ckpt |-> FALSE, pause |-> FALSE]
  BY <1>1 DEF JobOK
<1>4. job' \in [JobId -> JobRecord] /\ \A i \in JobId \ {j} : job'[i] = job[i]
  BY <1>2 DEF JobOK
<1>5. ASSUME NEW i \in JobId, job'[i].kind = "exec" PROVE job'[i].plan \in Plan
  <2>1. CASE i = j
    BY <1>3, <1>5, <2>1
  <2>2. CASE i # j
    BY <1>4, <1>5, <2>2 DEF JobOK
  <2> QED BY <2>1, <2>2
<1>6. JobOK'
  BY <1>4, <1>5 DEF JobOK
<1> QED BY <1>3, <1>4, <1>6

(* Moving one worker, and letting it go of its job.                        *)
LEMMA GoEffect ==
    ASSUME ControlOK, NEW w \in Worker, NEW l \in PC, Go(w, l)
    PROVE  /\ pc' \in [Worker -> PC] /\ pc'[w] = l
           /\ \A v \in Worker \ {w} : pc'[v] = pc[v]
BY DEF Go, ControlOK

(* A worker that leaves a job holds none, and the others stay where they are. *)
LEMMA LeaveEffect ==
    ASSUME ControlOK, NEW w \in Worker, NEW l \in PC \ (Processing \cup Unwinding), Leave(w, l)
    PROVE  /\ ControlOK' /\ pc'[w] = l
           /\ \A v \in Worker \ {w} : pc'[v] = pc[v] /\ cur'[v] = cur[v] /\ pid'[v] = pid[v]
BY DEF Leave, Go, ControlOK, Processing

(* A move of one worker keeps the control state well typed.               *)
LEMMA MoveEffect ==
    ASSUME ControlOK, NEW w \in Worker, NEW l \in PC, Go(w, l), UNCHANGED <<cur, pid>>,
           l \in Processing \cup Unwinding => cur[w] \in JobId,
           l \in Handler \ {"work"} => pid[w] \in Plan
    PROVE  /\ ControlOK' /\ pc'[w] = l
           /\ \A v \in Worker \ {w} : pc'[v] = pc[v]
BY DEF Go, ControlOK, Processing

-----------------------------------------------------------------------------
(* Type correctness.                                                       *)

(* The initial tables and workers have their types.                       *)
LEMMA InitTypeOK == Init => TypeOK
<1> SUFFICES ASSUME Init PROVE TypeOK
  OBVIOUS
<1> USE TaskQueueAssumption DEF Init, QueueInit
<1>1. LockOK
  BY DEF LockOK
<1>2. JobOK
  BY DEF JobOK, NoJob, JobRecord, JobStatus, Kind
<1>3. PlanOK
  BY DEF PlanOK, PlanStatus, ItemState
<1>6. LoopOK
  BY DEF LoopOK
<1>4. ControlOK
  BY DEF ControlOK, PC, Processing, Unwinding, Handler, Recovering
<1>5. LocalOK /\ EnvOK
  BY DEF LocalOK, EnvOK
<1> QED BY <1>1, <1>2, <1>3, <1>4, <1>5, <1>6 DEF TypeOK

(* The places outside the processing of a job, and those inside.           *)
LEMMA Places ==
    /\ {"new", "acquire", "idle", "dead", "list", "recover", "repair"}
          \subseteq PC \ (Processing \cup Unwinding)
    /\ {"claimed", "finish", "failing", "pausing", "cancelling", "work"} \subseteq PC \ (Handler \ {"work"})
    /\ {"begin", "reconcile", "ready", "fresh", "abort", "next", "intent", "item", "post", "last"}
          \subseteq Handler \ {"work"}
    /\ Handler \subseteq Processing /\ Processing \cup Unwinding \subseteq PC
    /\ "work" \in Handler
    /\ {"claimed", "finish", "failing"} \subseteq Processing
    /\ Unwinding = {"pausing", "cancelling", "failing"}
BY DEF PC, Processing, Unwinding, Handler, Recovering

(* All of TypeOK but the position of the loop, which needs an argument of  *)
(* its own.                                                                *)
Shape == LockOK /\ JobOK /\ PlanOK /\ ControlOK /\ LocalOK /\ EnvOK

(* Steps of the lease and of a worker that leave the tables alone.         *)
LEMMA ControlSteps ==
    ASSUME TypeOK, NEW w \in Worker,
           \/ Start(w) \/ Acquire(w) \/ NoticeLeaseLost(w) \/ LeaseLost(w)
           \/ RecoveryLeaseLost(w) \/ ListInterrupted(w) \/ ListOrphans(w) \/ RecoveryDone(w)
           \/ NoItemLeft(w) \/ Raise(w) \/ LateFence(w) \/ HeartbeatRefused(w) \/ Crash(w)
           \/ SwallowedError(w) \/ PollEmpty(w)
    PROVE  Shape'
<1> USE Places DEF TypeOK, Shape
<1> JobOK' /\ PlanOK'
  BY DEF Start, Acquire, NoticeLeaseLost, LeaseLost, RecoveryLeaseLost, ListInterrupted,
         ListOrphans, RecoveryDone, NoItemLeft, Raise, LateFence, HeartbeatRefused, Crash,
         SwallowedError, PollEmpty, db, vars, JobOK, PlanOK
<1>1. CASE Start(w)
  BY <1>1, MoveEffect DEF Start, LockOK, LocalOK, EnvOK, env
<1>2. CASE Acquire(w)
  <2>1. LockOK'
    BY <1>2 DEF Acquire, LockOK
  <2> QED BY <1>2, <2>1, MoveEffect DEF Acquire, LocalOK, EnvOK, env
<1>3. CASE NoticeLeaseLost(w)
  BY <1>3, MoveEffect DEF NoticeLeaseLost, LockOK, LocalOK, EnvOK, env
<1>4. CASE LeaseLost(w)
  BY <1>4, LeaveEffect DEF LeaseLost, LockOK, LocalOK, EnvOK, env
<1>5. CASE RecoveryLeaseLost(w)
  BY <1>5, MoveEffect DEF RecoveryLeaseLost, LockOK, LocalOK, EnvOK, env
<1>6. CASE ListInterrupted(w)
  BY <1>6, MoveEffect DEF ListInterrupted, InFlightJobs, LockOK, LocalOK, EnvOK, env
<1>7. CASE ListOrphans(w)
  BY <1>7, MoveEffect DEF ListOrphans, LockOK, LocalOK, EnvOK, env
<1>8. CASE RecoveryDone(w)
  BY <1>8, MoveEffect DEF RecoveryDone, LockOK, LocalOK, EnvOK, env
<1>9. CASE NoItemLeft(w)
  BY <1>9, MoveEffect DEF NoItemLeft, ControlOK, LockOK, LocalOK, EnvOK, env
<1>10. CASE Raise(w)
  BY <1>10, MoveEffect DEF Raise, ControlOK, LockOK, LocalOK, EnvOK, env
<1>11. CASE LateFence(w)
  <2>1. LockOK'
    BY <1>11 DEF LateFence, LockOK
  <2> QED BY <1>11, <2>1 DEF LateFence, local, ControlOK, LocalOK, EnvOK, env
<1>12. CASE HeartbeatRefused(w)
  <2>1. EnvOK' /\ LocalOK'
    BY <1>12, TaskQueueAssumption DEF HeartbeatRefused, EnvOK, LocalOK
  <2> QED BY <1>12, <2>1 DEF HeartbeatRefused, ControlOK, LockOK
<1>13. CASE Crash(w)
  BY <1>13, LeaveEffect DEF Crash, LockOK, LocalOK, EnvOK, env
<1>14. CASE SwallowedError(w)
  <2>1. EnvOK' /\ LocalOK'
    BY <1>14, TaskQueueAssumption DEF SwallowedError, EnvOK, LocalOK, InFlightJobs
  <2> QED BY <1>14, <2>1, LeaveEffect DEF SwallowedError, LockOK
<1>15. CASE PollEmpty(w)
  BY <1>15 DEF PollEmpty, vars, ControlOK, LockOK, LocalOK, EnvOK
<1> QED
  BY <1>1, <1>2, <1>3, <1>4, <1>5, <1>6, <1>7, <1>8, <1>9, <1>10, <1>11, <1>12, <1>13, <1>14, <1>15

(* A checkpoint leaves a job what it is and the worker inside its run.     *)
LEMMA CheckpointEffect ==
    ASSUME TypeOK, NEW w \in Worker, NEW saves \in BOOLEAN,
           NEW next \in {"begin", "reconcile", "ready", "fresh", "abort",
                        "next", "intent", "item", "post", "last", "work", "finish"},
           next \in Handler \ {"work"} => pid[w] \in Plan,
           pc[w] \in Processing, Checkpoint(w, saves, next)
    PROVE  /\ JobOK' /\ ControlOK'
           /\ \A k \in JobId : /\ k # cur[w] => job'[k] = job[k]
                               /\ job'[k].kind = job[k].kind
                               /\ job'[k].plan = job[k].plan
           /\ cur[w] \in JobId
           /\ pc'[w] \in {"failing", "cancelling", "pausing", next}
           /\ \A v \in Worker \ {w} : pc'[v] = pc[v]
           /\ pc'[w] \in {"failing", next} => job'[cur[w]].st = job[cur[w]].st
           /\ pc'[w] = "cancelling" => job'[cur[w]].st = "cancelled"
           /\ pc'[w] = "pausing" => job'[cur[w]].st = "paused"
           /\ job'[cur[w]].st # job[cur[w]].st =>
                 \/ job[cur[w]].st = "cancel_requested" /\ job'[cur[w]].st = "cancelled"
                 \/ job[cur[w]].st = "running" /\ job'[cur[w]].st = "paused"
<1> DEFINE j == cur[w]
<1> USE Places DEF TypeOK
<1>1. j \in JobId
  BY DEF ControlOK
<1>2. UNCHANGED <<cur, pid>>
  BY DEF Checkpoint
<1>3. CASE Go(w, "failing") /\ UNCHANGED job
  BY <1>1, <1>2, <1>3, MoveEffect DEF JobOK
<1>4. CASE job[j].st = "cancel_requested" /\ SetStatus(j, "cancelled") /\ Go(w, "cancelling")
  <2>1. "cancelled" \in JobStatus
    BY DEF JobStatus, Terminal
  <2> QED BY <1>1, <1>2, <1>4, <2>1, MoveEffect, SetStatusEffect
<1>5. CASE /\ job[j].st = "running"
           /\ job' = [job EXCEPT ![j].st = "paused", ![j].ckpt = @ \/ saves] /\ Go(w, "pausing")
  <2>1. /\ JobOK' /\ job'[j].st = "paused"
        /\ \A k \in JobId : /\ k # j => job'[k] = job[k]
                            /\ job'[k].kind = job[k].kind
                            /\ job'[k].plan = job[k].plan
    BY <1>1, <1>5 DEF JobOK, JobRecord, JobStatus, Active
  <2>2. job[j].st = "running" /\ Go(w, "pausing")
    BY <1>5
  <2> QED BY <1>1, <1>2, <2>1, <2>2, MoveEffect
<1>6. CASE job' = [job EXCEPT ![j].ckpt = @ \/ saves] /\ Go(w, next)
  <2>1. /\ JobOK'
        /\ \A k \in JobId : /\ k # j => job'[k] = job[k]
                            /\ job'[k].st = job[k].st
                            /\ job'[k].kind = job[k].kind
                            /\ job'[k].plan = job[k].plan
    BY <1>1, <1>6 DEF JobOK, JobRecord
  <2> QED BY <1>1, <1>2, <1>6, <2>1, MoveEffect
<1> QED BY <1>3, <1>4, <1>5, <1>6 DEF Checkpoint

(* Every checkpoint of the handlers keeps the types.                      *)
LEMMA CheckpointSteps ==
    ASSUME TypeOK, NEW w \in Worker,
           \/ Begin(w) \/ Ready(w) \/ Boundary(w) \/ LastCheckpoint(w) \/ WorkPoll(w) \/ WorkDone(w)
    PROVE  Shape'
<1>1. PICK saves \in BOOLEAN,
           next \in {"begin", "reconcile", "ready", "fresh", "abort",
                    "next", "intent", "item", "post", "last", "work", "finish"} :
        /\ Checkpoint(w, saves, next) /\ pc[w] \in Processing
        /\ next \in Handler \ {"work"} => pid[w] \in Plan
  BY Places DEF TypeOK, ControlOK, Begin, Ready, Boundary, LastCheckpoint, WorkPoll, WorkDone, Handler, Processing
<1>2. JobOK' /\ ControlOK'
  BY <1>1, CheckpointEffect
<1>3. LockOK' /\ PlanOK' /\ LocalOK' /\ EnvOK'
  BY <1>1 DEF Checkpoint, TypeOK, LockOK, PlanOK, LocalOK, EnvOK, env
<1> QED BY <1>2, <1>3 DEF Shape

(* Recovery, claim and the ends of process_work_job.                       *)
LEMMA JobSteps ==
    ASSUME TypeOK, NEW w \in Worker,
           \/ RecoverJob(w) \/ RepairPlan(w) \/ Claim(w) \/ Preflight(w)
           \/ Finish(w) \/ Failing(w) \/ Cancelling(w) \/ Pausing(w)
    PROVE  Shape'
<1> USE Places DEF TypeOK, Shape
<1> DEFINE j == cur[w]
<1>0. Terminal \cup {"queued", "running", "paused"} \subseteq JobStatus
  BY DEF JobStatus, Active, InFlight
<1>1. CASE RecoverJob(w)
  <2>1. PICK k \in JobId :
           \/ SetStatus(k, "cancelled") /\ SyncPlan(k, "cancelled")
           \/ SetStatus(k, "queued") /\ UNCHANGED plan
           \/ SetStatus(k, "failed") /\ SyncPlan(k, "failed")
           \/ UNCHANGED <<job, plan>>
    BY <1>1 DEF RecoverJob, LocalOK
  <2>2. JobOK' /\ PlanOK'
    BY <1>0, <1>1, <2>1, SetStatusEffect, SyncPlanType DEF RecoverJob, JobOK, PlanOK, Terminal
  <2>3. LocalOK' /\ EnvOK'
    BY <1>1 DEF RecoverJob, LocalOK, EnvOK
  <2> QED BY <1>1, <2>2, <2>3 DEF RecoverJob, LockOK, ControlOK
<1>2. CASE RepairPlan(w)
  <2>1. PlanOK'
    BY <1>2, SyncPlanType DEF RepairPlan, PlanOK, TerminalExec
  <2> QED BY <1>2, <2>1 DEF RepairPlan, JobOK, LockOK, ControlOK, LocalOK, EnvOK, env
<1>3. CASE Claim(w)
  <2>1. PICK k \in UNION Candidates : SetStatus(k, "running") /\ cur' = [cur EXCEPT ![w] = k]
    BY <1>3 DEF Claim
  <2>2. k \in JobId
    BY <2>1 DEF Candidates, LowestQueued
  <2>3. JobOK'
    BY <1>0, <2>1, <2>2, SetStatusEffect
  <2>4. ControlOK'
    BY <1>3, <2>1, <2>2 DEF Claim, ControlOK, Go
  <2> QED BY <1>3, <2>3, <2>4 DEF Claim, LockOK, PlanOK, LocalOK, EnvOK, env
<1>4. CASE Preflight(w)
  <2>1. j \in JobId
    BY <1>4 DEF Preflight, ControlOK
  <2>2. CASE UNCHANGED <<job, plan>> /\ \E l \in {"acquire", "idle"} : Leave(w, l)
    BY <1>4, <2>2, LeaveEffect DEF Preflight, JobOK, PlanOK, LockOK, LocalOK, EnvOK, env
  <2>3. CASE SetStatus(j, "cancelled") /\ SyncPlan(j, "cancelled") /\ Leave(w, "idle")
    <3>1. JobOK' /\ PlanOK'
      BY <1>0, <1>4, <2>1, <2>3, SetStatusEffect, SyncPlanType DEF Preflight, PlanOK, Terminal
    <3> QED BY <1>4, <2>3, <3>1, LeaveEffect DEF Preflight, LockOK, LocalOK, EnvOK, env
  <2>4. CASE /\ SetStatus(j, "running") /\ SyncPlan(j, "running")
             /\ Go(w, IF job[j].kind = "exec" THEN "begin" ELSE "work")
             /\ pid' = [pid EXCEPT ![w] = job[j].plan] /\ UNCHANGED cur
    <3>1. JobOK' /\ PlanOK'
      BY <1>0, <1>4, <2>1, <2>4, SetStatusEffect, SyncPlanType DEF Preflight, PlanOK
    <3>2. job[j].plan \in Plan \cup {None} /\ (job[j].kind = "exec" => job[j].plan \in Plan)
      BY <2>1 DEF JobOK, JobRecord
    <3>3. ControlOK'
      BY <2>1, <2>4, <3>2 DEF Go, ControlOK
    <3> QED BY <1>4, <3>1, <3>3 DEF Preflight, LockOK, LocalOK, EnvOK, env
  <2> QED BY <1>4, <2>2, <2>3, <2>4 DEF Preflight
<1>5. CASE Finish(w)
  <2>1. j \in JobId
    BY <1>5 DEF Finish, ControlOK
  <2>2. \/ \E s \in Terminal, t \in Terminal : SetStatus(j, s) /\ SyncPlan(j, t)
        \/ UNCHANGED <<job, plan>>
    BY <1>5 DEF Finish, Terminal
  <2>3. JobOK' /\ PlanOK'
    BY <1>0, <1>5, <2>1, <2>2, SetStatusEffect, SyncPlanType DEF Finish, JobOK, PlanOK
  <2> QED BY <1>5, <2>3, LeaveEffect DEF Finish, LockOK, LocalOK, EnvOK, env
<1>6. CASE Failing(w)
  <2>1. j \in JobId
    BY <1>6 DEF Failing, ControlOK
  <2>2. \/ SetStatus(j, "failed") /\ SyncPlan(j, "failed")
        \/ UNCHANGED <<job, plan>>
    BY <1>6 DEF Failing
  <2>3. JobOK' /\ PlanOK'
    BY <1>0, <1>6, <2>1, <2>2, SetStatusEffect, SyncPlanType DEF Failing, JobOK, PlanOK, Terminal
  <2> QED BY <1>6, <2>3, LeaveEffect DEF Failing, LockOK, LocalOK, EnvOK, env
<1>7. ASSUME pc[w] \in Unwinding, NEW t \in {"cancelled", "paused"}, SyncAfterUnwinding(w, t)
      PROVE  Shape'
  <2>1. j \in JobId
    BY <1>7 DEF ControlOK
  <2>2. PlanOK'
    BY <1>7, <2>1, SyncPlanType DEF SyncAfterUnwinding, PlanOK, Terminal
  <2> QED BY <1>7, <2>2, LeaveEffect DEF SyncAfterUnwinding, JobOK, LockOK, LocalOK, EnvOK, env
<1> QED BY <1>1, <1>2, <1>3, <1>4, <1>5, <1>6, <1>7 DEF Cancelling, Pausing

(* The handler's own transactions: they touch the plan and its items.      *)
LEMMA HandlerSteps ==
    ASSUME TypeOK, NEW w \in Worker,
           \/ Reconcile(w) \/ Fresh(w) \/ ItemStale(w) \/ Intent(w) \/ ItemResult(w) \/ PostLoop(w)
    PROVE  Shape'
<1> USE Places DEF TypeOK, Shape
<1> DEFINE p == pid[w]
<1>1. p \in Plan /\ cur[w] \in JobId
  BY DEF Reconcile, Fresh, ItemStale, Intent, ItemResult, PostLoop, ControlOK, Handler, Processing
<1>2. UNCHANGED <<lock, job, cur, pid, todo, orphans, lost, lapses, faults, abandoned>>
  BY DEF Reconcile, Fresh, ItemStale, Intent, ItemResult, PostLoop, env
<1>3. JobOK' /\ LockOK' /\ LocalOK' /\ EnvOK'
  BY <1>2 DEF JobOK, LockOK, LocalOK, EnvOK
<1>4. \E l \in {"ready", "next", "abort", "post", "item", "last"} : Go(w, l)
  BY DEF Reconcile, Fresh, ItemStale, Intent, ItemResult, PostLoop
<1>5. ControlOK'
  BY <1>1, <1>2, <1>4, MoveEffect
<1>6. ASSUME NEW S, Stale(p, S) PROVE PlanOK'
  BY <1>1, <1>6 DEF Stale, PlanOK, PlanStatus, ItemState
<1>7. ASSUME NEW i \in Item, NEW s \in ItemState, SetItem(p, i, s), UNCHANGED plan PROVE PlanOK'
  BY <1>1, <1>7 DEF SetItem, PlanOK
<1>a. ASSUME NEW i \in Item, NEW s \in ItemState, NEW t \in ItemState, SetPair(p, i, s, t), UNCHANGED plan
      PROVE  PlanOK'
  BY <1>1, <1>a DEF SetPair, PlanOK
<1>8. CASE Reconcile(w)
  <2>1. PICK out \in [Item -> {"planned", "completed", "failed"}] :
           item' = [item EXCEPT ![p] = [i \in Item |-> IF @[i] = "executing" THEN out[i] ELSE @[i]]]
    BY <1>8 DEF Reconcile
  <2>2. item' \in [Plan -> [Item -> ItemState]]
    BY <1>1, <2>1 DEF PlanOK, ItemState
  <2>3. plan' \in [Plan -> PlanStatus]
    BY <1>1, <1>8 DEF Reconcile, PlanOK, PlanStatus
  <2> QED BY <1>3, <1>5, <2>2, <2>3 DEF PlanOK
<1>9. CASE Fresh(w)
  BY <1>3, <1>5, <1>6, <1>9 DEF Fresh, PlanOK
<1>10. CASE ItemStale(w)
  BY <1>3, <1>5, <1>6, <1>10 DEF ItemStale
<1>11. CASE Intent(w)
  <2>1. at[w] \in Item
    BY <1>11 DEF Intent, LoopOK
  <2>2. /\ UNCHANGED plan
        /\ UNCHANGED item \/ \E s \in {"executing", "failed", "skipped"} : SetItem(p, at[w], s)
    BY <1>11 DEF Intent
  <2> QED BY <1>3, <1>5, <1>7, <2>1, <2>2 DEF ItemState, PlanOK
<1>12. CASE ItemResult(w)
  <2>1. Outcome \subseteq ItemState /\ UNCHANGED plan
    BY <1>12 DEF ItemResult, Outcome, ItemState
  <2>2. PICK i \in Item : \/ \E s \in Outcome : SetItem(p, i, s)
                         \/ \E s, t \in Outcome : SetPair(p, i, s, t)
    BY <1>12 DEF ItemResult, LoopOK, Outcome
  <2> QED BY <1>3, <1>5, <1>7, <1>a, <2>1, <2>2
<1>13. CASE PostLoop(w)
  <2>1. plan' \in [Plan -> PlanStatus]
    BY <1>1, <1>13 DEF PostLoop, PlanOK, PlanStatus
  <2> QED BY <1>3, <1>5, <1>13, <2>1 DEF PostLoop, PlanOK
<1> QED BY <1>8, <1>9, <1>10, <1>11, <1>12, <1>13

(* Lapses and the users' requests keep the types.                         *)
LEMMA RequestSteps == ASSUME TypeOK, Lapse \/ Request PROVE Shape'
<1> USE DEF TypeOK, Shape
<1>0. {"queued", "cancelled", "cancel_requested", "paused"} \subseteq JobStatus
  BY DEF JobStatus, Active, InFlight, Terminal
<1>1. CASE Lapse
  <2>1. LockOK'
    BY <1>1 DEF Lapse, LockOK
  <2>2. lapses' = lapses \/ (lapses < MaxLapses /\ lapses' = lapses + 1)
    BY <1>1 DEF Lapse
  <2>3. EnvOK'
    BY <1>1, <2>2, TaskQueueAssumption DEF Lapse, EnvOK
  <2> QED BY <1>1, <2>1, <2>3 DEF Lapse, db, local, JobOK, PlanOK, ControlOK, LocalOK
<1>2. CASE Request
  <2>1. LockOK' /\ ControlOK' /\ LocalOK' /\ EnvOK'
    BY <1>2 DEF Request, TaskRequest, EnqueuePlan, StartScan, Pause, Resume, Cancel, Retry, Delete, ClearHistory,
                quiet, local, env, LockOK, ControlOK, LocalOK, EnvOK
  <2>2. CASE \E p \in Plan : EnqueuePlan(p)
    BY <2>1, <2>2, NewJobEffect DEF EnqueuePlan, Kind, PlanOK, quiet
  <2>3. CASE StartScan
    BY <2>1, <2>3, NewJobEffect DEF StartScan, Kind, PlanOK, quiet
  <2>4. ASSUME NEW j \in JobId, Pause(j) PROVE Shape'
    <3>1. JobOK'
      BY <1>0, <2>4, SetStatusEffect DEF Pause, JobOK, JobRecord
    <3> QED BY <2>1, <2>4, <3>1 DEF Pause, PlanOK, quiet
  <2>5. ASSUME NEW j \in JobId, Resume(j) PROVE Shape'
    <3>1. JobOK'
      BY <1>0, <2>5 DEF Resume, JobOK, JobRecord
    <3> QED BY <2>1, <2>5, <3>1 DEF Resume, PlanOK, quiet
  <2>6. ASSUME NEW j \in JobId, Cancel(j) PROVE Shape'
    <3>1. JobOK' /\ PlanOK'
      BY <1>0, <2>6, SetStatusEffect, SyncPlanType DEF Cancel, PlanOK, quiet, Terminal
    <3> QED BY <2>1, <3>1
  <2>7. ASSUME NEW j \in JobId, Retry(j) PROVE Shape'
    <3>1. job[j].kind \in Kind /\ job[j].plan \in Plan \cup {None}
          /\ (job[j].kind = "exec" => job[j].plan \in Plan)
      BY DEF JobOK, JobRecord
    <3> QED BY <2>1, <2>7, <3>1, NewJobEffect DEF Retry, PlanOK, quiet
  <2>8. ASSUME NEW S, ClearHistory(S) PROVE Shape'
    BY <2>1, <2>8 DEF ClearHistory, JobOK, JobRecord, JobStatus, Kind, NoJob, PlanOK, quiet
  <2>9. ASSUME NEW j \in JobId, Delete(j) PROVE Shape'
    BY <2>1, <2>9 DEF Delete, JobOK, JobRecord, JobStatus, Kind, NoJob, PlanOK, quiet
  <2> QED BY <1>2, <2>2, <2>3, <2>4, <2>5, <2>6, <2>7, <2>8, <2>9 DEF Request, TaskRequest
<1> QED BY <1>1, <1>2

(* The position of a worker's loop is an item whenever its handler is at   *)
(* one: only a boundary enters the intent, and only an intent the mutation. *)
LEMMA LoopSteps ==
    ASSUME TypeOK, [Next]_vars
    PROVE  LoopOK'
<1> USE DEF TypeOK, LoopOK, ControlOK
<1>1. CASE Lapse \/ Request \/ UNCHANGED vars
  BY <1>1 DEF Lapse, Request, TaskRequest, EnqueuePlan, StartScan, Pause, Resume, Cancel, Retry, Delete, ClearHistory,
              quiet, local, vars
<1>2. ASSUME NEW w \in Worker, UNCHANGED at, pc'[w] \notin {"intent", "item"},
             \A v \in Worker \ {w} : pc'[v] = pc[v]
      PROVE  LoopOK'
  BY <1>2
<1>3. ASSUME NEW w \in Worker, NEW l \in PC, Leave(w, l), l \notin {"intent", "item"} PROVE LoopOK'
  BY <1>3 DEF Leave, Go
<1>4. ASSUME NEW w \in Worker, NEW l \in PC, Go(w, l), l \notin {"intent", "item"}, UNCHANGED at
      PROVE  LoopOK'
  BY <1>2, <1>4, GoEffect
<1>5. ASSUME NEW w \in Worker, Progress(w) \/ Mishap(w) PROVE LoopOK'
  <2> USE Places
  <2>1. CASE \/ Start(w) \/ Acquire(w) \/ NoticeLeaseLost(w) \/ RecoveryLeaseLost(w)
             \/ ListInterrupted(w) \/ ListOrphans(w) \/ RecoveryDone(w) \/ Claim(w)
             \/ Reconcile(w) \/ Fresh(w) \/ ItemStale(w) \/ NoItemLeft(w) \/ PostLoop(w) \/ Raise(w)
    <3>1. UNCHANGED at /\ \E l \in {"acquire", "list", "idle", "recover", "repair", "claimed", "ready",
                                   "next", "abort", "post", "last", "failing"} : Go(w, l)
      BY <2>1 DEF Start, Acquire, NoticeLeaseLost, RecoveryLeaseLost, ListInterrupted, ListOrphans,
                  RecoveryDone, Claim, Reconcile, Fresh, ItemStale, NoItemLeft, PostLoop, Raise
    <3> QED BY <1>4, <3>1
  <2>2. CASE LeaseLost(w) \/ Crash(w) \/ SwallowedError(w) \/ Finish(w) \/ Failing(w) \/ Cancelling(w) \/ Pausing(w)
    <3>1. \E l \in {"acquire", "dead", "idle"} : Leave(w, l)
      BY <2>2 DEF LeaseLost, Crash, SwallowedError, Finish, Failing, Cancelling, Pausing, SyncAfterUnwinding
    <3> QED BY <1>3, <3>1
  <2>3. CASE Preflight(w)
    <3>1. \/ \E l \in {"acquire", "idle"} : Leave(w, l)
          \/ UNCHANGED at /\ \E l \in {"begin", "work"} : Go(w, l)
      BY <2>3 DEF Preflight
    <3> QED BY <1>3, <1>4, <3>1
  <2>4. CASE RecoverJob(w) \/ RepairPlan(w) \/ LateFence(w) \/ HeartbeatRefused(w) \/ PollEmpty(w)
    BY <2>4 DEF RecoverJob, RepairPlan, LateFence, HeartbeatRefused, PollEmpty, local, vars
  <2>5. CASE Begin(w) \/ Ready(w) \/ LastCheckpoint(w) \/ WorkPoll(w) \/ WorkDone(w)
    <3>1. UNCHANGED at /\ \E l \in {"failing", "cancelling", "pausing", "reconcile", "fresh", "finish", "work"} : Go(w, l)
      BY <2>5 DEF Begin, Ready, LastCheckpoint, WorkPoll, WorkDone, Checkpoint
    <3> QED BY <1>4, <3>1
  <2>6. CASE Boundary(w)
    <3>1. PICK i \in Item : at' = [at EXCEPT ![w] = i]
      BY <2>6 DEF Boundary
    <3>2. PICK l \in {"failing", "cancelling", "pausing", "intent"} : Go(w, l)
      BY <2>6 DEF Boundary, Checkpoint
    <3> QED BY <3>1, <3>2 DEF Go
  <2>7. CASE Intent(w)
    <3>1. UNCHANGED at /\ pc[w] = "intent" /\ \E l \in {"item", "next"} : Go(w, l)
      BY <2>7 DEF Intent
    <3> QED BY <3>1 DEF Go
  <2>8. CASE ItemResult(w)
    <3>1. UNCHANGED at /\ pc[w] = "item" /\ \E l \in {"next", "post"} : Go(w, l)
      BY <2>8 DEF ItemResult
    <3> QED BY <1>4, <3>1
  <2> QED BY <1>5, <2>1, <2>2, <2>3, <2>4, <2>5, <2>6, <2>7, <2>8 DEF Progress, Mishap
<1> QED BY <1>1, <1>5 DEF Next

(* Types are inductive.                                                   *)
LEMMA NextTypeOK == TypeOK /\ [Next]_vars => TypeOK'
<1> SUFFICES ASSUME TypeOK, [Next]_vars PROVE TypeOK'
  OBVIOUS
<1>1. ASSUME UNCHANGED vars PROVE Shape'
  BY <1>1 DEF vars, TypeOK, LockOK, JobOK, PlanOK, ControlOK, LocalOK, EnvOK, Shape
<1>2. ASSUME NEW w \in Worker, Progress(w) \/ Mishap(w) PROVE Shape'
  BY <1>2, ControlSteps, CheckpointSteps, JobSteps, HandlerSteps DEF Progress, Mishap
<1> QED BY <1>1, <1>2, RequestSteps, LoopSteps DEF Next, Shape, TypeOK

(* Every reachable state has the shape the tables and the workers expect,  *)
(* for any number of workers, plans, jobs and items.                       *)
THEOREM TypeCorrect == Spec => []TypeOK
BY InitTypeOK, NextTypeOK, PTL DEF Spec

-----------------------------------------------------------------------------
(* One worker's step, seen by the others.                                  *)

(* A step of a worker changes nothing local to another one.                *)
LEMMA Frame ==
    ASSUME TypeOK, NEW v \in Worker, Progress(v) \/ Mishap(v)
    PROVE  \A w \in Worker \ {v} : /\ pc'[w] = pc[w] /\ cur'[w] = cur[w]
                                   /\ todo'[w] = todo[w] /\ orphans'[w] = orphans[w]
<1> USE DEF TypeOK, ControlOK, LocalOK, Go, Leave
<1>1. CASE \/ Start(v) \/ Acquire(v) \/ NoticeLeaseLost(v) \/ LeaseLost(v) \/ RecoveryLeaseLost(v)
           \/ ListInterrupted(v) \/ RecoverJob(v) \/ ListOrphans(v) \/ RepairPlan(v) \/ RecoveryDone(v)
  BY <1>1 DEF Start, Acquire, NoticeLeaseLost, LeaseLost, RecoveryLeaseLost, ListInterrupted,
              RecoverJob, ListOrphans, RepairPlan, RecoveryDone
<1>2. CASE \/ Claim(v) \/ Preflight(v) \/ Finish(v) \/ Failing(v) \/ Cancelling(v) \/ Pausing(v)
  BY <1>2 DEF Claim, Preflight, Finish, Failing, Cancelling, Pausing, SyncAfterUnwinding
<1>3. CASE \/ WorkDone(v) \/ WorkPoll(v) \/ Begin(v) \/ Ready(v) \/ Boundary(v) \/ LastCheckpoint(v)
  BY <1>3 DEF WorkDone, WorkPoll, Begin, Ready, Boundary, LastCheckpoint, Checkpoint
<1>4. CASE \/ Reconcile(v) \/ Fresh(v) \/ ItemStale(v) \/ Intent(v) \/ ItemResult(v)
           \/ NoItemLeft(v) \/ PostLoop(v)
  BY <1>4 DEF Reconcile, Fresh, ItemStale, Intent, ItemResult, NoItemLeft, PostLoop
<1>5. CASE Mishap(v) /\ ~WorkPoll(v)
  BY <1>5 DEF Mishap, LateFence, HeartbeatRefused, Crash, Raise, SwallowedError, PollEmpty, local, vars
<1> QED BY <1>1, <1>2, <1>3, <1>4, <1>5 DEF Progress, Mishap

(* Only acquisition changes the owner, and only to the worker that takes.  *)
LEMMA OwnerChange ==
    ASSUME NEW v \in Worker, Progress(v) \/ Mishap(v)
    PROVE  \/ UNCHANGED lock
           \/ Acquire(v)
           \/ LateFence(v)
<1>1. CASE Progress(v) /\ ~Acquire(v)
  BY <1>1 DEF Progress, Start, NoticeLeaseLost, LeaseLost, RecoveryLeaseLost, ListInterrupted,
              RecoverJob, ListOrphans, RepairPlan, RecoveryDone, Claim, Preflight, Finish, Failing,
              Cancelling, Pausing, SyncAfterUnwinding, WorkDone, Begin, Ready, Boundary,
              LastCheckpoint, Checkpoint, Reconcile, Fresh, ItemStale, Intent, ItemResult,
              NoItemLeft, PostLoop
<1>2. CASE Mishap(v) /\ ~LateFence(v)
  BY <1>2 DEF Mishap, HeartbeatRefused, Crash, Raise, SwallowedError, PollEmpty, vars, WorkPoll, Checkpoint
<1> QED BY <1>1, <1>2

(* Whatever a worker writes it writes under a live lease of its own, but   *)
(* for the plan it syncs after a pause.                                    *)
LEMMA FencedStep ==
    ASSUME NEW v \in Worker, Progress(v) \/ Mishap(v), ~Holds(v)
    PROVE  /\ UNCHANGED <<job, item, abandoned>>
           /\ pc[v] # "pausing" => UNCHANGED plan
<1>1. CASE Progress(v)
  BY <1>1 DEF Progress, Start, Acquire, NoticeLeaseLost, LeaseLost, RecoveryLeaseLost, ListInterrupted,
              RecoverJob, ListOrphans, RepairPlan, RecoveryDone, Claim, Preflight, Finish, Failing,
              Cancelling, Pausing, SyncAfterUnwinding, WorkDone, Begin, Ready, Boundary,
              LastCheckpoint, Checkpoint, Reconcile, Fresh, ItemStale, Intent, ItemResult,
              NoItemLeft, PostLoop, db, env
<1>2. CASE Mishap(v)
  BY <1>2 DEF Mishap, LateFence, HeartbeatRefused, Crash, Raise, SwallowedError, PollEmpty, vars,
              WorkPoll, Checkpoint, db, env
<1> QED BY <1>1, <1>2

(* A worker without a live lease changes no row, except in the transaction *)
(* that follows a pause: the fence of every other transaction is complete. *)
THEOREM Fencing == Spec => FencedWrites
<1>1. ASSUME TypeOK, [Next]_vars
      PROVE  [\A w \in Worker : Acts(w) /\ ~Holds(w) /\ pc[w] # "pausing" => UNCHANGED db]_vars
  <2> SUFFICES ASSUME Next, NEW w \in Worker, Acts(w), ~Holds(w), pc[w] # "pausing"
               PROVE  UNCHANGED db
    BY <1>1
  <2>1. CASE Lapse \/ Request
    BY <2>1 DEF Lapse, Request, TaskRequest, EnqueuePlan, StartScan, Pause, Resume, Cancel, Retry, Delete,
                ClearHistory, quiet, local, Acts
  <2>2. ASSUME NEW v \in Worker, Progress(v) \/ Mishap(v) PROVE UNCHANGED db
    <3>1. v = w
      BY <1>1, <2>2, Frame DEF Acts
    <3> QED BY <2>2, <3>1, FencedStep DEF db
  <2> QED BY <2>1, <2>2 DEF Next
<1> QED BY <1>1, TypeCorrect, PTL DEF Spec, FencedWrites

(* Every step takes, lapses or revives the lease, or leaves it alone.     *)
LEMMA NextLease == ASSUME TypeOK, [Next]_vars PROVE [Lease!Next]_lock
<1>1. ASSUME NEW v \in Worker, Acquire(v) PROVE Lease!Next
  BY <1>1 DEF Acquire, Lease!Next, Lease!Take
<1>2. ASSUME NEW v \in Worker, LateFence(v) PROVE Lease!Next
  BY <1>2, TaskQueueAssumption DEF LateFence, Lease!Next, Lease!Revive
<1>3. CASE Lapse
  BY <1>3 DEF Lapse, Lease!Next, Lease!Lapse
<1>4. CASE Request
  BY <1>4 DEF Request, TaskRequest, EnqueuePlan, StartScan, Pause, Resume, Cancel, Retry, Delete, ClearHistory, quiet
<1>5. CASE UNCHANGED vars
  BY <1>5 DEF vars
<1> QED BY <1>1, <1>2, <1>3, <1>4, <1>5, OwnerChange DEF Next

(* The queue uses its lock as ExclusiveLease promises.                     *)
THEOREM QueueImplementsLease == Spec => ImplementsLease
<1>1. Init => Lease!Init
  BY DEF Init, QueueInit, Lease!Init
<1> QED BY <1>1, NextLease, TypeCorrect, PTL DEF Spec, ImplementsLease, Lease!Spec

-----------------------------------------------------------------------------
(* What a worker's step does to the jobs.                                  *)

(* No worker changes what a job is, ends a job it brings back, or starts a *)
(* job other than by claiming a queued one.                                *)
LEMMA WorkerJobs ==
    ASSUME TypeOK, NEW v \in Worker, Progress(v) \/ Mishap(v), NEW k \in JobId
    PROVE  /\ job'[k].kind = job[k].kind /\ job'[k].plan = job[k].plan
           /\ job'[k].st \in Active => job[k].st \in Active
           /\ job'[k].st \in InFlight =>
                 \/ job[k].st \in InFlight
                 \/ Claim(v) /\ cur'[v] = k
                 \/ Preflight(v) /\ cur[v] = k
<1> USE DEF Active, InFlight, Terminal
<1>0. {"queued", "running", "cancelled", "failed", "completed"} \subseteq JobStatus /\ JobOK
  BY DEF JobStatus, TypeOK
<1>1. CASE Claim(v)
  <2>1. PICK j \in UNION Candidates : SetStatus(j, "running") /\ cur' = [cur EXCEPT ![v] = j]
    BY <1>1 DEF Claim
  <2>2. j \in JobId /\ job[j].st = "queued" /\ cur'[v] = j
    BY <2>1 DEF Candidates, LowestQueued, TypeOK, ControlOK
  <2> QED BY <1>0, <1>1, <2>1, <2>2, SetStatusEffect
<1>2. CASE Preflight(v)
  <2>1. cur[v] \in JobId
    BY <1>2, Places DEF Preflight, TypeOK, ControlOK
  <2>2. \/ UNCHANGED job
        \/ SetStatus(cur[v], "cancelled")
        \/ SetStatus(cur[v], "running") /\ job[cur[v]].st \in {"queued", "running"}
    BY <1>2 DEF Preflight
  <2> QED BY <1>0, <1>2, <2>1, <2>2, SetStatusEffect
<1>3. CASE Finish(v) \/ Failing(v)
  <2>1. cur[v] \in JobId
    BY <1>3, Places DEF Finish, Failing, TypeOK, ControlOK
  <2>2. UNCHANGED job \/ \E s \in Terminal : SetStatus(cur[v], s)
    BY <1>3 DEF Finish, Failing
  <2> QED BY <1>0, <2>1, <2>2, SetStatusEffect
<1>4. CASE RecoverJob(v)
  <2>1. PICK j \in JobId :
           \/ UNCHANGED job
           \/ \E s \in Terminal : SetStatus(j, s)
           \/ SetStatus(j, "queued") /\ job[j].st = "running"
    BY <1>4 DEF RecoverJob, TypeOK, LocalOK
  <2> QED BY <1>0, <2>1, SetStatusEffect
<1>5. CASE \/ Begin(v) \/ Ready(v) \/ Boundary(v) \/ LastCheckpoint(v) \/ WorkPoll(v) \/ WorkDone(v)
  <2>1. PICK saves \in BOOLEAN,
             next \in {"begin", "reconcile", "ready", "fresh", "abort",
                      "next", "intent", "item", "post", "last", "work", "finish"} :
          /\ Checkpoint(v, saves, next) /\ pc[v] \in Processing
          /\ next \in Handler \ {"work"} => pid[v] \in Plan
    BY <1>5, Places DEF TypeOK, ControlOK, Begin, Ready, Boundary, LastCheckpoint, WorkPoll, WorkDone,
                        Handler, Processing
  <2> QED BY <2>1, CheckpointEffect
<1>6. CASE UNCHANGED job
  BY <1>6
<1>7. CASE Progress(v)
  BY <1>1, <1>2, <1>3, <1>4, <1>5, <1>6, <1>7
  DEF Progress, Start, Acquire, NoticeLeaseLost, LeaseLost, RecoveryLeaseLost, ListInterrupted,
      ListOrphans, RepairPlan, RecoveryDone, Cancelling, Pausing, SyncAfterUnwinding,
      Reconcile, Fresh, ItemStale, Intent, ItemResult, NoItemLeft, PostLoop, db
<1>8. CASE Mishap(v)
  BY <1>5, <1>6, <1>8
  DEF Mishap, LateFence, HeartbeatRefused, Crash, Raise, SwallowedError, PollEmpty, vars, db
<1> QED BY <1>7, <1>8

(* A user's request neither starts nor ends the flight of a job, and what  *)
(* it creates takes an id that no row has.                                 *)
LEMMA FreshId == ASSUME NEW j \in JobId, NextId(j) PROVE job[j].st = "absent"
BY TaskQueueAssumption DEF NextId, Present, JobId

(* A request puts no job in flight and takes none out of it.              *)
LEMMA RequestFlight ==
    ASSUME TypeOK, Request, NEW k \in JobId
    PROVE  job'[k].st \in InFlight <=> job[k].st \in InFlight
<1> USE DEF InFlight, Terminal
<1>0. JobOK /\ {"queued", "cancelled", "cancel_requested", "paused"} \subseteq JobStatus
  BY DEF TypeOK, JobStatus, Active
<1>1. ASSUME NEW j \in JobId, NextId(j), NEW q \in Kind, NEW p \in Plan \cup {None},
             job' = [job EXCEPT ![j] = NewJob(q, p)]
      PROVE  job'[k].st \in InFlight <=> job[k].st \in InFlight
  BY <1>0, <1>1, FreshId DEF JobOK, NewJob
<1>2. CASE StartScan \/ \E p \in Plan : EnqueuePlan(p)
  BY <1>1, <1>2 DEF StartScan, EnqueuePlan, Kind
<1>3. ASSUME NEW j \in JobId, Retry(j) PROVE job'[k].st \in InFlight <=> job[k].st \in InFlight
  <2>1. job[j].kind \in Kind /\ job[j].plan \in Plan \cup {None}
    BY <1>0 DEF JobOK, JobRecord
  <2> QED BY <1>1, <1>3, <2>1 DEF Retry
<1>4. ASSUME NEW j \in JobId, Pause(j) \/ Resume(j) \/ Cancel(j)
      PROVE  job'[k].st \in InFlight <=> job[k].st \in InFlight
  BY <1>0, <1>4 DEF Pause, Resume, Cancel, SetStatus, JobOK, JobRecord
<1>5. CASE \E j \in JobId : Delete(j)
  BY <1>0, <1>5 DEF Delete, NoJob, JobOK
<1>6. CASE \E S \in SUBSET Terminal : ClearHistory(S)
  BY <1>0, <1>6 DEF ClearHistory, NoJob, JobOK
<1> QED BY <1>2, <1>3, <1>4, <1>5, <1>6 DEF Request, TaskRequest

-----------------------------------------------------------------------------
(* At most one active execution per plan.                                  *)

(* A new execution of a plan that has none active is its only one.        *)
LEMMA NewExecution ==
    ASSUME TypeOK, OneActiveJobPerPlan, NEW q \in Plan, ActiveExec(q) = {},
           NEW j \in JobId, NextId(j), job' = [job EXCEPT ![j] = NewJob("exec", q)]
    PROVE  OneActiveJobPerPlan'
<1> SUFFICES ASSUME NEW p \in Plan PROVE \A i, k \in ActiveExec(p)' : i = k
  BY DEF OneActiveJobPerPlan
<1>1. /\ job'[j].kind = "exec" /\ job'[j].plan = q
      /\ \A i \in JobId \ {j} : job'[i] = job[i]
  BY NewJobEffect DEF TypeOK, Kind
<1>2. CASE p = q
  <2>1. ActiveExec(p)' \subseteq {j}
    BY <1>1, <1>2 DEF ActiveExec
  <2> QED BY <2>1
<1>3. CASE p # q
  <2>1. ActiveExec(p)' \subseteq ActiveExec(p)
    BY <1>1, <1>3 DEF ActiveExec
  <2> QED BY <2>1 DEF OneActiveJobPerPlan
<1> QED BY <1>2, <1>3

(* No step gives a plan a second active execution.                        *)
LEMMA NextOneActive == TypeOK /\ OneActiveJobPerPlan /\ [Next]_vars => OneActiveJobPerPlan'
<1> SUFFICES ASSUME TypeOK, OneActiveJobPerPlan, [Next]_vars PROVE OneActiveJobPerPlan'
  OBVIOUS
<1>0. JobOK
  BY DEF TypeOK
<1>1. ASSUME \A p \in Plan : ActiveExec(p)' \subseteq ActiveExec(p) PROVE OneActiveJobPerPlan'
  BY <1>1 DEF OneActiveJobPerPlan
<1>2. ASSUME NEW v \in Worker, Progress(v) \/ Mishap(v) PROVE OneActiveJobPerPlan'
  BY <1>1, <1>2, WorkerJobs DEF ActiveExec
<1>3. CASE UNCHANGED job
  BY <1>1, <1>3 DEF ActiveExec
<1>4. CASE \E p \in Plan : EnqueuePlan(p)
  BY <1>4, NewExecution DEF EnqueuePlan
<1>a. ASSUME NEW j \in JobId, NEW p \in Plan \cup {None}, job' = [job EXCEPT ![j] = NewJob("scan", p)]
      PROVE  OneActiveJobPerPlan'
  <2>1. job'[j].kind = "scan" /\ \A i \in JobId \ {j} : job'[i] = job[i]
    BY <1>0, <1>a, NewJobEffect DEF Kind
  <2> QED BY <1>1, <2>1 DEF ActiveExec
<1>5. CASE StartScan
  BY <1>5, <1>a DEF StartScan
<1>6. ASSUME NEW j \in JobId, Retry(j) PROVE OneActiveJobPerPlan'
  <2>1. PICK k \in JobId : NextId(k) /\ job' = [job EXCEPT ![k] = NewJob(job[j].kind, job[j].plan)]
    BY <1>6 DEF Retry
  <2>2. CASE job[j].kind = "exec"
    BY <1>0, <1>6, <2>1, <2>2, NewExecution DEF Retry, JobOK
  <2>3. CASE job[j].kind = "scan"
    <3>1. job[j].plan \in Plan \cup {None}
      BY <1>0 DEF JobOK, JobRecord
    <3> QED BY <1>a, <2>1, <2>3, <3>1
  <2> QED BY <1>0, <2>2, <2>3 DEF JobOK, JobRecord, Kind
<1>7. ASSUME NEW j \in JobId, Pause(j) \/ Resume(j) \/ Cancel(j) PROVE OneActiveJobPerPlan'
  <2>1. \A k \in JobId : /\ job'[k].kind = job[k].kind /\ job'[k].plan = job[k].plan
                         /\ job'[k].st \in Active => job[k].st \in Active
    BY <1>0, <1>7 DEF Pause, Resume, Cancel, SetStatus, JobOK, JobRecord, Active, InFlight
  <2> QED BY <1>1, <2>1 DEF ActiveExec
<1>8. CASE (\E j \in JobId : Delete(j)) \/ (\E S \in SUBSET Terminal : ClearHistory(S))
  BY <1>0, <1>1, <1>8 DEF Delete, ClearHistory, NoJob, JobOK, ActiveExec, Active, InFlight
<1> QED BY <1>2, <1>3, <1>4, <1>5, <1>6, <1>7, <1>8 DEF Next, Request, TaskRequest, Lapse, db, vars

(* However enqueues, retries, resumes, cancels and recoveries interleave,  *)
(* a plan never has two execution jobs that may still run.                 *)
THEOREM OneExecutionPerPlan == Spec => []OneActiveJobPerPlan
<1>1. Init => OneActiveJobPerPlan
  BY DEF Init, QueueInit, OneActiveJobPerPlan, ActiveExec, NoJob, Active, InFlight
<1> QED BY <1>1, NextOneActive, TypeCorrect, PTL DEF Spec

-----------------------------------------------------------------------------
(* Jobs in flight belong to the owner of the lease.                        *)

(* What the owner's place says about the jobs in flight.  It depends on    *)
(* the owner alone while a job is processed, because a lapsed lease may    *)
(* come back to life there (LateFence); elsewhere the lease must be live.  *)
Settled ==
    \A w \in Worker : lock.owner = w =>
        /\ pc[w] \in Processing => InFlightJobs \subseteq abandoned \cup {cur[w]}
        /\ pc[w] \in {"pausing", "cancelling"} => InFlightJobs \subseteq abandoned
        /\ lock.live /\ pc[w] = "recover" => InFlightJobs \subseteq abandoned \cup todo[w]
        /\ lock.live /\ pc[w] \in {"repair", "idle"} => InFlightJobs \subseteq abandoned

Ownership == TypeOK /\ HandlerJobInFlight /\ Settled /\ SingleFlight

(* A step of which the owner is not the actor keeps what its place says.   *)
LEMMA OthersStep ==
    ASSUME Ownership, NEW v \in Worker, Progress(v) \/ Mishap(v), lock.owner # v, ~Acquire(v)
    PROVE  HandlerJobInFlight' /\ Settled' /\ SingleFlight'
<1>1. UNCHANGED <<job, abandoned>>
  BY FencedStep DEF Holds
<1>2. UNCHANGED lock
  BY OwnerChange DEF LateFence
<1>3. \A w \in Worker \ {v} : pc'[w] = pc[w] /\ cur'[w] = cur[w] /\ todo'[w] = todo[w]
  BY Frame DEF Ownership
<1> QED BY <1>1, <1>2, <1>3 DEF Ownership, HandlerJobInFlight, Settled, SingleFlight, InFlightJobs

(* With no owner and no job, ownership holds.                             *)
LEMMA InitOwnership == Init => Ownership
BY InitTypeOK, TaskQueueAssumption
DEF Init, QueueInit, Ownership, HandlerJobInFlight, Settled, SingleFlight, InFlightJobs, NoJob, InFlight

(* The owner's steps that leave jobs in flight as they are.                *)
LEMMA OwnerQuietStep ==
    ASSUME Ownership, NEW v \in Worker, lock.owner = v, UNCHANGED <<job, abandoned>>,
           lock'.owner = v,
           \A w \in Worker \ {v} : pc'[w] = pc[w],
           \/ /\ pc[v] \in Processing /\ pc'[v] \in Processing /\ cur'[v] = cur[v]
           \/ pc'[v] \in {"new", "acquire", "list", "dead"}
           \/ /\ lock'.live => lock.live
              /\ pc'[v] = pc[v] /\ cur'[v] = cur[v] /\ todo'[v] = todo[v]
           \/ pc'[v] \in {"recover", "repair", "idle"} /\ ~lock'.live
           \/ pc'[v] \in {"repair", "idle"} /\ InFlightJobs \subseteq abandoned
           \/ pc'[v] = "recover" /\ InFlightJobs \subseteq todo'[v]
    PROVE  HandlerJobInFlight' /\ Settled' /\ SingleFlight'
<1>1. InFlightJobs' = InFlightJobs
  BY DEF InFlightJobs
<1>2. SingleFlight'
  BY <1>1 DEF Ownership, SingleFlight
<1>3. \A w \in Worker : lock'.owner = w => w = v
  OBVIOUS
<1>4. HandlerJobInFlight'
  BY <1>3 DEF Ownership, HandlerJobInFlight, Processing, Handler
<1>5. Settled'
  BY <1>1, <1>3 DEF Ownership, Settled, Processing, Handler
<1> QED BY <1>2, <1>4, <1>5

(* A step of the owner that changes jobs and goes on with one of them.     *)
LEMMA OwnerAtWork ==
    ASSUME Ownership, NEW v \in Worker, lock.owner = v, UNCHANGED lock,
           NEW k \in JobId, cur'[v] = k, pc'[v] \in Processing,
           InFlightJobs' \subseteq abandoned' \cup {k}, k \in InFlightJobs'
    PROVE  HandlerJobInFlight' /\ Settled' /\ SingleFlight'
<1>1. \A w \in Worker : lock'.owner = w => w = v
  OBVIOUS
<1>2. HandlerJobInFlight'
  BY <1>1 DEF HandlerJobInFlight, InFlightJobs
<1>3. Settled'
  BY <1>1 DEF Settled, Processing, Handler
<1> QED BY <1>2, <1>3 DEF SingleFlight

(* A step of the owner that changes jobs and leaves none of them open,     *)
(* abandoned ones apart.                                                   *)
LEMMA OwnerAtRest ==
    ASSUME Ownership, NEW v \in Worker, lock.owner = v, UNCHANGED lock,
           pc'[v] \in {"pausing", "cancelling", "idle", "acquire"},
           InFlightJobs' \subseteq abandoned'
    PROVE  HandlerJobInFlight' /\ Settled' /\ SingleFlight'
<1>1. \A w \in Worker : lock'.owner = w => w = v
  OBVIOUS
<1>2. HandlerJobInFlight'
  BY <1>1 DEF HandlerJobInFlight, Processing, Handler
<1>3. Settled'
  BY <1>1 DEF Settled, Processing, Handler
<1> QED BY <1>2, <1>3 DEF SingleFlight

(* A step of the owner keeps what its place says of the jobs in flight.   *)
LEMMA OwnerStep ==
    ASSUME Ownership, NEW v \in Worker, lock.owner = v, Progress(v) \/ Mishap(v)
    PROVE  HandlerJobInFlight' /\ Settled' /\ SingleFlight'
<1> DEFINE j == cur[v]
<1>0. /\ TypeOK /\ ControlOK /\ LocalOK /\ LockOK /\ EnvOK /\ JobOK
      /\ \A w \in Worker \ {v} : pc'[w] = pc[w]
  BY Frame DEF Ownership, TypeOK
<1>1. pc[v] \in Processing => j \in InFlightJobs /\ InFlightJobs \subseteq abandoned \cup {j}
  BY <1>0 DEF Ownership, HandlerJobInFlight, Settled, InFlightJobs, ControlOK
<1>2. CASE Start(v) \/ Acquire(v) \/ NoticeLeaseLost(v) \/ LeaseLost(v) \/ Crash(v)
  <2>1. pc'[v] \in {"acquire", "list", "dead"} /\ lock'.owner = v /\ UNCHANGED <<job, abandoned>>
    BY <1>0, <1>2 DEF Start, Acquire, NoticeLeaseLost, LeaseLost, Crash, Go, Leave, ControlOK, db, env
  <2> QED BY <1>0, <2>1, OwnerQuietStep
<1>3. CASE RecoveryLeaseLost(v)
  <2>1. pc'[v] = "idle" /\ ~lock'.live /\ lock'.owner = v /\ UNCHANGED <<job, abandoned>>
    BY <1>0, <1>3 DEF RecoveryLeaseLost, Go, ControlOK, Holds, db, env
  <2> QED BY <1>0, <2>1, OwnerQuietStep
<1>4. CASE ListInterrupted(v)
  <2>1. pc'[v] = "recover" /\ todo'[v] = InFlightJobs /\ lock'.owner = v /\ UNCHANGED <<job, abandoned>>
    BY <1>0, <1>4 DEF ListInterrupted, Go, ControlOK, LocalOK, db, env
  <2> QED BY <1>0, <2>1, OwnerQuietStep
<1>5. CASE RecoverJob(v)
  <2>1. PICK k \in todo[v] :
           /\ todo' = [todo EXCEPT ![v] = @ \ {k}]
           /\ abandoned' = abandoned \ {k}
           /\ \/ \E s \in Terminal \cup {"queued"} : SetStatus(k, s)
              \/ job[k].st \notin InFlight /\ UNCHANGED job
    BY <1>5 DEF RecoverJob, Terminal
  <2>2. k \in JobId /\ todo'[v] = todo[v] \ {k}
    BY <1>0, <2>1 DEF LocalOK
  <2>3. Terminal \cup {"queued"} \subseteq JobStatus /\ (Terminal \cup {"queued"}) \cap InFlight = {}
    BY DEF JobStatus, Active, Terminal, InFlight
  <2>4. InFlightJobs' \subseteq InFlightJobs \ {k}
    BY <1>0, <2>1, <2>2, <2>3, SetStatusEffect DEF InFlightJobs
  <2>5. InFlightJobs \subseteq abandoned \cup todo[v]
    BY <1>0, <1>5 DEF RecoverJob, Holds, Ownership, Settled
  <2>6. /\ UNCHANGED <<lock, pc, cur>> /\ pc[v] = "recover"
    BY <1>5 DEF RecoverJob
  <2>7. SingleFlight'
    BY <2>1, <2>4 DEF Ownership, SingleFlight
  <2>8. Settled' /\ HandlerJobInFlight'
    BY <2>1, <2>2, <2>4, <2>5, <2>6, Places DEF Settled, HandlerJobInFlight
  <2> QED BY <2>7, <2>8
<1>6. CASE ListOrphans(v) \/ RecoveryDone(v) \/ RepairPlan(v)
  <2>1. pc'[v] \in {"repair", "idle"} /\ lock'.owner = v /\ UNCHANGED <<lock, job, abandoned>>
    BY <1>0, <1>6 DEF ListOrphans, RecoveryDone, RepairPlan, Go, ControlOK, db, env
  <2>2. lock.live => InFlightJobs \subseteq abandoned
    BY <1>0, <1>6 DEF ListOrphans, RecoveryDone, RepairPlan, Ownership, Settled
  <2> QED BY <1>0, <2>1, <2>2, OwnerQuietStep
<1>7. CASE Claim(v)
  <2>1. PICK k \in UNION Candidates : SetStatus(k, "running") /\ cur' = [cur EXCEPT ![v] = k]
    BY <1>7 DEF Claim
  <2>2. k \in JobId /\ cur'[v] = k /\ pc'[v] = "claimed" /\ UNCHANGED <<lock, abandoned>>
    BY <1>0, <1>7, <2>1 DEF Candidates, LowestQueued, ControlOK, Claim, Go, env
  <2>3. InFlightJobs \subseteq abandoned
    BY <1>7 DEF Claim, Holds, Ownership, Settled
  <2>4. "running" \in JobStatus /\ "running" \in InFlight
    BY DEF JobStatus, Active, InFlight
  <2>a. job'[k].st = "running" /\ \A i \in JobId \ {k} : job'[i] = job[i]
    BY <1>0, <2>1, <2>2, <2>4, SetStatusEffect
  <2>5. InFlightJobs' \subseteq abandoned' \cup {k} /\ k \in InFlightJobs'
    BY <2>2, <2>3, <2>4, <2>a DEF InFlightJobs
  <2>6. pc'[v] \in Processing
    BY <2>2 DEF Processing
  <2> QED BY <2>2, <2>5, <2>6, OwnerAtWork
<1>8. CASE Preflight(v)
  <2>1. /\ pc[v] = "claimed" /\ j \in InFlightJobs /\ j \in JobId
        /\ InFlightJobs \subseteq abandoned \cup {j} /\ UNCHANGED <<lock, abandoned>>
    BY <1>1, <1>8, Places DEF Preflight, InFlightJobs, env
  <2>2. {"cancelled", "running"} \subseteq JobStatus /\ "running" \in InFlight /\ "cancelled" \notin InFlight
    BY DEF JobStatus, Active, InFlight, Terminal
  <2>3. CASE SetStatus(j, "cancelled") /\ Leave(v, "idle")
    <3>1. job'[j].st = "cancelled" /\ \A i \in JobId \ {j} : job'[i] = job[i]
      BY <1>0, <2>1, <2>2, <2>3, SetStatusEffect
    <3>2. InFlightJobs' \subseteq abandoned'
      BY <2>1, <2>2, <3>1 DEF InFlightJobs
    <3>3. pc'[v] = "idle"
      BY <1>0, <2>3 DEF Leave, Go, ControlOK
    <3> QED BY <2>1, <3>2, <3>3, OwnerAtRest
  <2>4. CASE SetStatus(j, "running") /\ Go(v, IF job[j].kind = "exec" THEN "begin" ELSE "work") /\ UNCHANGED cur
    <3>1. job'[j].st = "running" /\ \A i \in JobId \ {j} : job'[i] = job[i]
      BY <1>0, <2>1, <2>2, <2>4, SetStatusEffect
    <3>2. InFlightJobs' \subseteq abandoned' \cup {j} /\ j \in InFlightJobs'
      BY <2>1, <2>2, <3>1 DEF InFlightJobs
    <3>3. pc'[v] \in {"begin", "work"} /\ cur'[v] = j
      BY <1>0, <2>4 DEF Go, ControlOK
    <3>4. pc'[v] \in Processing
      BY <3>3 DEF Processing, Handler
    <3> QED BY <2>1, <3>2, <3>3, <3>4, OwnerAtWork
  <2> QED BY <1>8, <2>1, <2>3, <2>4
          DEF Preflight, InFlightJobs, InFlight, Present, Terminal
<1>9. CASE Finish(v) \/ Failing(v)
  <2>1. /\ j \in InFlightJobs /\ j \in JobId /\ InFlightJobs \subseteq abandoned \cup {j}
        /\ UNCHANGED <<lock, abandoned>> /\ pc'[v] \in {"idle", "acquire"}
    BY <1>0, <1>1, <1>9, Places DEF Finish, Failing, InFlightJobs, Leave, Go, ControlOK, env
  <2>2. PICK s \in Terminal : SetStatus(j, s)
    <3>1. job[j].st \in {"running", "cancel_requested"}
      BY <2>1 DEF InFlightJobs, InFlight
    <3>2. CASE Finish(v)
      BY <3>1, <3>2 DEF Finish, InFlight, Terminal
    <3>3. CASE Failing(v)
      BY <3>1, <3>3 DEF Failing, Present, Terminal
    <3> QED BY <1>9, <3>2, <3>3
  <2>3. s \in JobStatus /\ s \notin InFlight
    BY DEF JobStatus, Terminal, InFlight
  <2>4. job'[j].st = s /\ \A i \in JobId \ {j} : job'[i] = job[i]
    BY <1>0, <2>1, <2>2, <2>3, SetStatusEffect
  <2>5. InFlightJobs' \subseteq abandoned'
    BY <2>1, <2>3, <2>4 DEF InFlightJobs
  <2> QED BY <2>1, <2>5, OwnerAtRest
<1>10. CASE \/ Begin(v) \/ Ready(v) \/ Boundary(v) \/ LastCheckpoint(v) \/ WorkPoll(v) \/ WorkDone(v)
  <2>1. PICK saves \in BOOLEAN,
             next \in {"begin", "reconcile", "ready", "fresh", "abort",
                      "next", "intent", "item", "post", "last", "work", "finish"} :
          /\ Checkpoint(v, saves, next) /\ pc[v] \in Processing
          /\ next \in Handler \ {"work"} => pid[v] \in Plan
    BY <1>0, <1>10, Places DEF ControlOK, Begin, Ready, Boundary, LastCheckpoint, WorkPoll, WorkDone,
                        Handler, Processing
  <2>2. UNCHANGED <<lock, cur, abandoned>>
    BY <2>1 DEF Checkpoint, env
  <2>3. /\ \A k \in JobId \ {j} : job'[k] = job[k]
        /\ j \in JobId
        /\ pc'[v] \in {"failing", next} => job'[j].st = job[j].st
        /\ pc'[v] = "cancelling" => job'[j].st = "cancelled"
        /\ pc'[v] = "pausing" => job'[j].st = "paused"
        /\ pc'[v] \in {"failing", "cancelling", "pausing", next}
    BY <1>0, <2>1, CheckpointEffect
  <2>4. CASE pc'[v] \in {"failing", next}
    <3>1. InFlightJobs' = InFlightJobs
      BY <2>3, <2>4 DEF InFlightJobs
    <3>2. pc'[v] \in Processing
      BY <2>1, <2>4 DEF Processing, Handler
    <3>3. j \in InFlightJobs' /\ InFlightJobs' \subseteq abandoned' \cup {j} /\ cur'[v] = j
      BY <1>1, <2>1, <2>2, <3>1
    <3> QED BY <2>2, <2>3, <3>2, <3>3, OwnerAtWork
  <2>5. CASE pc'[v] \in {"cancelling", "pausing"}
    <3>1. job'[j].st \in {"cancelled", "paused"}
      BY <2>3, <2>5
    <3>2. InFlightJobs' \subseteq abandoned'
      BY <1>1, <2>1, <2>2, <2>3, <3>1 DEF InFlightJobs, InFlight
    <3> QED BY <2>2, <2>5, <3>2, OwnerAtRest
  <2> QED BY <2>3, <2>4, <2>5
<1>11. CASE \/ Reconcile(v) \/ Fresh(v) \/ ItemStale(v) \/ Intent(v) \/ ItemResult(v)
            \/ NoItemLeft(v) \/ PostLoop(v) \/ Raise(v) \/ LateFence(v)
  <2>1. /\ pc[v] \in Processing /\ pc'[v] \in Processing /\ cur'[v] = cur[v]
        /\ lock'.owner = v /\ UNCHANGED <<job, abandoned>>
    BY <1>0, <1>11 DEF Reconcile, Fresh, ItemStale, Intent, ItemResult, NoItemLeft, PostLoop, Raise,
                LateFence, Go, ControlOK, LockOK, Processing, Handler, db, env, local
  <2> QED BY <1>0, <2>1, OwnerQuietStep
<1>12. CASE Cancelling(v) \/ Pausing(v)
  <2>1. pc'[v] = "idle" /\ UNCHANGED <<lock, job, abandoned>> /\ InFlightJobs \subseteq abandoned
    BY <1>0, <1>12 DEF Cancelling, Pausing, SyncAfterUnwinding, Leave, Go, ControlOK, Ownership, Settled, env
  <2> QED BY <1>0, <2>1, OwnerQuietStep
<1>13. CASE SwallowedError(v)
  <2>1. /\ pc[v] \in Unwinding /\ pc'[v] = "idle" /\ UNCHANGED <<lock, job>>
        /\ InFlightJobs \subseteq abandoned \cup {j}
        /\ IF lock.live THEN abandoned' = abandoned \cup ({j} \cap InFlightJobs) ELSE abandoned' = abandoned
    BY <1>0, <1>1, <1>13, Places DEF SwallowedError, Leave, Go, ControlOK, Ownership, Settled, Holds, db
  <2>2. InFlightJobs' = InFlightJobs
    BY <2>1 DEF InFlightJobs
  <2>3. CASE lock.live
    <3>1. InFlightJobs' \subseteq abandoned'
      BY <2>1, <2>2, <2>3
    <3> QED BY <2>1, <3>1, OwnerAtRest
  <2>4. CASE ~lock.live
    BY <1>0, <2>1, <2>4, OwnerQuietStep
  <2> QED BY <2>3, <2>4
<1>14. CASE HeartbeatRefused(v) \/ PollEmpty(v)
  <2>1. UNCHANGED <<lock, job, abandoned, pc, cur, todo>>
    BY <1>14 DEF HeartbeatRefused, PollEmpty, vars, db
  <2> QED BY <1>0, <2>1, OwnerQuietStep
<1> QED
  BY <1>2, <1>3, <1>4, <1>5, <1>6, <1>7, <1>8, <1>9, <1>10, <1>11, <1>12, <1>13, <1>14
  DEF Progress, Mishap

(* A new owner starts by listing what is in flight, and nothing else.      *)
LEMMA NewOwnerStep ==
    ASSUME Ownership, NEW v \in Worker, Acquire(v)
    PROVE  HandlerJobInFlight' /\ Settled' /\ SingleFlight'
<1>1. lock'.owner = v /\ pc'[v] = "list" /\ UNCHANGED <<job, abandoned>>
  BY DEF Acquire, Go, Ownership, TypeOK, ControlOK, db, env
<1> QED BY <1>1 DEF Ownership, HandlerJobInFlight, Settled, SingleFlight, InFlightJobs, Processing, Handler

(* What the users ask for, and an expiry, move no job into or out of flight. *)
LEMMA OutsideStep ==
    ASSUME Ownership, Request \/ Lapse \/ UNCHANGED vars
    PROVE  HandlerJobInFlight' /\ Settled' /\ SingleFlight'
<1>1. \A k \in JobId : job'[k].st \in InFlight <=> job[k].st \in InFlight
  BY RequestFlight DEF Ownership, Lapse, vars, db
<1>2. InFlightJobs' = InFlightJobs
  BY <1>1 DEF InFlightJobs
<1>3. UNCHANGED <<pc, cur, todo, abandoned>> /\ lock'.owner = lock.owner /\ (lock'.live => lock.live)
  <2>1. CASE Request
    BY <2>1 DEF Request, TaskRequest, EnqueuePlan, StartScan, Pause, Resume, Cancel, Retry, Delete, ClearHistory,
                quiet, local, env
  <2>2. CASE Lapse \/ UNCHANGED vars
    BY <2>2 DEF Lapse, Ownership, TypeOK, LockOK, vars, local
  <2> QED BY <2>1, <2>2
<1>4. \A w \in Worker : pc[w] \in Processing => cur[w] \in JobId
  BY DEF Ownership, TypeOK, ControlOK
<1> QED BY <1>1, <1>2, <1>3, <1>4 DEF Ownership, HandlerJobInFlight, Settled, SingleFlight

(* Ownership is inductive.                                                *)
LEMMA NextOwnership == Ownership /\ [Next]_vars => Ownership'
<1> SUFFICES ASSUME Ownership, [Next]_vars PROVE Ownership'
  OBVIOUS
<1>1. TypeOK'
  BY NextTypeOK DEF Ownership
<1>2. ASSUME NEW v \in Worker, Progress(v) \/ Mishap(v)
      PROVE  HandlerJobInFlight' /\ Settled' /\ SingleFlight'
  BY <1>2, OthersStep, OwnerStep, NewOwnerStep
<1>3. HandlerJobInFlight' /\ Settled' /\ SingleFlight'
  BY <1>2, OutsideStep DEF Next
<1> QED BY <1>1, <1>3 DEF Ownership

(* Ownership holds in every reachable state.                              *)
LEMMA OwnershipHolds == Spec => []Ownership
BY InitOwnership, NextOwnership, PTL DEF Spec

(* The job that the owner on record processes is in flight: no request and *)
(* no other worker's recovery takes it away, even after the lease lapsed.  *)
THEOREM HandlerOwnsItsJob == Spec => []HandlerJobInFlight
<1>1. Ownership => HandlerJobInFlight
  BY DEF Ownership
<1> QED BY <1>1, OwnershipHolds, PTL

(* Never two jobs in flight, those apart whose clean-up raised.            *)
THEOREM OneJobInFlight == Spec => []SingleFlight
<1>1. Ownership => SingleFlight
  BY DEF Ownership
<1> QED BY <1>1, OwnershipHolds, PTL

(* A worker that may claim has settled every job it found interrupted.     *)
THEOREM NothingForgotten == Spec => []NoForgottenJob
<1>1. Ownership => NoForgottenJob
  BY DEF Ownership, Settled, NoForgottenJob, Holds
<1> QED BY <1>1, OwnershipHolds, PTL


-----------------------------------------------------------------------------
(* Intents are settled before new ones are made.                           *)

(* A step of a worker does not move the loop of another one, nor the plan  *)
(* it is executing.                                                        *)
LEMMA LoopFrame ==
    ASSUME TypeOK, NEW v \in Worker, Progress(v) \/ Mishap(v)
    PROVE  \A w \in Worker \ {v} : pid'[w] = pid[w] /\ at'[w] = at[w]
<1> USE DEF TypeOK, ControlOK, LoopOK, Go, Leave
<1>1. CASE \/ Start(v) \/ Acquire(v) \/ NoticeLeaseLost(v) \/ LeaseLost(v) \/ RecoveryLeaseLost(v)
           \/ ListInterrupted(v) \/ RecoverJob(v) \/ ListOrphans(v) \/ RepairPlan(v) \/ RecoveryDone(v)
  BY <1>1 DEF Start, Acquire, NoticeLeaseLost, LeaseLost, RecoveryLeaseLost, ListInterrupted,
              RecoverJob, ListOrphans, RepairPlan, RecoveryDone
<1>2. CASE \/ Claim(v) \/ Preflight(v) \/ Finish(v) \/ Failing(v) \/ Cancelling(v) \/ Pausing(v)
  BY <1>2 DEF Claim, Preflight, Finish, Failing, Cancelling, Pausing, SyncAfterUnwinding
<1>3. CASE \/ WorkDone(v) \/ WorkPoll(v) \/ Begin(v) \/ Ready(v) \/ Boundary(v) \/ LastCheckpoint(v)
  BY <1>3 DEF WorkDone, WorkPoll, Begin, Ready, Boundary, LastCheckpoint, Checkpoint
<1>4. CASE \/ Reconcile(v) \/ Fresh(v) \/ ItemStale(v) \/ Intent(v) \/ ItemResult(v)
           \/ NoItemLeft(v) \/ PostLoop(v)
  BY <1>4 DEF Reconcile, Fresh, ItemStale, Intent, ItemResult, NoItemLeft, PostLoop
<1>5. CASE Mishap(v) /\ ~WorkPoll(v)
  BY <1>5 DEF Mishap, LateFence, HeartbeatRefused, Crash, Raise, SwallowedError, PollEmpty, local, vars
<1> QED BY <1>1, <1>2, <1>3, <1>4, <1>5 DEF Progress, Mishap

(* The items of a plan whose mutation is under way or of unknown outcome.  *)
Open(p) == {i \in Item : item[p][i] = "executing"}

(* The places of a handler past reconciliation and outside a mutation.     *)
Between == {"ready", "fresh", "next", "intent", "abort", "post", "last"}

(* What the place of one worker says of the plan it executes.              *)
Settles(w) == /\ pc[w] \in Between => Open(pid[w]) = {}
              /\ pc[w] = "item" => Open(pid[w]) = {at[w]}

(* NoUnsettledIntent, one worker at a time.                                *)
LEMMA IntentByWorker == NoUnsettledIntent <=> \A w \in Worker : lock.owner = w => Settles(w)
BY DEF NoUnsettledIntent, Settles, Between, Open

(* A step of the owner that begins or ends no mutation.                    *)
LEMMA QuietIntentStep ==
    ASSUME TypeOK, NEW v \in Worker, Settles(v),
           \/ pc'[v] \notin Between \cup {"item"}
           \/ UNCHANGED <<item, pc, pid, at>>
           \/ UNCHANGED <<item, pid>> /\ pc[v] \in Between /\ pc'[v] \in Between
    PROVE  Settles(v)'
BY DEF Settles, Between, Open

(* A step of the owner that leaves its plan without an open item.          *)
LEMMA SettlingStep ==
    ASSUME TypeOK, NEW v \in Worker, UNCHANGED pid, pc'[v] # "item",
           \A i \in Item : item'[pid[v]][i] # "executing"
    PROVE  Settles(v)'
BY DEF Settles, Between, Open

(* A step of the owner keeps what its place says of open items.            *)
LEMMA OwnerSettles ==
    ASSUME TypeOK, NEW v \in Worker, Settles(v), Progress(v) \/ Mishap(v)
    PROVE  Settles(v)'
<1> DEFINE p == pid[v]
<1>0. PlanOK /\ ControlOK /\ LoopOK
  BY DEF TypeOK
<1>1. CASE \/ Start(v) \/ Acquire(v) \/ NoticeLeaseLost(v) \/ LeaseLost(v) \/ RecoveryLeaseLost(v)
           \/ ListInterrupted(v) \/ ListOrphans(v) \/ RecoveryDone(v) \/ Claim(v) \/ Raise(v)
           \/ Crash(v) \/ SwallowedError(v) \/ Finish(v) \/ Failing(v) \/ Cancelling(v) \/ Pausing(v)
  <2>1. pc'[v] \in {"acquire", "list", "idle", "recover", "repair", "claimed", "failing", "dead"}
    BY <1>0, <1>1 DEF Start, Acquire, NoticeLeaseLost, LeaseLost, RecoveryLeaseLost, ListInterrupted,
              ListOrphans, RecoveryDone, Claim, Raise, Crash, SwallowedError, Finish, Failing,
              Cancelling, Pausing, SyncAfterUnwinding, Go, Leave, ControlOK
  <2> QED BY <2>1, QuietIntentStep DEF Between
<1>2. CASE RecoverJob(v) \/ RepairPlan(v) \/ LateFence(v) \/ HeartbeatRefused(v) \/ PollEmpty(v)
  BY <1>2, QuietIntentStep DEF RecoverJob, RepairPlan, LateFence, HeartbeatRefused, PollEmpty, local, db, vars
<1>3. CASE Preflight(v)
  <2>1. pc'[v] \in {"acquire", "idle", "begin", "work"}
    BY <1>0, <1>3 DEF Preflight, Go, Leave, ControlOK
  <2> QED BY <2>1, QuietIntentStep DEF Between
<1>4. CASE Begin(v) \/ LastCheckpoint(v) \/ WorkPoll(v) \/ WorkDone(v)
  <2>1. pc'[v] \in {"failing", "cancelling", "pausing", "reconcile", "finish", "work"}
    BY <1>0, <1>4 DEF Begin, LastCheckpoint, WorkPoll, WorkDone, Checkpoint, Go, ControlOK
  <2> QED BY <2>1, QuietIntentStep DEF Between
<1>5. CASE Ready(v) \/ Boundary(v)
  <2>1. /\ pc[v] \in {"ready", "next"} /\ UNCHANGED <<item, pid>>
        /\ pc'[v] \in {"failing", "cancelling", "pausing", "fresh", "intent"}
    BY <1>0, <1>5 DEF Ready, Boundary, Checkpoint, Go, ControlOK
  <2> QED BY <2>1, QuietIntentStep DEF Between
<1>6. CASE NoItemLeft(v) \/ PostLoop(v)
  <2>1. /\ pc[v] \in {"next", "post"} /\ UNCHANGED <<item, pid>>
        /\ pc'[v] \in {"post", "last"}
    BY <1>0, <1>6 DEF NoItemLeft, PostLoop, Go, ControlOK, db
  <2> QED BY <2>1, QuietIntentStep DEF Between
<1>7. ASSUME \/ Reconcile(v) \/ Fresh(v) \/ ItemStale(v) \/ Intent(v) \/ ItemResult(v)
      PROVE  p \in Plan /\ UNCHANGED pid
  BY <1>0, <1>7, Places DEF Reconcile, Fresh, ItemStale, Intent, ItemResult, ControlOK
<1>8. CASE Reconcile(v)
  <2>1. PICK out \in [Item -> {"planned", "completed", "failed"}] :
           item' = [item EXCEPT ![p] = [i \in Item |-> IF @[i] = "executing" THEN out[i] ELSE @[i]]]
    BY <1>8 DEF Reconcile
  <2>2. \A i \in Item : item'[p][i] # "executing"
    BY <1>0, <1>7, <1>8, <2>1 DEF PlanOK
  <2>3. pc'[v] = "ready"
    BY <1>0, <1>8 DEF Reconcile, Go, ControlOK
  <2> QED BY <1>7, <1>8, <2>2, <2>3, SettlingStep
<1>9. ASSUME NEW S, Stale(p, S), p \in Plan, NEW i \in Item, item[p][i] # "executing" \/ i \in S
      PROVE  item'[p][i] # "executing"
  BY <1>0, <1>9 DEF Stale, PlanOK
<1>10. CASE Fresh(v)
  <2>1. \A i \in Item : item[p][i] # "executing"
    BY <1>10 DEF Fresh, Settles, Between, Open
  <2>2. pc'[v] \in {"next", "abort"} /\ (UNCHANGED item \/ \E S : Stale(p, S))
    BY <1>0, <1>10 DEF Fresh, Go, ControlOK
  <2>3. \A i \in Item : item'[p][i] # "executing"
    BY <1>7, <1>9, <1>10, <2>1, <2>2
  <2> QED BY <1>7, <1>10, <2>2, <2>3, SettlingStep
<1>11. CASE ItemStale(v)
  <2>1. PICK i \in Item : /\ pc[v] = "next" \/ (pc[v] = "item" /\ i = at[v])
                          /\ Stale(p, {i})
    BY <1>11 DEF ItemStale
  <2>2. \A k \in Item : item[p][k] # "executing" \/ k \in {i}
    BY <2>1 DEF Settles, Between, Open
  <2>3. \A k \in Item : item'[p][k] # "executing"
    BY <1>7, <1>9, <1>11, <2>1, <2>2
  <2>4. pc'[v] = "post"
    BY <1>0, <1>11 DEF ItemStale, Go, ControlOK
  <2> QED BY <1>7, <1>11, <2>3, <2>4, SettlingStep
<1>12. CASE Intent(v)
  <2>1. at[v] \in Item /\ UNCHANGED at /\ \A i \in Item : item[p][i] # "executing"
    BY <1>0, <1>12 DEF Intent, LoopOK, Settles, Between, Open
  <2>2. CASE UNCHANGED item /\ Go(v, "next")
    BY <1>0, <1>7, <1>12, <2>1, <2>2, SettlingStep DEF Go, ControlOK
  <2>3. CASE SetItem(p, at[v], "executing") /\ Go(v, "item")
    <3>1. \A i \in Item : item'[p][i] = "executing" <=> i = at[v]
      BY <1>0, <1>7, <1>12, <2>1, <2>3 DEF SetItem, PlanOK
    <3>2. pc'[v] = "item"
      BY <1>0, <2>3 DEF Go, ControlOK
    <3> QED BY <1>7, <1>12, <2>1, <3>1, <3>2 DEF Settles, Between, Open
  <2>4. ASSUME NEW s \in {"failed", "skipped"}, SetItem(p, at[v], s), Go(v, "next") PROVE Settles(v)'
    <3>1. \A i \in Item : item'[p][i] # "executing"
      BY <1>0, <1>7, <1>12, <2>1, <2>4 DEF SetItem, PlanOK
    <3> QED BY <1>0, <1>7, <1>12, <2>4, <3>1, SettlingStep DEF Go, ControlOK
  <2> QED BY <1>12, <2>2, <2>3, <2>4 DEF Intent
<1>13. CASE ItemResult(v)
  <2>1. at[v] \in Item /\ \A i \in Item : item[p][i] = "executing" => i = at[v]
    BY <1>0, <1>13 DEF ItemResult, LoopOK, Settles, Open
  <2>2. pc'[v] \in {"next", "post"}
    BY <1>0, <1>13 DEF ItemResult, Go, ControlOK
  <2>3. \/ \E s \in Outcome : SetItem(p, at[v], s)
        \/ \E s, t \in Outcome : SetPair(p, at[v], s, t)
    BY <1>13 DEF ItemResult, Outcome
  <2>4. \A i \in Item : item'[p][i] # "executing"
    <3>1. ASSUME NEW s \in Outcome, SetItem(p, at[v], s) PROVE \A i \in Item : item'[p][i] # "executing"
      BY <1>0, <1>7, <1>13, <2>1, <3>1 DEF SetItem, PlanOK, Outcome
    <3>2. ASSUME NEW s \in Outcome, NEW t \in Outcome, SetPair(p, at[v], s, t)
          PROVE  \A i \in Item : item'[p][i] # "executing"
      BY <1>0, <1>7, <1>13, <2>1, <3>2 DEF SetPair, PlanOK, Outcome
    <3> QED BY <2>3, <3>1, <3>2
  <2> QED BY <1>7, <1>13, <2>2, <2>4, SettlingStep
<1> QED
  BY <1>1, <1>2, <1>3, <1>4, <1>5, <1>6, <1>8, <1>10, <1>11, <1>12, <1>13 DEF Progress, Mishap

(* NoUnsettledIntent is inductive, given the types.                        *)
LEMMA NextIntent == TypeOK /\ NoUnsettledIntent /\ [Next]_vars => NoUnsettledIntent'
<1> SUFFICES ASSUME TypeOK, NoUnsettledIntent, [Next]_vars
             PROVE  \A w \in Worker : lock'.owner = w => Settles(w)'
  BY DEF NoUnsettledIntent, Settles, Between, Open
<1>0. \A w \in Worker : lock.owner = w => Settles(w)
  BY IntentByWorker
<1>1. CASE Request \/ Lapse \/ UNCHANGED vars
  <2>1. UNCHANGED <<item, pc, pid, at>> /\ lock'.owner = lock.owner
    BY <1>1 DEF Request, TaskRequest, EnqueuePlan, StartScan, Pause, Resume, Cancel, Retry, Delete,
                ClearHistory, quiet, local, Lapse, db, vars, TypeOK, LockOK
  <2> QED BY <1>0, <2>1, QuietIntentStep
<1>2. ASSUME NEW v \in Worker, Progress(v) \/ Mishap(v), NEW w \in Worker, lock'.owner = w
      PROVE  Settles(w)'
  <2>1. CASE Acquire(v)
    <3>1. w = v /\ pc'[v] = "list"
      BY <1>2, <2>1 DEF Acquire, Go, TypeOK, ControlOK
    <3> QED BY <3>1 DEF Settles, Between
  <2>2. CASE ~Acquire(v)
    <3>1. lock.owner = w
      BY <1>2, <2>2, OwnerChange DEF LateFence, TypeOK, LockOK
    <3>2. CASE v = w
      BY <1>0, <1>2, <3>1, <3>2, OwnerSettles
    <3>3. CASE v # w
      <4>1. UNCHANGED item /\ pc'[w] = pc[w] /\ pid'[w] = pid[w] /\ at'[w] = at[w]
        BY <1>2, <3>1, <3>3, FencedStep, Frame, LoopFrame DEF Holds
      <4> QED BY <1>0, <3>1, <4>1 DEF Settles, Open
    <3> QED BY <3>2, <3>3
  <2> QED BY <2>1, <2>2
<1> QED BY <1>1, <1>2 DEF Next

(* No new item is begun while the outcome of an earlier intent is unknown, *)
(* whoever wrote that intent and however the lease changed hands since.    *)
THEOREM IntentsAreSettled == Spec => []NoUnsettledIntent
<1>1. Init => NoUnsettledIntent
  BY DEF Init, QueueInit, NoUnsettledIntent
<1> QED BY <1>1, NextIntent, TypeCorrect, PTL DEF Spec

-----------------------------------------------------------------------------
(* Success is reported only for work that was done.                        *)

(* Every item of the plan is completed.                                    *)
AllDone(p) == \A i \in Item : item[p][i] = "completed"

(* A plan is synced to "completed" only when all its items are, or when it *)
(* had been completed before.                                              *)
LEMMA SyncedCompleted ==
    ASSUME NEW p \in Plan, NEW t \in Terminal \cup {"running", "paused"},
           SyncedStatus(p, t) = "completed"
    PROVE  AllDone(p) \/ (t = "paused" /\ plan[p] = "completed")
<1> DEFINE states == {item[p][i] : i \in Item}
<1>1. CASE t \in Terminal
  <2>1. CASE states = {"completed"}
    BY <2>1 DEF AllDone
  <2>2. CASE states # {"completed"} /\ states \cap {"completed", "failed"} # {}
    BY <1>1, <2>2 DEF SyncedStatus, Terminal
  <2>3. CASE states # {"completed"} /\ states \cap {"completed", "failed"} = {}
    BY <1>1, <2>3 DEF SyncedStatus, Terminal
  <2> QED BY <2>1, <2>2, <2>3
<1>2. CASE t \in {"running", "paused"}
  BY <1>2 DEF SyncedStatus, Terminal
<1> QED BY <1>1, <1>2

(* The plan a job syncs is not called completed without its items.         *)
LEMMA SyncPlanHonest ==
    ASSUME PlanOK, NEW j \in JobId, NEW t \in Terminal \cup {"running", "paused"}, SyncPlan(j, t)
    PROVE  \A p \in Plan : plan'[p] = "completed" => plan[p] = "completed" \/ AllDone(p)
<1> TAKE p \in Plan
<1>1. CASE plan'[p] = plan[p]
  BY <1>1
<1>2. CASE plan'[p] = SyncedStatus(p, t)
  BY <1>2, SyncedCompleted
<1> QED BY <1>1, <1>2 DEF SyncPlan, PlanOK

(* A step that undoes no finished plan and calls nothing completed without *)
(* reason keeps NoFalseSuccess.                                            *)
LEMMA HonestStep ==
    ASSUME NoFalseSuccess,
           \A p \in Plan : AllDone(p) => AllDone(p)',
           \A p \in Plan : plan'[p] = "completed" => plan[p] = "completed" \/ AllDone(p),
           \A j \in JobId : job'[j].st = "completed" /\ job'[j].kind = "exec" /\ job'[j].plan \in Plan
               => \/ AllDone(job'[j].plan)
                  \/ job[j].st = "completed" /\ job[j].kind = "exec" /\ job[j].plan = job'[j].plan
    PROVE  NoFalseSuccess'
<1> SUFFICES ASSUME NEW p \in Plan,
                    (plan[p] = "completed" \/ \E j \in TerminalExec(p) : job[j].st = "completed")'
             PROVE  AllDone(p)
  BY DEF NoFalseSuccess, AllDone
<1>1. plan[p] = "completed" => AllDone(p)
  BY DEF NoFalseSuccess, AllDone
<1>2. ASSUME NEW j \in JobId, job[j].st = "completed", job[j].kind = "exec", job[j].plan = p
      PROVE  AllDone(p)
  BY <1>2 DEF NoFalseSuccess, AllDone, TerminalExec, Terminal
<1>3. CASE plan'[p] = "completed"
  BY <1>1, <1>3
<1>4. ASSUME NEW j \in TerminalExec(p)', job'[j].st = "completed" PROVE AllDone(p)
  <2>1. j \in JobId /\ job'[j].kind = "exec" /\ job'[j].plan = p
    BY <1>4 DEF TerminalExec
  <2> QED BY <1>2, <1>4, <2>1
<1> QED BY <1>3, <1>4

(* The items of a finished plan stay as they are: a handler rewrites only  *)
(* the item it opened and those that are not done.                         *)
LEMMA DoneStaysDone ==
    ASSUME TypeOK, NoUnsettledIntent, NEW v \in Worker, Progress(v) \/ Mishap(v), NEW p \in Plan, AllDone(p)
    PROVE  AllDone(p)'
<1>0. PlanOK /\ ControlOK /\ LoopOK
  BY DEF TypeOK
<1>1. CASE UNCHANGED item
  BY <1>1 DEF AllDone
<1>2. CASE item # item'
  <2>0. lock.owner = v /\ Settles(v)
    BY <1>2, FencedStep, IntentByWorker DEF Holds
  <2>1. Reconcile(v) \/ Fresh(v) \/ ItemStale(v) \/ Intent(v) \/ ItemResult(v)
    BY <1>2 DEF Progress, Mishap, Start, Acquire, NoticeLeaseLost, LeaseLost, RecoveryLeaseLost,
              ListInterrupted, RecoverJob, ListOrphans, RepairPlan, RecoveryDone, Claim, Preflight,
              Finish, Failing, Cancelling, Pausing, SyncAfterUnwinding, WorkDone, WorkPoll, Begin,
              Ready, Boundary, LastCheckpoint, Checkpoint, NoItemLeft, PostLoop, LateFence,
              HeartbeatRefused, Crash, Raise, SwallowedError, PollEmpty, db, vars
  <2>2. pid[v] \in Plan
    BY <1>0, <2>1, Places DEF Reconcile, Fresh, ItemStale, Intent, ItemResult, ControlOK
  <2>3. CASE pid[v] # p
    BY <1>0, <2>1, <2>2, <2>3
       DEF Reconcile, Fresh, ItemStale, Intent, ItemResult, Stale, SetItem, SetPair, PlanOK, AllDone
  <2>4. CASE pid[v] = p
    <3>1. Pending(p) = {} /\ Open(p) = {}
      BY DEF AllDone, Pending, Outcome, Open
    <3>2. pc[v] # "item"
      BY <1>0, <2>0, <2>4, <3>1 DEF Settles, LoopOK
    <3>3. Reconcile(v)
      BY <1>0, <1>2, <2>1, <2>4, <3>1, <3>2
         DEF Fresh, ItemStale, Intent, ItemResult, IsNextItem, LoopOK, AllDone, Outcome
    <3>4. PICK out \in [Item -> {"planned", "completed", "failed"}] :
             item' = [item EXCEPT ![p] = [i \in Item |-> IF @[i] = "executing" THEN out[i] ELSE @[i]]]
      BY <2>4, <3>3 DEF Reconcile
    <3> QED BY <1>0, <3>4 DEF PlanOK, AllDone
  <2> QED BY <2>3, <2>4
<1> QED BY <1>1, <1>2

(* A worker calls no plan completed before its items are.                  *)
LEMMA WorkerPlansHonest ==
    ASSUME TypeOK, NEW v \in Worker, Progress(v) \/ Mishap(v), NEW p \in Plan, plan'[p] = "completed"
    PROVE  plan[p] = "completed" \/ AllDone(p)
<1>0. PlanOK /\ ControlOK /\ LocalOK
  BY DEF TypeOK
<1>1. CASE UNCHANGED plan
  BY <1>1
<1>2. CASE RecoverJob(v)
  <2>1. PICK j \in JobId : UNCHANGED plan \/ \E t \in Terminal : SyncPlan(j, t)
    BY <1>0, <1>2 DEF RecoverJob, LocalOK, Terminal
  <2> QED BY <1>0, <2>1, SyncPlanHonest
<1>3. CASE RepairPlan(v)
  <2>1. UNCHANGED plan \/ \E j \in JobId : job[j].st \in Terminal /\ SyncPlan(j, job[j].st)
    BY <1>3 DEF RepairPlan, TerminalExec
  <2> QED BY <1>0, <2>1, SyncPlanHonest
<1>4. CASE Preflight(v) \/ Finish(v) \/ Failing(v) \/ Cancelling(v) \/ Pausing(v)
  <2>1. cur[v] \in JobId
    BY <1>0, <1>4, Places DEF Preflight, Finish, Failing, Cancelling, Pausing, ControlOK
  <2>2. UNCHANGED plan \/ \E t \in Terminal \cup {"running", "paused"} : SyncPlan(cur[v], t)
    BY <1>4 DEF Preflight, Finish, Failing, Cancelling, Pausing, SyncAfterUnwinding, Terminal
  <2> QED BY <1>0, <2>1, <2>2, SyncPlanHonest
<1>5. CASE PostLoop(v)
  <2>1. pid[v] \in Plan
    BY <1>0, <1>5, Places DEF PostLoop, ControlOK
  <2>2. plan'[p] = plan[p] \/ {item[p][i] : i \in Item} = {"completed"}
    BY <1>0, <1>5, <2>1 DEF PostLoop, PlanOK
  <2> QED BY <2>2 DEF AllDone
<1>6. CASE Reconcile(v) \/ Fresh(v) \/ ItemStale(v)
  <2>1. pid[v] \in Plan
    BY <1>0, <1>6, Places DEF Reconcile, Fresh, ItemStale, ControlOK
  <2>2. plan'[p] = plan[p] \/ plan'[p] \in {"executing", "partial", "stale"}
    BY <1>0, <1>6, <2>1 DEF Reconcile, Fresh, ItemStale, Stale, PlanOK
  <2> QED BY <2>2
<1> QED
  BY <1>1, <1>2, <1>3, <1>4, <1>5, <1>6
  DEF Progress, Mishap, Start, Acquire, NoticeLeaseLost, LeaseLost, RecoveryLeaseLost, ListInterrupted,
      ListOrphans, RecoveryDone, Claim, WorkDone, WorkPoll, Begin, Ready, Boundary, LastCheckpoint,
      Checkpoint, Intent, ItemResult, NoItemLeft, LateFence, HeartbeatRefused, Crash, Raise,
      SwallowedError, PollEmpty, db, vars

(* Nor an execution job.                                                   *)
LEMMA WorkerJobsHonest ==
    ASSUME TypeOK, NEW v \in Worker, Progress(v) \/ Mishap(v), NEW k \in JobId,
           job'[k].st = "completed", job[k].kind = "exec"
    PROVE  job[k].st = "completed" \/ AllDone(job[k].plan)
<1>0. JobOK /\ ControlOK /\ LocalOK /\ {"queued", "running", "cancelled", "failed", "completed"} \subseteq JobStatus
  BY DEF TypeOK, JobStatus, Active, InFlight, Terminal
<1>1. CASE UNCHANGED job
  BY <1>1
<1>2. CASE Finish(v)
  <2> DEFINE j == cur[v]
  <2>1. j \in JobId
    BY <1>0, <1>2, Places DEF Finish, ControlOK
  <2>2. \/ SetStatus(j, "failed") \/ SetStatus(j, "cancelled") \/ UNCHANGED job
        \/ SetStatus(j, "completed") /\ (job[j].kind = "exec" => SyncedStatus(job[j].plan, "completed") = "completed")
    BY <1>2 DEF Finish
  <2>3. CASE k = j /\ SyncedStatus(job[j].plan, "completed") = "completed"
    BY <1>0, <2>1, <2>3, SyncedCompleted DEF JobOK, Terminal
  <2>4. CASE k # j \/ SyncedStatus(job[j].plan, "completed") # "completed"
    BY <1>0, <2>1, <2>2, <2>4, SetStatusEffect
  <2> QED BY <2>3, <2>4
<1>3. CASE Claim(v)
  <2>1. PICK j \in UNION Candidates : SetStatus(j, "running")
    BY <1>3 DEF Claim
  <2>2. j \in JobId
    BY <2>1 DEF Candidates, LowestQueued
  <2> QED BY <1>0, <2>1, <2>2, SetStatusEffect
<1>4. CASE Preflight(v) \/ Failing(v)
  <2>1. cur[v] \in JobId
    BY <1>0, <1>4, Places DEF Preflight, Failing, ControlOK
  <2>2. UNCHANGED job \/ \E s \in {"cancelled", "running", "failed"} : SetStatus(cur[v], s)
    BY <1>4 DEF Preflight, Failing
  <2> QED BY <1>0, <2>1, <2>2, SetStatusEffect
<1>5. CASE RecoverJob(v)
  <2>1. PICK j \in JobId : UNCHANGED job \/ \E s \in {"cancelled", "queued", "failed"} : SetStatus(j, s)
    BY <1>0, <1>5 DEF RecoverJob, LocalOK
  <2> QED BY <1>0, <2>1, SetStatusEffect
<1>6. CASE \/ Begin(v) \/ Ready(v) \/ Boundary(v) \/ LastCheckpoint(v) \/ WorkPoll(v) \/ WorkDone(v)
  <2>1. PICK saves \in BOOLEAN,
             next \in {"begin", "reconcile", "ready", "fresh", "abort",
                      "next", "intent", "item", "post", "last", "work", "finish"} :
          /\ Checkpoint(v, saves, next) /\ pc[v] \in Processing
          /\ next \in Handler \ {"work"} => pid[v] \in Plan
    BY <1>0, <1>6, Places DEF ControlOK, Begin, Ready, Boundary, LastCheckpoint, WorkPoll, WorkDone,
                        Handler, Processing
  <2> QED BY <2>1, CheckpointEffect
<1> QED
  BY <1>1, <1>2, <1>3, <1>4, <1>5, <1>6
  DEF Progress, Mishap, Start, Acquire, NoticeLeaseLost, LeaseLost, RecoveryLeaseLost, ListInterrupted,
      ListOrphans, RepairPlan, RecoveryDone, Cancelling, Pausing, SyncAfterUnwinding, Reconcile, Fresh,
      ItemStale, Intent, ItemResult, NoItemLeft, PostLoop, LateFence, HeartbeatRefused, Crash, Raise,
      SwallowedError, PollEmpty, db, vars

(* No request calls a plan or a job completed, or touches an item.         *)
LEMMA RequestHonest ==
    ASSUME TypeOK, Request \/ Lapse \/ UNCHANGED vars
    PROVE  /\ UNCHANGED item
           /\ \A p \in Plan : plan'[p] = "completed" => plan[p] = "completed" \/ AllDone(p)
           /\ \A k \in JobId : job'[k].st = "completed" => job'[k] = job[k] \/ (/\ job[k].st = "completed"
                 /\ job[k].kind = job'[k].kind /\ job[k].plan = job'[k].plan)
<1>0. JobOK /\ PlanOK /\ {"queued", "cancelled", "cancel_requested", "paused"} \subseteq JobStatus
  BY DEF TypeOK, JobStatus, Active, InFlight, Terminal
<1>1. CASE Lapse \/ UNCHANGED vars
  BY <1>1 DEF Lapse, db, vars
<1>2. UNCHANGED item
  BY <1>1 DEF Request, TaskRequest, EnqueuePlan, StartScan, Pause, Resume, Cancel, Retry, Delete, ClearHistory, quiet
<1>3. ASSUME NEW j \in JobId, Cancel(j)
      PROVE  /\ \A p \in Plan : plan'[p] = "completed" => plan[p] = "completed" \/ AllDone(p)
             /\ \A k \in JobId : job'[k].st = "completed" => job'[k] = job[k]
  <2>1. /\ UNCHANGED plan \/ SyncPlan(j, "cancelled")
        /\ \E s \in {"cancelled", "cancel_requested"} : SetStatus(j, s)
    BY <1>3 DEF Cancel
  <2>2. \A k \in JobId : job'[k].st = "completed" => job'[k] = job[k]
    BY <1>0, <2>1, SetStatusEffect
  <2> QED BY <1>0, <2>1, <2>2, SyncPlanHonest DEF Terminal
<1>4. ASSUME NEW j \in JobId, NEW q \in Kind, NEW p \in Plan \cup {None},
             job' = [job EXCEPT ![j] = NewJob(q, p)]
      PROVE  \A k \in JobId : job'[k].st = "completed" => job'[k] = job[k]
  BY <1>0, <1>4 DEF JobOK, NewJob
<1>5. CASE StartScan \/ \E p \in Plan : EnqueuePlan(p)
  BY <1>2, <1>4, <1>5 DEF StartScan, EnqueuePlan, Kind
<1>6. ASSUME NEW j \in JobId, Retry(j)
      PROVE  UNCHANGED plan /\ \A k \in JobId : job'[k].st = "completed" => job'[k] = job[k]
  <2>1. job[j].kind \in Kind /\ job[j].plan \in Plan \cup {None}
    BY <1>0 DEF JobOK, JobRecord
  <2> QED BY <1>4, <1>6, <2>1 DEF Retry
<1>7. ASSUME NEW j \in JobId, Pause(j) \/ Resume(j)
      PROVE  UNCHANGED plan /\ \A k \in JobId : job'[k].st = "completed" => (/\ job[k].st = "completed"
                 /\ job[k].kind = job'[k].kind /\ job[k].plan = job'[k].plan)
  BY <1>0, <1>7 DEF Pause, Resume, SetStatus, JobOK, JobRecord
<1>8. CASE (\E j \in JobId : Delete(j)) \/ (\E S \in SUBSET Terminal : ClearHistory(S))
  BY <1>0, <1>2, <1>8 DEF Delete, ClearHistory, NoJob, JobOK
<1> QED BY <1>1, <1>2, <1>3, <1>5, <1>6, <1>7, <1>8 DEF Request, TaskRequest

(* NoFalseSuccess is inductive, given that open intents are settled.       *)
LEMMA NextSuccess ==
    TypeOK /\ NoUnsettledIntent /\ NoFalseSuccess /\ [Next]_vars => NoFalseSuccess'
<1> SUFFICES ASSUME TypeOK, NoUnsettledIntent, NoFalseSuccess, [Next]_vars PROVE NoFalseSuccess'
  OBVIOUS
<1>1. CASE Request \/ Lapse \/ UNCHANGED vars
  <2>1. \A p \in Plan : AllDone(p) => AllDone(p)'
    BY <1>1, RequestHonest DEF AllDone
  <2> QED BY <1>1, <2>1, RequestHonest, HonestStep
<1>2. ASSUME NEW v \in Worker, Progress(v) \/ Mishap(v) PROVE NoFalseSuccess'
  <2>1. \A p \in Plan : AllDone(p) => AllDone(p)'
    BY <1>2, DoneStaysDone
  <2>2. \A p \in Plan : plan'[p] = "completed" => plan[p] = "completed" \/ AllDone(p)
    BY <1>2, WorkerPlansHonest
  <2>3. \A k \in JobId : job'[k].kind = job[k].kind /\ job'[k].plan = job[k].plan
    BY <1>2, WorkerJobs
  <2>4. \A k \in JobId : job'[k].st = "completed" /\ job[k].kind = "exec"
                            => job[k].st = "completed" \/ AllDone(job[k].plan)
    BY <1>2, WorkerJobsHonest
  <2> QED BY <2>1, <2>2, <2>3, <2>4, HonestStep
<1> QED BY <1>1, <1>2 DEF Next

(* A plan or an execution job is called completed only when every item of  *)
(* the plan is, through crashes, recoveries, pauses and cancellations.     *)
THEOREM SuccessIsTrue == Spec => []NoFalseSuccess
<1>1. Init => NoFalseSuccess
  BY DEF Init, QueueInit, NoFalseSuccess, TerminalExec, NoJob, Terminal
<1> QED BY <1>1, NextSuccess, TypeCorrect, IntentsAreSettled, PTL DEF Spec

(***************************************************************************)
(* Theorems of PlanLifecycle                                               *)
(***************************************************************************)

-----------------------------------------------------------------------------
(* The queue neither creates nor deletes rows of plans.                    *)

SameRows == \A p \in Plan : /\ plan'[p] = "absent" <=> plan[p] = "absent"
                            /\ \A i \in Item : item'[p][i] = "absent" <=> item[p][i] = "absent"

(* The handler of the lease's owner runs an execution, of its own plan.    *)
HandlerPlan ==
    \A w \in Worker : lock.owner = w /\ pc[w] \in Handler \ {"work"} =>
        job[cur[w]].kind = "exec" /\ job[cur[w]].plan = pid[w]

(* A plan that exists is never synced away.                                *)
LEMMA SyncedStatusExists ==
    ASSUME NEW p \in Plan, plan[p] # "absent", NEW t \in Terminal \cup {"running", "paused"}
    PROVE  SyncedStatus(p, t) # "absent"
<1> DEFINE states == {item[p][i] : i \in Item}
<1>1. CASE t \in Terminal
  <2>1. CASE states = {"completed"}
    BY <1>1, <2>1 DEF SyncedStatus, Terminal
  <2>2. CASE states # {"completed"} /\ states \cap {"completed", "failed"} # {}
    BY <1>1, <2>2 DEF SyncedStatus, Terminal
  <2>3. CASE states \cap {"completed", "failed"} = {}
    BY <1>1, <2>3 DEF SyncedStatus, Terminal
  <2> QED BY <2>1, <2>2, <2>3
<1>2. CASE t \in {"running", "paused"}
  BY <1>2 DEF SyncedStatus, Terminal
<1> QED BY <1>1, <1>2

(* A sync leaves the rows of plans as they are.                            *)
LEMMA SyncPlanRows ==
    ASSUME PlanOK, NEW j, NEW t \in Terminal \cup {"running", "paused"},
           SyncPlan(j, t), UNCHANGED item
    PROVE  SameRows
<1>1. CASE UNCHANGED plan
  BY <1>1 DEF SameRows
<1>2. CASE /\ job[j].plan \in Plan /\ plan[job[j].plan] # "absent"
           /\ plan' = [plan EXCEPT ![job[j].plan] = SyncedStatus(job[j].plan, t)]
  BY <1>2, SyncedStatusExists DEF SameRows, PlanOK
<1> QED BY <1>1, <1>2 DEF SyncPlan

(* The handler of the owner only rewrites rows of a plan that exists.      *)
LEMMA HandlerRows ==
    ASSUME TypeOK, RowsOK, ExecutionHasPlan, NEW w \in Worker,
           \/ Reconcile(w) \/ Fresh(w) \/ ItemStale(w) \/ Intent(w) \/ ItemResult(w) \/ PostLoop(w)
    PROVE  SameRows
<1> DEFINE p == pid[w]
<1>1. p \in Plan /\ PlanOK
  BY DEF TypeOK, Reconcile, Fresh, ItemStale, Intent, ItemResult, PostLoop, ControlOK, Handler
<1>2. plan[p] # "absent" /\ \A i \in Item : item[p][i] # "absent"
  BY <1>1, Places, ZenonT(40) DEF Reconcile, Fresh, ItemStale, Intent, ItemResult, PostLoop, Holds,
                      ExecutionHasPlan, RowsOK, Exists
<1>3. ASSUME NEW S, Stale(p, S) PROVE SameRows
  BY <1>1, <1>2, <1>3 DEF Stale, PlanOK, SameRows
<1>4. ASSUME NEW i \in Item, NEW s, s # "absent", SetItem(p, i, s), UNCHANGED plan PROVE SameRows
  BY <1>1, <1>2, <1>4 DEF SetItem, PlanOK, SameRows
<1>5. ASSUME NEW i \in Item, NEW s \in Outcome, NEW t \in Outcome, SetPair(p, i, s, t), UNCHANGED plan
      PROVE  SameRows
  BY <1>1, <1>2, <1>5 DEF SetPair, PlanOK, SameRows, Outcome
<1>6. CASE Reconcile(w)
  <2>1. PICK out \in [Item -> {"planned", "completed", "failed"}] :
           item' = [item EXCEPT ![p] = [i \in Item |-> IF @[i] = "executing" THEN out[i] ELSE @[i]]]
    BY <1>6 DEF Reconcile
  <2>2. plan' = [plan EXCEPT ![p] = "executing"]
    BY <1>6 DEF Reconcile
  <2>3. \A i \in Item : out[i] # "absent"
    OBVIOUS
  <2> QED BY <1>1, <1>2, <2>1, <2>2, <2>3 DEF PlanOK, SameRows
<1>7. CASE Fresh(w)
  BY <1>3, <1>7 DEF Fresh, SameRows
<1>8. CASE ItemStale(w)
  BY <1>3, <1>8 DEF ItemStale
<1>9. CASE Intent(w)
  <2>1. at[w] \in Item
    BY <1>9 DEF Intent, TypeOK, LoopOK
  <2>2. /\ UNCHANGED plan
        /\ UNCHANGED item \/ \E s \in {"executing", "failed", "skipped"} : SetItem(p, at[w], s)
    BY <1>9 DEF Intent
  <2> QED BY <1>4, <2>1, <2>2 DEF SameRows
<1>10. CASE ItemResult(w)
  <2>1. UNCHANGED plan /\ at[w] \in Item
    BY <1>10 DEF ItemResult, TypeOK, LoopOK
  <2>2. \/ \E s \in Outcome : SetItem(p, at[w], s)
        \/ \E s, t \in Outcome : SetPair(p, at[w], s, t)
    BY <1>10 DEF ItemResult, Outcome
  <2>3. \A s \in Outcome : s # "absent"
    BY DEF Outcome
  <2> QED BY <1>4, <1>5, <2>1, <2>2, <2>3
<1>11. CASE PostLoop(w)
  BY <1>1, <1>2, <1>11 DEF PostLoop, PlanOK, SameRows
<1> QED BY <1>6, <1>7, <1>8, <1>9, <1>10, <1>11

(* No step of the queue creates or deletes a row of a plan.                *)
LEMMA QueueRows ==
    ASSUME TypeOK, RowsOK, ExecutionHasPlan, [Next]_vars
    PROVE  SameRows
<1>0. PlanOK
  BY DEF TypeOK
<1>1. CASE UNCHANGED <<plan, item>>
  BY <1>1 DEF SameRows
<1>2. ASSUME NEW w \in Worker, Progress(w) \/ Mishap(w) PROVE SameRows
  <2>1. CASE RecoverJob(w) \/ RepairPlan(w) \/ Preflight(w) \/ Finish(w) \/ Failing(w) \/ Cancelling(w) \/ Pausing(w)
    <3>1. UNCHANGED item /\ (UNCHANGED plan \/ \E j, t : SyncPlan(j, t) /\ t \in Terminal \cup {"running", "paused"})
      BY <2>1 DEF RecoverJob, RepairPlan, Preflight, Finish, Failing, Cancelling, Pausing,
                  SyncAfterUnwinding, TerminalExec, Terminal
    <3> QED BY <1>0, <1>1, <3>1, SyncPlanRows
  <2>2. CASE \/ Reconcile(w) \/ Fresh(w) \/ ItemStale(w) \/ Intent(w) \/ ItemResult(w) \/ PostLoop(w)
    BY <2>2, HandlerRows
  <2>3. CASE \/ Start(w) \/ Acquire(w) \/ NoticeLeaseLost(w) \/ LeaseLost(w) \/ RecoveryLeaseLost(w)
             \/ ListInterrupted(w) \/ ListOrphans(w) \/ RecoveryDone(w) \/ Claim(w) \/ WorkDone(w)
             \/ Begin(w) \/ Ready(w) \/ Boundary(w) \/ NoItemLeft(w) \/ LastCheckpoint(w)
    BY <1>1, <2>3 DEF Start, Acquire, NoticeLeaseLost, LeaseLost, RecoveryLeaseLost, ListInterrupted,
                      ListOrphans, RecoveryDone, Claim, WorkDone, Begin, Ready, Boundary, NoItemLeft,
                      LastCheckpoint, Checkpoint, db
  <2>4. CASE Mishap(w)
    BY <1>1, <2>4 DEF Mishap, LateFence, HeartbeatRefused, Crash, Raise, SwallowedError, PollEmpty,
                      WorkPoll, Checkpoint, db, vars
  <2> QED BY <1>2, <2>1, <2>2, <2>3, <2>4 DEF Progress
<1>3. CASE Lapse \/ UNCHANGED vars
  BY <1>1, <1>3 DEF Lapse, db, vars
<1>4. CASE Request
  <2>1. UNCHANGED item /\ (UNCHANGED plan \/ \E j \in JobId : SyncPlan(j, "cancelled"))
    BY <1>4 DEF Request, TaskRequest, EnqueuePlan, StartScan, Pause, Resume, Cancel, Retry, Delete,
                ClearHistory, quiet
  <2> QED BY <1>0, <1>1, <2>1, SyncPlanRows DEF Terminal
<1> QED BY <1>2, <1>3, <1>4 DEF Next

-----------------------------------------------------------------------------
(* Executions keep their plan while the queue works.                       *)

(* A job that may still run after a step of the queue has a plan.          *)
LEMMA QueueExecutions ==
    ASSUME TypeOK, ExecutionsHavePlans, SameRows, [Next]_vars
    PROVE  ExecutionsHavePlans'
<1>0. JobOK
  BY DEF TypeOK
<1>1. ASSUME NEW j \in JobId, job'[j].kind = job[j].kind, job'[j].plan = job[j].plan,
             job'[j].kind = "exec", job'[j].st \in Active, job[j].st \in Active
      PROVE  plan'[job'[j].plan] # "absent"
  BY <1>0, <1>1 DEF ExecutionsHavePlans, Exists, SameRows, JobOK
<1>2. ASSUME \A j \in JobId : job'[j].st \in Active =>
                 job'[j].kind = job[j].kind /\ job'[j].plan = job[j].plan /\ job[j].st \in Active
      PROVE  ExecutionsHavePlans'
  BY <1>1, <1>2 DEF ExecutionsHavePlans, Exists
<1>3. ASSUME NEW v \in Worker, Progress(v) \/ Mishap(v) PROVE ExecutionsHavePlans'
  BY <1>2, <1>3, WorkerJobs
<1>4. CASE UNCHANGED job
  BY <1>2, <1>4
<1>5. ASSUME NEW j \in JobId, NEW k \in Kind, NEW p \in Plan \cup {None},
             k = "exec" => p \in Plan /\ plan[p] # "absent",
             job' = [job EXCEPT ![j] = NewJob(k, p)]
      PROVE  ExecutionsHavePlans'
  <2>1. /\ job'[j].kind = k /\ job'[j].plan = p
        /\ \A i \in JobId \ {j} : job'[i] = job[i]
    BY <1>0, <1>5, NewJobEffect, ZenonT(40)
  <2> QED BY <1>0, <1>5, <2>1 DEF ExecutionsHavePlans, Exists, SameRows, JobOK
<1>6. CASE StartScan \/ \E p \in Plan : EnqueuePlan(p)
  BY <1>5, <1>6 DEF StartScan, EnqueuePlan, Kind
<1>7. ASSUME NEW j \in JobId, Retry(j) PROVE ExecutionsHavePlans'
  <2>1. job[j].kind \in Kind /\ job[j].plan \in Plan \cup {None}
    BY <1>0 DEF JobOK, JobRecord
  <2>2. job[j].kind = "exec" => job[j].plan \in Plan /\ plan[job[j].plan] # "absent"
    BY <1>0, <1>7 DEF JobOK, Retry
  <2> QED BY <1>5, <1>7, <2>1, <2>2 DEF Retry
<1>8. ASSUME NEW j \in JobId, Pause(j) \/ Resume(j) \/ Cancel(j) PROVE ExecutionsHavePlans'
  <2>1. \A k \in JobId : /\ job'[k].kind = job[k].kind /\ job'[k].plan = job[k].plan
                         /\ job'[k].st \in Active => job[k].st \in Active
    BY <1>0, <1>8 DEF Pause, Resume, Cancel, SetStatus, JobOK, JobRecord, Active, InFlight
  <2> QED BY <1>2, <2>1
<1>9. CASE (\E j \in JobId : Delete(j)) \/ (\E S \in SUBSET Terminal : ClearHistory(S))
  BY <1>0, <1>2, <1>9 DEF Delete, ClearHistory, NoJob, JobOK, Active, InFlight
<1> QED BY <1>3, <1>4, <1>6, <1>7, <1>8, <1>9 DEF Next, Request, TaskRequest, Lapse, db, vars

(* A worker enters the handler by its preflight only, and keeps its job    *)
(* and its plan as long as it is there.                                    *)
LEMMA HandlerEntry ==
    ASSUME TypeOK, NEW v \in Worker, Progress(v) \/ Mishap(v)
    PROVE  /\ \A w \in Worker \ {v} : pid'[w] = pid[w]
           /\ \/ Preflight(v)
              \/ pc'[v] \notin Handler \ {"work"}
              \/ UNCHANGED <<cur, pid>> /\ pc[v] \in Handler \ {"work"}
<1> USE Places DEF TypeOK, ControlOK, Go, Leave
<1>1. CASE \/ Start(v) \/ Acquire(v) \/ NoticeLeaseLost(v) \/ RecoveryLeaseLost(v)
           \/ ListInterrupted(v) \/ ListOrphans(v) \/ RecoveryDone(v) \/ Claim(v) \/ Raise(v)
  <2>1. UNCHANGED pid /\ \E l \in {"acquire", "list", "idle", "recover", "repair", "claimed", "failing"} : Go(v, l)
    BY <1>1 DEF Start, Acquire, NoticeLeaseLost, RecoveryLeaseLost, ListInterrupted, ListOrphans,
                RecoveryDone, Claim, Raise
  <2> QED BY <2>1 DEF Handler
<1>2. CASE LeaseLost(v) \/ Crash(v) \/ SwallowedError(v) \/ Finish(v) \/ Failing(v) \/ Cancelling(v) \/ Pausing(v)
  <2>1. \E l \in {"acquire", "dead", "idle"} : Leave(v, l)
    BY <1>2 DEF LeaseLost, Crash, SwallowedError, Finish, Failing, Cancelling, Pausing, SyncAfterUnwinding
  <2> QED BY <2>1 DEF Handler
<1>3. CASE Preflight(v)
  BY <1>3 DEF Preflight
<1>4. CASE RecoverJob(v) \/ RepairPlan(v) \/ LateFence(v) \/ HeartbeatRefused(v) \/ PollEmpty(v)
  BY <1>4 DEF RecoverJob, RepairPlan, LateFence, HeartbeatRefused, PollEmpty, local, vars
<1>5. CASE \/ Begin(v) \/ Ready(v) \/ Boundary(v) \/ LastCheckpoint(v) \/ Reconcile(v) \/ Fresh(v)
           \/ ItemStale(v) \/ Intent(v) \/ ItemResult(v) \/ NoItemLeft(v) \/ PostLoop(v)
  BY <1>5 DEF Begin, Ready, Boundary, LastCheckpoint, Checkpoint, Reconcile, Fresh, ItemStale, Intent,
              ItemResult, NoItemLeft, PostLoop
<1>6. CASE WorkPoll(v) \/ WorkDone(v)
  <2>1. UNCHANGED pid /\ \E l \in {"failing", "cancelling", "pausing", "work", "finish"} : Go(v, l)
    BY <1>6 DEF WorkPoll, WorkDone, Checkpoint
  <2> QED BY <2>1 DEF Handler
<1> QED BY <1>1, <1>2, <1>3, <1>4, <1>5, <1>6 DEF Progress, Mishap

(* Requests leave what a job in flight is alone.                           *)
LEMMA RequestKeepsRunning ==
    ASSUME TypeOK, Request, NEW k \in JobId, job[k].st \in InFlight
    PROVE  job'[k].kind = job[k].kind /\ job'[k].plan = job[k].plan
<1>0. JobOK
  BY DEF TypeOK
<1>1. ASSUME NEW j \in JobId, NextId(j), NEW r, job' = [job EXCEPT ![j] = r]
      PROVE  job'[k] = job[k]
  BY <1>0, <1>1, FreshId DEF JobOK, InFlight
<1>2. CASE StartScan \/ (\E p \in Plan : EnqueuePlan(p)) \/ (\E j \in JobId : Retry(j))
  BY <1>1, <1>2 DEF StartScan, EnqueuePlan, Retry
<1>3. CASE \E j \in JobId : Pause(j) \/ Resume(j) \/ Cancel(j)
  BY <1>0, <1>3 DEF Pause, Resume, Cancel, SetStatus, JobOK, JobRecord
<1>4. CASE (\E j \in JobId : Delete(j)) \/ (\E S \in SUBSET Terminal : ClearHistory(S))
  BY <1>0, <1>4 DEF Delete, ClearHistory, JobOK, InFlight, Terminal
<1> QED BY <1>2, <1>3, <1>4 DEF Request, TaskRequest

(* The owner's handler works on the plan of its own job.                   *)
LEMMA NextHandlerPlan ==
    ASSUME Ownership, HandlerPlan, [Next]_vars
    PROVE  HandlerPlan'
<1> USE Places DEF Ownership
<1>1. ASSUME NEW v \in Worker, Progress(v) \/ Mishap(v) PROVE HandlerPlan'
  <2> SUFFICES ASSUME NEW w \in Worker, lock'.owner = w, pc'[w] \in Handler \ {"work"}
               PROVE  job'[cur'[w]].kind = "exec" /\ job'[cur'[w]].plan = pid'[w]
    BY DEF HandlerPlan
  <2>1. CASE Preflight(v) /\ w = v
    <3>1. cur[v] \in JobId /\ JobOK
      BY <2>1 DEF Preflight, TypeOK, ControlOK
    <3>2. /\ job[cur[v]].kind = "exec" /\ pid' = [pid EXCEPT ![v] = job[cur[v]].plan] /\ UNCHANGED cur
      BY <2>1 DEF Preflight, Leave, Go, TypeOK, ControlOK, Handler
    <3>3. job'[cur[v]].kind = job[cur[v]].kind /\ job'[cur[v]].plan = job[cur[v]].plan
      BY <1>1, <3>1, WorkerJobs
    <3> QED BY <2>1, <3>2, <3>3 DEF TypeOK, ControlOK
  <2>2. CASE ~(Preflight(v) /\ w = v)
    <3>1. pc[w] \in Handler \ {"work"} /\ cur'[w] = cur[w] /\ pid'[w] = pid[w]
      BY <1>1, <2>2, HandlerEntry, Frame
    <3>2. lock.owner = w
      <4>1. pc'[w] # "list"
        BY DEF Handler
      <4>2. CASE Acquire(v)
        BY <4>1, <4>2 DEF Acquire, Go, TypeOK, ControlOK
      <4>3. CASE LateFence(v)
        BY <4>3 DEF LateFence, TypeOK, LockOK
      <4> QED BY <1>1, <4>2, <4>3, OwnerChange
    <3>3. cur[w] \in JobId
      BY <3>1 DEF TypeOK, ControlOK
    <3> QED BY <1>1, <3>1, <3>2, <3>3, WorkerJobs DEF HandlerPlan
  <2> QED BY <2>1, <2>2
<1>2. CASE Lapse \/ UNCHANGED vars
  BY <1>2 DEF Lapse, HandlerPlan, vars, db, local, TypeOK, LockOK
<1>3. CASE Request
  <2>1. UNCHANGED <<lock, pc, cur, pid>>
    BY <1>3 DEF Request, TaskRequest, EnqueuePlan, StartScan, Pause, Resume, Cancel, Retry, Delete,
                ClearHistory, quiet, local
  <2>2. ASSUME NEW w \in Worker, lock.owner = w, pc[w] \in Handler \ {"work"}
        PROVE  cur[w] \in JobId /\ job[cur[w]].st \in InFlight
    BY <2>2 DEF HandlerJobInFlight, TypeOK, ControlOK
  <2> QED BY <1>3, <2>1, <2>2, RequestKeepsRunning DEF HandlerPlan
<1> QED BY <1>1, <1>2, <1>3 DEF Next

-----------------------------------------------------------------------------
(* The requests on plans.                                                  *)

(* Such a step leaves the queue's own tables, and the lease, alone.        *)
Outside == UNCHANGED <<lock, job, local, env>>

(* A request that is answered, or has read, leaves every row alone.        *)
LEMMA ReadingSteps ==
    ASSUME PlanTypeOK, ExecutionsHavePlans, NEW c \in Client,
           \/ CallFails(c)
           \/ \E p \in Plan : FreezeStart(c, p) \/ ValidateStart(c, p) \/ EnqueueStart(c, p) \/ DeleteStart(c, p)
    PROVE  /\ Outside /\ PlanOK' /\ RowsOK' /\ CallOK' /\ ApiOK'
           /\ ExecutionsHavePlans'
<1>1. UNCHANGED <<vars, births, recovered>>
  BY DEF CallFails, FreezeStart, ValidateStart, EnqueueStart, DeleteStart, reads
<1>2. Idle \in CallRecord /\ Idle.op = "none"
  BY DEF Idle, CallRecord
<1>3. ASSUME NEW r \in CallRecord, r.op # "none" => r.plan \in Plan, call' = [call EXCEPT ![c] = r]
      PROVE  CallOK'
  BY <1>3 DEF PlanTypeOK, CallOK
<1>4. ASSUME CallFails(c) PROVE CallOK'
  BY <1>2, <1>3, <1>4 DEF CallFails, Answer
<1>5. ASSUME NEW p \in Plan, FreezeStart(c, p) \/ ValidateStart(c, p) \/ EnqueueStart(c, p) \/ DeleteStart(c, p)
      PROVE  CallOK'
  <2>1. PICK r \in CallRecord : r.plan = p /\ call' = [call EXCEPT ![c] = r]
    BY <1>5 DEF FreezeStart, ValidateStart, EnqueueStart, DeleteStart, Ask, Idle, CallRecord,
                Completed, ActiveExec
  <2> QED BY <1>3, <2>1
<1>6. CallOK'
  BY <1>4, <1>5
<1>7. UNCHANGED <<lock, job, plan, item>> /\ Outside
  BY <1>1 DEF Outside, vars, local, env
<1>8. PlanOK' /\ RowsOK' /\ ExecutionsHavePlans'
  BY <1>7 DEF PlanTypeOK, TypeOK, PlanOK, RowsOK, Exists, ExecutionsHavePlans
<1>9. ApiOK'
  BY <1>1 DEF PlanTypeOK, ApiOK
<1> QED BY <1>6, <1>7, <1>8, <1>9

(* Answering a request keeps the types of the requests.                    *)
LEMMA AnswerType == ASSUME CallOK, NEW c \in Client, Answer(c) PROVE CallOK'
<1>1. Idle \in CallRecord /\ Idle.op = "none"
  BY DEF Idle, CallRecord
<1> QED BY <1>1 DEF CallOK, Answer

(* Rows appear and disappear together, and no execution loses its plan.    *)
LEMMA SetRowsEffect ==
    ASSUME PlanTypeOK, ExecutionsHavePlans, NEW S \in SUBSET Plan, NEW st \in PlanStatus,
           NEW s \in ItemState, SetRows(S, st, s), st = "absent" <=> s = "absent", UNCHANGED job,
           st = "absent" => \A p \in S : ActiveExec(p) = {}
    PROVE  PlanOK' /\ RowsOK' /\ ExecutionsHavePlans'
<1>1. PlanOK'
  BY DEF PlanTypeOK, TypeOK, PlanOK, SetRows
<1>2. RowsOK'
  BY DEF PlanTypeOK, TypeOK, PlanOK, RowsOK, Exists, SetRows
<1>3. ASSUME NEW j \in JobId, job[j].kind = "exec", job[j].st \in Active
      PROVE  plan'[job[j].plan] # "absent"
  <2>1. job[j].plan \in Plan /\ plan[job[j].plan] # "absent" /\ j \in ActiveExec(job[j].plan)
    BY <1>3 DEF PlanTypeOK, TypeOK, JobOK, ExecutionsHavePlans, Exists, ActiveExec
  <2> QED BY <2>1 DEF SetRows
<1> QED BY <1>1, <1>2, <1>3 DEF ExecutionsHavePlans, Exists

(* The requests that write rows of plans.                                  *)
LEMMA WritingSteps ==
    ASSUME PlanTypeOK, ExecutionsHavePlans,
           \/ \E c \in Client : FreezeCommit(c) \/ ValidateCommit(c) \/ EnqueueStale(c) \/ DeleteCommit(c)
           \/ \E p \in Plan : Create(p)
           \/ \E S \in SUBSET {"completed", "failed"} : ClearPlanHistory(S)
    PROVE  /\ Outside /\ PlanOK' /\ RowsOK' /\ CallOK' /\ ApiOK'
           /\ ExecutionsHavePlans'
<1> USE DEF PlanTypeOK, TypeOK
<1>0. Outside
  BY DEF FreezeCommit, ValidateCommit, EnqueueStale, DeleteCommit, Create, ClearPlanHistory, quietly, Outside
<1>1. ASSUME NEW p \in Plan, NEW st \in PlanStatus \ {"absent"}, NEW f \in [Item -> ItemState],
             plan[p] # "absent", \A i \in Item : f[i] # "absent",
             plan' = [plan EXCEPT ![p] = st], item' = [item EXCEPT ![p] = f]
      PROVE  PlanOK' /\ RowsOK' /\ ExecutionsHavePlans'
  <2>1. PlanOK'
    BY <1>1 DEF PlanOK
  <2>2. RowsOK'
    BY <1>1 DEF PlanOK, RowsOK, Exists
  <2>3. ExecutionsHavePlans'
    BY <1>0, <1>1 DEF PlanOK, ExecutionsHavePlans, Exists, Outside, JobOK
  <2> QED BY <2>1, <2>2, <2>3
<1>2. ASSUME NEW c \in Client, FreezeCommit(c) \/ ValidateCommit(c) \/ EnqueueStale(c) \/ DeleteCommit(c)
      PROVE  /\ PlanOK' /\ RowsOK' /\ CallOK' /\ ApiOK' /\ ExecutionsHavePlans'
  <2> DEFINE p == call[c].plan
  <2>1. CallOK' /\ p \in Plan /\ call[c].todo \subseteq Item
    BY <1>2, AnswerType DEF FreezeCommit, ValidateCommit, EnqueueStale, DeleteCommit, CallOK, CallRecord
  <2>2. ApiOK'
    BY <1>2, <2>1 DEF FreezeCommit, ValidateCommit, EnqueueStale, DeleteCommit, ApiOK, quietly
  <2>3. plan[p] # "absent" => \A i \in Item : item[p][i] # "absent" /\ item[p][i] \in ItemState
    BY <2>1 DEF RowsOK, Exists, PlanOK
  <2>4. CASE FreezeCommit(c)
    <3>1. plan[p] # "absent" /\ plan' = [plan EXCEPT ![p] = "frozen"] /\ UNCHANGED item
      BY <2>4 DEF FreezeCommit
    <3>2. item' = [item EXCEPT ![p] = item[p]]
      BY <3>1, <2>1 DEF PlanOK
    <3>3. item[p] \in [Item -> ItemState] /\ "frozen" \in PlanStatus \ {"absent"}
      BY <2>1 DEF PlanOK, PlanStatus
    <3> QED BY <1>1, <2>1, <2>2, <2>3, <3>1, <3>2, <3>3
  <2>5. CASE ValidateCommit(c)
    <3>1. PICK verdict \in [call[c].todo -> {"validated", "stale", "skipped"}] :
             /\ item' = [item EXCEPT ![p] =
                            [i \in Item |-> IF i \in call[c].todo THEN verdict[i] ELSE @[i]]]
             /\ \E st \in {"stale", "partial", "ready"} : plan' = [plan EXCEPT ![p] = st]
      BY <2>5 DEF ValidateCommit
    <3> DEFINE f == [i \in Item |-> IF i \in call[c].todo THEN verdict[i] ELSE item[p][i]]
    <3>2. plan[p] # "absent" /\ {"stale", "partial", "ready"} \subseteq PlanStatus \ {"absent"}
      BY <2>5 DEF ValidateCommit, Exists, PlanStatus
    <3>3. f \in [Item -> ItemState] /\ \A i \in Item : f[i] # "absent"
      BY <2>3, <3>1, <3>2 DEF ItemState
    <3>4. item' = [item EXCEPT ![p] = f]
      BY <2>1, <3>1 DEF PlanOK
    <3>5. PICK st \in PlanStatus \ {"absent"} : plan' = [plan EXCEPT ![p] = st]
      BY <3>1, <3>2
    <3> HIDE DEF f
    <3> QED BY <1>1, <2>1, <2>2, <3>2, <3>3, <3>4, <3>5
  <2>6. CASE EnqueueStale(c)
    <3>1. CASE UNCHANGED <<plan, item>>
      BY <1>0, <2>1, <2>2, <3>1 DEF PlanOK, RowsOK, Exists, ExecutionsHavePlans, Outside
    <3>2. CASE plan[p] # "absent"
      <4>1. PICK S \in SUBSET call[c].todo :
               /\ plan' = [plan EXCEPT ![p] = "stale"]
               /\ item' = [item EXCEPT ![p] = [i \in Item |-> IF i \in S THEN "stale" ELSE @[i]]]
        BY <2>6, <3>2 DEF EnqueueStale, Exists
      <4> DEFINE f == [i \in Item |-> IF i \in S THEN "stale" ELSE item[p][i]]
      <4>2. f \in [Item -> ItemState] /\ \A i \in Item : f[i] # "absent"
        BY <2>3, <3>2 DEF ItemState
      <4>3. item' = [item EXCEPT ![p] = f] /\ "stale" \in PlanStatus \ {"absent"}
        BY <2>1, <4>1 DEF PlanOK, PlanStatus
      <4> HIDE DEF f
      <4> QED BY <1>1, <2>1, <2>2, <3>2, <4>1, <4>2, <4>3
    <3> QED BY <2>6, <3>1, <3>2 DEF EnqueueStale, Exists
  <2>7. CASE DeleteCommit(c)
    <3>1. SetRows({p}, "absent", "absent") /\ ActiveExec(p) = {} /\ UNCHANGED job
      BY <2>7 DEF DeleteCommit
    <3>2. "absent" \in PlanStatus /\ "absent" \in ItemState
      BY DEF PlanStatus, ItemState
    <3> QED BY <2>1, <2>2, <3>1, <3>2, SetRowsEffect
  <2> QED BY <1>2, <2>4, <2>5, <2>6, <2>7
<1>3. ASSUME NEW p \in Plan, Create(p)
      PROVE  /\ PlanOK' /\ RowsOK' /\ CallOK' /\ ApiOK' /\ ExecutionsHavePlans'
  <2>1. SetRows({p}, "draft", "planned") /\ UNCHANGED job
    BY <1>3 DEF Create
  <2>2. "draft" \in PlanStatus /\ "planned" \in ItemState
    BY DEF PlanStatus, ItemState
  <2>3. PlanOK' /\ RowsOK' /\ ExecutionsHavePlans'
    BY <2>1, <2>2, SetRowsEffect
  <2>4. ApiOK' /\ CallOK'
    BY <1>3, PlanLifecycleAssumption DEF Create, ApiOK, CallOK
  <2> QED BY <2>3, <2>4
<1>4. ASSUME NEW S \in SUBSET {"completed", "failed"}, ClearPlanHistory(S)
      PROVE  /\ PlanOK' /\ RowsOK' /\ CallOK' /\ ApiOK' /\ ExecutionsHavePlans'
  <2>1. SetRows({p \in Plan : plan[p] \in S /\ ActiveExec(p) = {}}, "absent", "absent") /\ UNCHANGED job
    BY <1>4 DEF ClearPlanHistory
  <2>2. "absent" \in PlanStatus /\ "absent" \in ItemState
    BY DEF PlanStatus, ItemState
  <2>3. PlanOK' /\ RowsOK' /\ ExecutionsHavePlans'
    BY <2>1, <2>2, SetRowsEffect
  <2>4. ApiOK' /\ CallOK'
    BY <1>4 DEF ClearPlanHistory, ApiOK, CallOK, quietly
  <2> QED BY <2>3, <2>4
<1> QED BY <1>0, <1>2, <1>3, <1>4

(* The requests that take a step of the queue, and the queue by itself.    *)
LEMMA QueueSteps ==
    ASSUME PlanTypeOK, QueueStep \/ \E c \in Client : EnqueueCommit(c) \/ DeleteCancel(c)
    PROVE  [Next]_vars /\ CallOK' /\ ApiOK'
<1>1. CASE QueueStep
  <2>1. Next
    BY <1>1 DEF QueueStep, Next, Request
  <2>2. UNCHANGED <<call, births>> /\ recovered' \subseteq JobId
    BY <1>1 DEF QueueStep, api
  <2> QED BY <2>1, <2>2 DEF PlanTypeOK, CallOK, ApiOK
<1>2. ASSUME NEW c \in Client, EnqueueCommit(c) PROVE [Next]_vars /\ CallOK' /\ ApiOK'
  <2>1. call[c].plan \in Plan /\ CallOK'
    BY <1>2, AnswerType DEF EnqueueCommit, PlanTypeOK, CallOK
  <2>2. Next /\ ApiOK'
    BY <1>2, <2>1 DEF EnqueueCommit, Next, Request, PlanTypeOK, ApiOK
  <2> QED BY <2>1, <2>2
<1>3. ASSUME NEW c \in Client, DeleteCancel(c) PROVE [Next]_vars /\ CallOK' /\ ApiOK'
  <2>1. call[c] \in CallRecord /\ call[c].job \in JobId
    BY <1>3 DEF DeleteCancel, PlanTypeOK, CallOK, CallRecord
  <2>2. [Next]_vars
    BY <1>3, <2>1 DEF DeleteCancel, Next, Request, TaskRequest
  <2>3. CallOK'
    BY <1>3, <2>1 DEF DeleteCancel, PlanTypeOK, CallOK, CallRecord
  <2> QED BY <1>3, <2>2, <2>3 DEF DeleteCancel, PlanTypeOK, ApiOK
<1> QED BY <1>1, <1>2, <1>3

-----------------------------------------------------------------------------
(* The invariant: the queue's own, and that what executes has its plan.    *)

PlanInvariant == PlanTypeOK /\ Ownership /\ ExecutionsHavePlans /\ HandlerPlan

(* The owner's handler has its plan because its job is active.            *)
LEMMA HandlerHasPlan == PlanInvariant => ExecutionHasPlan
<1> SUFFICES ASSUME PlanInvariant, NEW w \in Worker, lock.owner = w, pc[w] \in Handler \ {"work"}
             PROVE  Exists(pid[w])
  BY DEF PlanInvariant, ExecutionHasPlan
<1>1. cur[w] \in JobId /\ job[cur[w]].st \in InFlight
  BY Places DEF PlanInvariant, Ownership, HandlerJobInFlight, TypeOK, ControlOK
<1> QED BY <1>1 DEF PlanInvariant, HandlerPlan, ExecutionsHavePlans, Active

(* At first there is no plan, no job and no request.                       *)
LEMMA InitPlanInvariant == PlanInit => PlanInvariant
<1> SUFFICES ASSUME PlanInit PROVE PlanInvariant
  OBVIOUS
<1> USE TaskQueueAssumption, PlanLifecycleAssumption DEF PlanInit, QueueInit
<1>1. LockOK /\ LocalOK /\ EnvOK /\ LoopOK
  BY DEF LockOK, LocalOK, EnvOK, LoopOK
<1>2. JobOK
  BY DEF JobOK, NoJob, JobRecord, JobStatus, Kind
<1>3. PlanOK /\ RowsOK
  BY DEF PlanOK, PlanStatus, ItemState, RowsOK, Exists
<1>4. ControlOK
  BY DEF ControlOK, PC, Processing, Unwinding, Handler, Recovering
<1>5. CallOK /\ ApiOK
  BY DEF CallOK, ApiOK, CallRecord, Idle
<1>6. HandlerJobInFlight /\ Settled /\ SingleFlight
  BY DEF HandlerJobInFlight, Settled, SingleFlight, InFlightJobs, NoJob, InFlight
<1>7. ExecutionsHavePlans /\ HandlerPlan
  BY DEF ExecutionsHavePlans, HandlerPlan, NoJob
<1> QED BY <1>1, <1>2, <1>3, <1>4, <1>5, <1>6, <1>7 DEF PlanInvariant, PlanTypeOK, TypeOK, Ownership

(* What a step outside the queue leaves of the queue's invariants.         *)
LEMMA OutsideOwnership ==
    ASSUME Ownership, HandlerPlan, Outside, PlanOK'
    PROVE  Ownership' /\ HandlerPlan'
<1>1. UNCHANGED <<lock, job, pc, cur, pid, at, todo, orphans, lost, lapses, faults, abandoned>>
  BY DEF Outside, local, env
<1>2. TypeOK'
  BY <1>1 DEF Ownership, TypeOK, LockOK, JobOK, ControlOK, LoopOK, LocalOK, EnvOK
<1>3. HandlerJobInFlight' /\ Settled' /\ SingleFlight' /\ HandlerPlan'
  BY <1>1 DEF Ownership, HandlerJobInFlight, Settled, SingleFlight, HandlerPlan, InFlightJobs
<1> QED BY <1>2, <1>3 DEF Ownership

(* The invariant is inductive.                                             *)
LEMMA NextPlanInvariant == PlanInvariant /\ [PlanNext]_pvars => PlanInvariant'
<1> SUFFICES ASSUME PlanInvariant, [PlanNext]_pvars PROVE PlanInvariant'
  OBVIOUS
<1> USE DEF PlanInvariant
<1>1. ASSUME Outside, PlanOK', RowsOK', CallOK', ApiOK', ExecutionsHavePlans' PROVE PlanInvariant'
  BY <1>1, OutsideOwnership DEF PlanTypeOK, Ownership
<1>2. ASSUME NEW c \in Client,
             \/ CallFails(c)
             \/ \E p \in Plan : FreezeStart(c, p) \/ ValidateStart(c, p) \/ EnqueueStart(c, p) \/ DeleteStart(c, p)
      PROVE  PlanInvariant'
  BY <1>1, <1>2, ReadingSteps
<1>3. CASE \/ \E c \in Client : FreezeCommit(c) \/ ValidateCommit(c) \/ EnqueueStale(c) \/ DeleteCommit(c)
           \/ \E p \in Plan : Create(p)
           \/ \E S \in SUBSET {"completed", "failed"} : ClearPlanHistory(S)
  BY <1>1, <1>3, WritingSteps
<1>4. ASSUME [Next]_vars, CallOK', ApiOK' PROVE PlanInvariant'
  <2>1. SameRows
    BY <1>4, QueueRows, HandlerHasPlan DEF PlanTypeOK
  <2>2. Ownership' /\ HandlerPlan' /\ ExecutionsHavePlans'
    BY <1>4, <2>1, NextOwnership, NextHandlerPlan, QueueExecutions DEF PlanTypeOK
  <2>3. RowsOK'
    BY <2>1 DEF PlanTypeOK, RowsOK, Exists, SameRows
  <2> QED BY <1>4, <2>2, <2>3 DEF PlanTypeOK, Ownership
<1>5. CASE QueueStep \/ \E c \in Client : EnqueueCommit(c) \/ DeleteCancel(c)
  BY <1>4, <1>5, QueueSteps
<1>6. CASE UNCHANGED pvars
  BY <1>4, <1>6 DEF pvars, PlanTypeOK, CallOK, ApiOK
<1> QED BY <1>2, <1>3, <1>5, <1>6 DEF PlanNext, PlanRequest

(* The invariant holds in every reachable state.                          *)
LEMMA PlanInvariantHolds == PlanSpec => []PlanInvariant
BY InitPlanInvariant, NextPlanInvariant, PTL DEF PlanSpec

(* Every variable keeps its type, and a plan's items exist as long as it.  *)
THEOREM PlanTypeCorrect == PlanSpec => []PlanTypeOK
<1>1. PlanInvariant => PlanTypeOK
  BY DEF PlanInvariant
<1> QED BY <1>1, PlanInvariantHolds, PTL

(* No deletion, however it interleaves with requests, recoveries and       *)
(* takeovers, takes the plan from an execution that may still run or from  *)
(* the handler of the lease's owner.                                       *)
THEOREM NoExecutionWithoutPlan == PlanSpec => []ExecutionHasPlan
BY HandlerHasPlan, PlanInvariantHolds, PTL

(* A plan is executed by one job at a time although the check and the      *)
(* insertion of enqueue_plan_execution are transactions apart.             *)
THEOREM OnePlanExecution == PlanSpec => []OneActiveJobPerPlan
<1>1. PlanInit => OneActiveJobPerPlan
  BY DEF PlanInit, QueueInit, OneActiveJobPerPlan, ActiveExec, NoJob, Active, InFlight
<1>2. ASSUME PlanInvariant, OneActiveJobPerPlan, [PlanNext]_pvars PROVE OneActiveJobPerPlan'
  <2>1. CASE UNCHANGED job
    BY <1>2, <2>1 DEF OneActiveJobPerPlan, ActiveExec
  <2>2. CASE QueueStep \/ \E c \in Client : EnqueueCommit(c) \/ DeleteCancel(c)
    BY <1>2, <2>2, QueueSteps, NextOneActive DEF PlanInvariant, PlanTypeOK
  <2>3. CASE ~(QueueStep \/ \E c \in Client : EnqueueCommit(c) \/ DeleteCancel(c))
    BY <1>2, <2>1, <2>3, ReadingSteps, WritingSteps
    DEF PlanNext, PlanRequest, PlanInvariant, Outside, pvars, vars
  <2> QED BY <2>2, <2>3
<1> QED BY <1>1, <1>2, PlanInvariantHolds, PTL DEF PlanSpec

-----------------------------------------------------------------------------
(* Outcomes are final.                                                     *)

(* A request is sure of the items it found completed: it rewrites others.  *)
ReadsApart == \A c \in Client : call[c].todo \cap call[c].done = {}

(* The item whose mutation the owner of the lease has in hand is not done. *)
OwnersItem == \A w \in Worker : lock.owner = w /\ pc[w] = "item" => item[pid[w]][at[w]] # "completed"

(* The steps of the queue that rewrite items.                              *)
LEMMA ItemWriters ==
    ASSUME TypeOK, NEW v \in Worker, Progress(v) \/ Mishap(v), item' # item
    PROVE  /\ Reconcile(v) \/ Fresh(v) \/ ItemStale(v) \/ Intent(v) \/ ItemResult(v)
           /\ lock.owner = v /\ pid[v] \in Plan
           /\ UNCHANGED <<lock, pid, at>>
<1>1. Reconcile(v) \/ Fresh(v) \/ ItemStale(v) \/ Intent(v) \/ ItemResult(v)
  BY DEF Progress, Mishap, Start, Acquire, NoticeLeaseLost, LeaseLost, RecoveryLeaseLost,
         ListInterrupted, RecoverJob, ListOrphans, RepairPlan, RecoveryDone, Claim, Preflight,
         Finish, Failing, Cancelling, Pausing, SyncAfterUnwinding, WorkDone, WorkPoll, Begin,
         Ready, Boundary, LastCheckpoint, Checkpoint, NoItemLeft, PostLoop, LateFence,
         HeartbeatRefused, Crash, Raise, SwallowedError, PollEmpty, db, vars
<1>2. pid[v] \in Plan /\ lock.owner = v
  BY <1>1, Places DEF Reconcile, Fresh, ItemStale, Intent, ItemResult, TypeOK, ControlOK, Holds
<1> QED BY <1>1, <1>2 DEF Reconcile, Fresh, ItemStale, Intent, ItemResult

(* Such a step passes over the items that are completed, except that a     *)
(* move executed again rewrites the clean-up that follows it.              *)
LEMMA WorkerKeepsCompleted ==
    ASSUME TypeOK, OwnersItem, NEW v \in Worker, Progress(v) \/ Mishap(v),
           NEW p \in Plan, NEW i \in Completed(p)
    PROVE  item'[p][i] = "completed" \/ RewritesCleanUp(v, p, i)
<1>0. PlanOK /\ ControlOK /\ LoopOK /\ i \in Item /\ item[p][i] = "completed"
  BY DEF TypeOK, Completed
<1>1. CASE item' = item
  BY <1>0, <1>1
<1>2. CASE item' # item /\ pid[v] # p
  BY <1>0, <1>2, ItemWriters
     DEF Reconcile, Fresh, ItemStale, Intent, ItemResult, Stale, SetItem, SetPair, PlanOK
<1>3. CASE item' # item /\ pid[v] = p
  <2>1. lock.owner = v /\ (pc[v] = "item" => at[v] \in Item /\ at[v] # i)
    BY <1>0, <1>3, ItemWriters DEF OwnersItem, LoopOK
  <2>2. i \notin Pending(p)
    BY <1>0 DEF Pending, Outcome
  <2>3. ASSUME NEW S, i \notin S, Stale(p, S) PROVE item'[p][i] = "completed"
    BY <1>0, <2>3 DEF Stale, PlanOK
  <2>4. ASSUME NEW k, k # i, NEW s, SetItem(p, k, s) PROVE item'[p][i] = "completed"
    BY <1>0, <2>4 DEF SetItem, PlanOK
  <2>5. CASE Reconcile(v)
    <3>1. PICK out \in [Item -> {"planned", "completed", "failed"}] :
             item' = [item EXCEPT ![p] = [k \in Item |-> IF @[k] = "executing" THEN out[k] ELSE @[k]]]
      BY <1>3, <2>5 DEF Reconcile
    <3> QED BY <1>0, <3>1 DEF PlanOK
  <2>6. CASE Fresh(v)
    BY <1>3, <2>2, <2>3, <2>6 DEF Fresh
  <2>7. CASE ItemStale(v)
    BY <1>3, <2>1, <2>2, <2>3, <2>7 DEF ItemStale, IsNextItem
  <2>8. CASE Intent(v)
    <3>1. at[v] # i /\ \E s : SetItem(p, at[v], s)
      BY <1>0, <1>3, <2>8 DEF Intent, Outcome
    <3> QED BY <2>4, <3>1
  <2>9. CASE ItemResult(v)
    <3>1. \/ \E s : SetItem(p, at[v], s)
          \/ pc'[v] = "next" /\ \E s, t \in Outcome : SetPair(p, at[v], s, t)
      BY <1>0, <1>3, <2>9 DEF ItemResult, Go, ControlOK
    <3>2. pc[v] = "item"
      BY <2>9 DEF ItemResult
    <3>3. CASE pc'[v] = "next" /\ i = at[v] + 1
      BY <1>3, <3>2, <3>3 DEF RewritesCleanUp
    <3>4. CASE i # at[v] + 1 /\ \E s, t \in Outcome : SetPair(p, at[v], s, t)
      BY <1>0, <2>1, <3>2, <3>4 DEF SetPair, PlanOK
    <3> QED BY <2>1, <2>4, <3>1, <3>2, <3>3, <3>4
  <2> QED BY <1>3, <2>5, <2>6, <2>7, <2>8, <2>9, ItemWriters
<1> QED BY <1>1, <1>2, <1>3

(* Nothing else in the queue rewrites items.                               *)
LEMMA QueueKeepsCompleted ==
    ASSUME TypeOK, OwnersItem, [Next]_vars, NEW p \in Plan, NEW i \in Completed(p)
    PROVE  item'[p][i] = "completed" \/ \E w \in Worker : RewritesCleanUp(w, p, i)
<1>1. CASE Request \/ Lapse \/ UNCHANGED vars
  BY <1>1, RequestHonest DEF Completed
<1> QED BY <1>1, WorkerKeepsCompleted DEF Next

(* The owner takes an item in hand that is not done, and until it has the  *)
(* outcome no other step of the queue makes it so.                         *)
LEMMA QueueOwnersItem ==
    ASSUME TypeOK, OwnersItem, [Next]_vars
    PROVE  OwnersItem'
<1>0. PlanOK /\ ControlOK /\ LoopOK
  BY DEF TypeOK
<1>1. CASE Request \/ Lapse \/ UNCHANGED vars
  <2>1. UNCHANGED <<item, pc, pid, at>> /\ lock'.owner = lock.owner
    BY <1>1 DEF Request, TaskRequest, EnqueuePlan, StartScan, Pause, Resume, Cancel, Retry, Delete,
                ClearHistory, quiet, local, Lapse, db, vars, TypeOK, LockOK
  <2> QED BY <2>1 DEF OwnersItem
<1>2. ASSUME NEW v \in Worker, Progress(v) \/ Mishap(v),
             NEW w \in Worker, lock'.owner = w, pc'[w] = "item"
      PROVE  item'[pid'[w]][at'[w]] # "completed"
  <2>1. ~Acquire(v) \/ w # v
    BY <1>0, <1>2 DEF Acquire, Go, ControlOK
  <2>2. lock.owner = w
    BY <1>2, <2>1, OwnerChange DEF Acquire, LateFence, TypeOK, LockOK
  <2>3. CASE v # w
    <3>1. UNCHANGED item /\ pc'[w] = pc[w] /\ pid'[w] = pid[w] /\ at'[w] = at[w]
      BY <1>2, <2>2, <2>3, FencedStep, Frame, LoopFrame DEF Holds
    <3> QED BY <1>2, <2>2, <3>1 DEF OwnersItem
  <2>4. CASE v = w /\ item' # item
    <3>1. Intent(v) /\ UNCHANGED <<pid, at>> /\ pid[v] \in Plan
      BY <1>0, <1>2, <2>4, ItemWriters DEF Reconcile, Fresh, ItemStale, ItemResult, Go, ControlOK
    <3>2. at[v] \in Item /\ SetItem(pid[v], at[v], "executing")
      BY <1>0, <1>2, <2>4, <3>1 DEF Intent, Go, ControlOK, LoopOK
    <3> QED BY <1>0, <2>4, <3>1, <3>2 DEF SetItem, PlanOK
  <2>5. CASE v = w /\ item' = item
    <3>1. CASE Intent(v)
      BY <1>0, <1>2, <2>5, <3>1, Places DEF Intent, Go, ControlOK, LoopOK, SetItem, PlanOK
    <3>2. CASE ~Intent(v)
      <4>1. pc[v] = "item" /\ UNCHANGED <<pid, at>>
        BY <1>0, <1>2, <2>5, <3>2 DEF Progress, Mishap, Start, Acquire, NoticeLeaseLost, LeaseLost, RecoveryLeaseLost,
         ListInterrupted, RecoverJob, ListOrphans, RepairPlan, RecoveryDone, Claim, Preflight,
         Finish, Failing, Cancelling, Pausing, SyncAfterUnwinding, WorkDone, WorkPoll, Begin,
         Ready, Boundary, LastCheckpoint, Checkpoint, NoItemLeft, PostLoop, LateFence, Reconcile, Fresh, ItemStale, ItemResult,
         HeartbeatRefused, Crash, Raise, SwallowedError, PollEmpty, db, vars, local, ControlOK, Go, Leave
      <4> QED BY <2>2, <2>5, <4>1 DEF OwnersItem
    <3> QED BY <3>1, <3>2
  <2> QED BY <2>3, <2>4, <2>5
<1> QED BY <1>1, <1>2 DEF Next, OwnersItem

(* A request that writes rows of plans leaves the outcome of an item alone *)
(* unless it has read the item before, or the plan goes.                   *)
LEMMA WritersKeepCompleted ==
    ASSUME PlanTypeOK, ReadsApart,
           \/ \E c \in Client : FreezeCommit(c) \/ ValidateCommit(c) \/ EnqueueStale(c) \/ DeleteCommit(c)
           \/ \E p \in Plan : Create(p)
           \/ \E S \in SUBSET {"completed", "failed"} : ClearPlanHistory(S),
           NEW p \in Plan, NEW i \in Completed(p)
    PROVE  \/ item'[p][i] = "completed"
           \/ plan'[p] = "absent"
           \/ \E c \in Client : call'[c] # call[c] /\ call[c].plan = p /\ i \notin call[c].done
<1>0. PlanOK /\ CallOK /\ i \in Item /\ item[p][i] = "completed" /\ plan[p] # "absent"
  BY DEF PlanTypeOK, TypeOK, Completed, RowsOK, Exists
<1>1. ASSUME NEW c \in Client, Answer(c), call[c].op # "none", call[c].plan = p, i \in call[c].todo
      PROVE  call'[c] # call[c] /\ call[c].plan = p /\ i \notin call[c].done
  BY <1>0, <1>1 DEF Answer, Idle, CallOK, ReadsApart
<1>2. ASSUME NEW c \in Client, ValidateCommit(c) PROVE item'[p][i] = "completed" \/ (call[c].plan = p /\ i \in call[c].todo)
  BY <1>0, <1>2 DEF ValidateCommit, PlanOK
<1>3. ASSUME NEW c \in Client, EnqueueStale(c) PROVE item'[p][i] = "completed" \/ (call[c].plan = p /\ i \in call[c].todo)
  BY <1>0, <1>3 DEF EnqueueStale, PlanOK
<1>4. ASSUME NEW S \in SUBSET Plan, SetRows(S, "absent", "absent") PROVE item'[p][i] = "completed" \/ plan'[p] = "absent"
  BY <1>0, <1>4 DEF SetRows
<1>5. ASSUME NEW c \in Client, DeleteCommit(c) PROVE item'[p][i] = "completed" \/ plan'[p] = "absent"
  BY <1>0, <1>4, <1>5 DEF DeleteCommit, SetRows
<1>6. ASSUME NEW q \in Plan, Create(q) PROVE item'[p][i] = "completed"
  <2>1. plan[q] = "absent"
    BY <1>6, PlanLifecycleAssumption DEF Create, NextPlanId, Exists
  <2> QED BY <1>0, <1>6, <2>1 DEF Create, SetRows
<1>7. CASE \E S \in SUBSET {"completed", "failed"} : ClearPlanHistory(S)
  BY <1>4, <1>7 DEF ClearPlanHistory
<1>8. ASSUME NEW c \in Client, FreezeCommit(c) PROVE item'[p][i] = "completed"
  BY <1>0, <1>8 DEF FreezeCommit
<1>9. ASSUME NEW c \in Client, ValidateCommit(c) \/ EnqueueStale(c) PROVE Answer(c) /\ call[c].op # "none"
  BY <1>9 DEF ValidateCommit, EnqueueStale
<1> QED BY <1>1, <1>2, <1>3, <1>5, <1>6, <1>7, <1>8, <1>9

(* What a request rewrites is not what it found completed.                 *)
LEMMA NextReadsApart ==
    ASSUME PlanTypeOK, ReadsApart, [PlanNext]_pvars
    PROVE  ReadsApart'
<1>0. CallOK
  BY DEF PlanTypeOK
<1>1. ASSUME NEW c \in Client, NEW r, r.todo \cap r.done = {}, call' = [call EXCEPT ![c] = r] PROVE ReadsApart'
  BY <1>0, <1>1 DEF CallOK, ReadsApart
<1>2. ASSUME NEW c \in Client, Answer(c) PROVE ReadsApart'
  BY <1>1, <1>2 DEF Answer, Idle
<1>3. ASSUME NEW c \in Client, NEW p \in Plan,
             FreezeStart(c, p) \/ ValidateStart(c, p) \/ EnqueueStart(c, p) \/ DeleteStart(c, p)
      PROVE  ReadsApart'
  <2>1. PICK r : r.todo \cap r.done = {} /\ call' = [call EXCEPT ![c] = r]
    BY <1>3 DEF FreezeStart, ValidateStart, EnqueueStart, DeleteStart, Ask, Idle, Completed
  <2> QED BY <1>1, <2>1
<1>4. ASSUME NEW c \in Client, DeleteCancel(c) PROVE ReadsApart'
  BY <1>0, <1>4 DEF DeleteCancel, ReadsApart, CallOK, CallRecord
<1>5. CASE UNCHANGED call
  BY <1>5 DEF ReadsApart
<1>6. ASSUME NEW c \in Client,
             CallFails(c) \/ FreezeCommit(c) \/ ValidateCommit(c) \/ EnqueueStale(c) \/ EnqueueCommit(c) \/ DeleteCommit(c)
      PROVE  ReadsApart'
  BY <1>2, <1>6 DEF CallFails, FreezeCommit, ValidateCommit, EnqueueStale, EnqueueCommit, DeleteCommit
<1>7. CASE QueueStep \/ (\E p \in Plan : Create(p)) \/ (\E S \in SUBSET {"completed", "failed"} : ClearPlanHistory(S)) \/ UNCHANGED pvars
  BY <1>5, <1>7 DEF QueueStep, api, Create, ClearPlanHistory, pvars
<1> QED BY <1>3, <1>4, <1>6, <1>7 DEF PlanNext, PlanRequest

(* No request completes an item.                                           *)
LEMMA NextOwnersItem ==
    ASSUME PlanInvariant, OwnersItem, [PlanNext]_pvars
    PROVE  OwnersItem'
<1>1. CASE QueueStep \/ \E c \in Client : EnqueueCommit(c) \/ DeleteCancel(c)
  BY <1>1, QueueSteps, QueueOwnersItem DEF PlanInvariant, PlanTypeOK
<1>2. ASSUME Outside, \A p \in Plan, i \in Item : item'[p][i] = "completed" => item[p][i] = "completed"
      PROVE  OwnersItem'
  <2>1. \A w \in Worker : lock.owner = w /\ pc[w] = "item" => pid[w] \in Plan /\ at[w] \in Item
    BY Places DEF PlanInvariant, PlanTypeOK, TypeOK, ControlOK, LoopOK
  <2> QED BY <1>2, <2>1 DEF OwnersItem, Outside, local
<1>3. ASSUME NEW c \in Client,
             \/ CallFails(c)
             \/ \E p \in Plan : FreezeStart(c, p) \/ ValidateStart(c, p) \/ EnqueueStart(c, p) \/ DeleteStart(c, p)
      PROVE  OwnersItem'
  <2>1. Outside /\ UNCHANGED item
    BY <1>3, ReadingSteps DEF PlanInvariant, CallFails, FreezeStart, ValidateStart, EnqueueStart, DeleteStart, reads, vars
  <2> QED BY <1>2, <2>1
<1>4. CASE \/ \E c \in Client : FreezeCommit(c) \/ ValidateCommit(c) \/ EnqueueStale(c) \/ DeleteCommit(c)
           \/ \E p \in Plan : Create(p)
           \/ \E S \in SUBSET {"completed", "failed"} : ClearPlanHistory(S)
  <2>1. Outside
    BY <1>4, WritingSteps DEF PlanInvariant
  <2>2. PlanOK
    BY DEF PlanInvariant, PlanTypeOK, TypeOK
  <2>3. ASSUME NEW S, NEW st, NEW s, s # "completed", SetRows(S, st, s)
        PROVE  \A p \in Plan, i \in Item : item'[p][i] = "completed" => item[p][i] = "completed"
    BY <2>3 DEF SetRows
  <2>4. ASSUME NEW c \in Client, FreezeCommit(c) \/ ValidateCommit(c) \/ EnqueueStale(c)
        PROVE  \A p \in Plan, i \in Item : item'[p][i] = "completed" => item[p][i] = "completed"
    <3>1. ASSUME NEW S \in SUBSET Item, NEW f \in [S -> {"validated", "stale", "skipped"}], NEW q,
                 item' = [item EXCEPT ![q] = [i \in Item |-> IF i \in S THEN f[i] ELSE @[i]]]
          PROVE  \A p \in Plan, i \in Item : item'[p][i] = "completed" => item[p][i] = "completed"
      <4> TAKE p \in Plan, i \in Item
      <4>1. CASE i \in S /\ p = q
        <5>1. item'[p][i] = f[i] /\ f[i] \in {"validated", "stale", "skipped"}
          BY <2>2, <3>1, <4>1 DEF PlanOK
        <5> QED BY <5>1
      <4>2. CASE ~(i \in S /\ p = q)
        BY <2>2, <3>1, <4>2 DEF PlanOK
      <4> QED BY <4>1, <4>2
    <3>2. call[c].todo \subseteq Item
      BY DEF PlanInvariant, PlanTypeOK, CallOK, CallRecord
    <3>3. CASE ValidateCommit(c)
      BY <3>1, <3>2, <3>3 DEF ValidateCommit
    <3>4. CASE EnqueueStale(c)
      BY <2>2, <3>2, <3>4 DEF EnqueueStale, PlanOK
    <3> QED BY <2>4, <3>3, <3>4 DEF FreezeCommit
  <2>5. \A p \in Plan, i \in Item : item'[p][i] = "completed" => item[p][i] = "completed"
    BY <1>4, <2>3, <2>4 DEF DeleteCommit, Create, ClearPlanHistory
  <2> QED BY <1>2, <2>1, <2>5
<1>5. CASE UNCHANGED pvars
  BY <1>5 DEF pvars, vars, local, OwnersItem
<1> QED BY <1>1, <1>3, <1>4, <1>5 DEF PlanNext, PlanRequest

(* Of all steps, only a request that read the item before it was completed *)
(* and the phase 3 of a move that is executed again rewrite the outcome of *)
(* a completed item, however requests, deletions and takeovers interleave. *)
THEOREM CompletedIsFinal == PlanSpec => CompletedStays
<1>1. PlanInit => ReadsApart /\ OwnersItem
  BY DEF PlanInit, QueueInit, ReadsApart, OwnersItem, Idle
<1>2. ASSUME PlanInvariant, ReadsApart, OwnersItem, [PlanNext]_pvars PROVE ReadsApart' /\ OwnersItem'
  BY <1>2, NextReadsApart, NextOwnersItem DEF PlanInvariant
<1>3. ASSUME PlanInvariant, ReadsApart, OwnersItem, [PlanNext]_pvars, NEW p \in Plan, NEW i \in Completed(p)
      PROVE  \/ item'[p][i] = "completed"
             \/ plan'[p] = "absent"
             \/ \E w \in Worker : RewritesCleanUp(w, p, i)
             \/ \E c \in Client : call'[c] # call[c] /\ call[c].plan = p /\ i \notin call[c].done
  <2>1. CASE QueueStep \/ \E c \in Client : EnqueueCommit(c) \/ DeleteCancel(c)
    BY <1>3, <2>1, QueueSteps, QueueKeepsCompleted DEF PlanInvariant, PlanTypeOK
  <2>2. CASE UNCHANGED item
    BY <1>3, <2>2 DEF Completed
  <2>3. CASE \/ \E c \in Client : FreezeCommit(c) \/ ValidateCommit(c) \/ EnqueueStale(c) \/ DeleteCommit(c)
             \/ \E q \in Plan : Create(q)
             \/ \E S \in SUBSET {"completed", "failed"} : ClearPlanHistory(S)
    BY <1>3, <2>3, WritersKeepCompleted DEF PlanInvariant
  <2>4. ASSUME NEW c \in Client,
             \/ CallFails(c)
             \/ \E q \in Plan : FreezeStart(c, q) \/ ValidateStart(c, q) \/ EnqueueStart(c, q) \/ DeleteStart(c, q)
        PROVE  UNCHANGED item
    BY <2>4 DEF CallFails, FreezeStart, ValidateStart, EnqueueStart, DeleteStart, reads, vars
  <2> QED BY <1>3, <2>1, <2>2, <2>3, <2>4 DEF PlanNext, PlanRequest, pvars, vars
<1>4. ASSUME PlanInvariant, ReadsApart, OwnersItem, [PlanNext]_pvars
      PROVE  [\A p \in Plan : \A i \in Completed(p) :
                 \/ item'[p][i] = "completed"
                 \/ plan'[p] = "absent"
                 \/ \E w \in Worker : RewritesCleanUp(w, p, i)
                 \/ \E c \in Client : call'[c] # call[c] /\ call[c].plan = p /\ i \notin call[c].done]_pvars
  BY <1>3, <1>4
<1> QED BY <1>1, <1>2, <1>4, PlanInvariantHolds, PTL DEF PlanSpec, CompletedStays

(***************************************************************************)
(* Theorems of WorkerLease                                                 *)
(*                                                                         *)
(* The lease that the queue above is built on has no clock.  Here it is    *)
(* shown that the timestamps of the task_lock row implement it, for any    *)
(* number of workers and any timeout.  The timestamped lease has variables *)
(* of its own and the queue's workers; what WorkerLease assumes of its     *)
(* constants is a hypothesis of each theorem.                              *)
(***************************************************************************)

CONSTANTS Timeout, MaxDelay, MaxTicks

VARIABLES
    ticks,              \* the clock
    holder, dated,      \* task_lock.owner and task_lock.acquired_at
    sampled, fenced     \* the readings of fences, as in WorkerLease

Timed == INSTANCE WorkerLease WITH MaxClock <- MaxTicks, clock <- ticks, owner <- holder, at <- dated

(* A waiting fence's reading is at most MaxDelay old, and a running call   *)
(* that is young enough belongs to the owner, whose lease is dated at most *)
(* MaxDelay before the call's fence: so nobody may take it over.           *)
FenceFresh == \A w \in Worker : sampled[w] # Timed!Idle =>
                  sampled[w] <= ticks /\ ticks - sampled[w] <= MaxDelay
CallCovered == \A w \in Worker : fenced[w] # Timed!Idle =>
                  /\ sampled[w] = Timed!Idle
                  /\ fenced[w] <= ticks
                  /\ ticks - fenced[w] <= Timeout - MaxDelay =>
                        holder = w /\ fenced[w] - MaxDelay <= dated
LeaseInvariant == Timed!TypeOK /\ dated <= ticks /\ FenceFresh /\ CallCovered

(* The invariant holds before the first acquisition.                      *)
LEMMA LeaseInvariantStarts == ASSUME Timed!WorkerLeaseAssumption, Timed!Init PROVE LeaseInvariant
BY DEF Timed!WorkerLeaseAssumption, Timed!Init, LeaseInvariant, Timed!TypeOK, FenceFresh, CallCovered, Timed!Idle, Timed!Time

(* The invariant is inductive.                                            *)
LEMMA LeaseInvariantStays ==
    ASSUME Timed!WorkerLeaseAssumption, LeaseInvariant, [Timed!Next]_Timed!vars PROVE LeaseInvariant'
<1> USE DEF Timed!WorkerLeaseAssumption, LeaseInvariant, Timed!TypeOK, FenceFresh, CallCovered, Timed!Idle, Timed!Time
<1>1. CASE Timed!Tick
  BY <1>1 DEF Timed!Tick
<1>2. ASSUME NEW w \in Worker, Timed!Acquire(w) PROVE LeaseInvariant'
  <2>1. Timed!TypeOK' /\ dated' <= ticks' /\ FenceFresh'
    BY <1>2 DEF Timed!Acquire
  <2>2. ASSUME NEW v \in Worker, fenced[v] # Timed!Idle,
               ticks - fenced[v] <= Timeout - MaxDelay
        PROVE FALSE
    <3>1. holder = v /\ fenced[v] - MaxDelay <= dated /\ v # w
      BY <1>2, <2>2 DEF Timed!Acquire
    <3>2. ticks - dated > Timeout
      BY <1>2, <3>1 DEF Timed!Acquire
    <3> QED BY <2>2, <3>1, <3>2
  <2> QED BY <1>2, <2>1, <2>2 DEF Timed!Acquire
<1>3. ASSUME NEW w \in Worker, Timed!Heartbeat(w) PROVE LeaseInvariant'
  BY <1>3 DEF Timed!Heartbeat, Timed!Active
<1>4. ASSUME NEW w \in Worker, Timed!FenceSample(w) PROVE LeaseInvariant'
  BY <1>4 DEF Timed!FenceSample
<1>5. ASSUME NEW w \in Worker, Timed!FenceCommit(w) PROVE LeaseInvariant'
  BY <1>5 DEF Timed!FenceCommit, Timed!Active
<1>6. ASSUME NEW w \in Worker, Timed!FenceRaise(w) PROVE LeaseInvariant'
  BY <1>6 DEF Timed!FenceRaise
<1>7. ASSUME NEW w \in Worker, Timed!CallReturns(w) PROVE LeaseInvariant'
  BY <1>7 DEF Timed!CallReturns
<1>8. CASE UNCHANGED Timed!vars
  BY <1>8 DEF Timed!vars
<1> QED BY <1>1, <1>2, <1>3, <1>4, <1>5, <1>6, <1>7, <1>8 DEF Timed!Next

(* The invariant holds in every reachable state.                          *)
LEMMA LeaseInvariantHolds == ASSUME Timed!WorkerLeaseAssumption PROVE Timed!Spec => []LeaseInvariant
<1>1. Timed!Init => LeaseInvariant
  BY LeaseInvariantStarts
<1>2. LeaseInvariant /\ [Timed!Next]_Timed!vars => LeaseInvariant'
  BY LeaseInvariantStays
<1> QED BY <1>1, <1>2, PTL DEF Timed!Spec

(* The timestamps keep their types, whatever fences and heartbeats race.   *)
THEOREM LeaseTypeCorrect == ASSUME Timed!WorkerLeaseAssumption PROVE Timed!Spec => []Timed!TypeOK
<1>0. Timed!Spec => []LeaseInvariant
  BY LeaseInvariantHolds
<1>1. LeaseInvariant => Timed!TypeOK
  BY DEF LeaseInvariant
<1> QED BY <1>0, <1>1, PTL

(* A filesystem call that ends within Timeout - MaxDelay of its fence is   *)
(* made by the owner of the lease, for every timeout and fence delay.      *)
THEOREM ExclusiveCalls == ASSUME Timed!WorkerLeaseAssumption PROVE Timed!Spec => []Timed!CallsAreExclusive
<1>0. Timed!Spec => []LeaseInvariant
  BY LeaseInvariantHolds
<1>1. LeaseInvariant => Timed!CallsAreExclusive
  BY DEF LeaseInvariant, CallCovered, Timed!CallsAreExclusive
<1> QED BY <1>0, <1>1, PTL

(* The free row is the free lease.                                        *)
LEMMA LeaseStart == Timed!Init => Timed!Lease!Init
BY DEF Timed!Init, Timed!Lease!Init, Timed!Live

(* Replacing the liveness of a lease keeps its owner.                      *)
LEMMA RecordUpdate ==
    ASSUME NEW o, NEW a, NEW b
    PROVE  /\ [[owner |-> o, live |-> a] EXCEPT !.live = b] = [owner |-> o, live |-> b]
           /\ [owner |-> o, live |-> a].live = a
           /\ [owner |-> o, live |-> a].owner = o
OBVIOUS

(* The passing of the timeout is a lapse.                                 *)
LEMMA LapseStep == ASSUME Timed!Live = TRUE, Timed!Live' = FALSE, holder' = holder PROVE Timed!Lease!Lapse
<1>1. [owner |-> holder, live |-> Timed!Live].live = TRUE
  BY RecordUpdate
<1>2. [owner |-> holder, live |-> Timed!Live]' = [owner |-> holder, live |-> FALSE]
  OBVIOUS
<1>3. [[owner |-> holder, live |-> Timed!Live] EXCEPT !.live = FALSE] = [owner |-> holder, live |-> FALSE]
  BY RecordUpdate
<1> QED BY <1>1, <1>2, <1>3 DEF Timed!Lease!Lapse

(* A late fence revives the lease of its own worker.                      *)
LEMMA ReviveStep ==
    ASSUME Timed!Live = FALSE, Timed!Live' = TRUE, holder' = holder, holder # None PROVE Timed!Lease!Revive
<1>1. [owner |-> holder, live |-> Timed!Live].live = FALSE /\ [owner |-> holder, live |-> Timed!Live].owner = holder
  BY RecordUpdate
<1>2. [owner |-> holder, live |-> Timed!Live]' = [owner |-> holder, live |-> TRUE]
  OBVIOUS
<1>3. [[owner |-> holder, live |-> Timed!Live] EXCEPT !.live = TRUE] = [owner |-> holder, live |-> TRUE]
  BY RecordUpdate
<1> QED BY <1>1, <1>2, <1>3 DEF Timed!Lease!Revive

(* An acquisition takes the lease.                                        *)
LEMMA TakeStep ==
    ASSUME NEW w \in Worker, holder \in {None, w} \/ Timed!Live = FALSE,
           holder' = w, Timed!Live' = TRUE
    PROVE  Timed!Lease!Take(w)
BY DEF Timed!Lease!Take

(* A lease is live or not.                                                *)
LEMMA LiveBoolean == Timed!Live \in BOOLEAN /\ Timed!Live' \in BOOLEAN
BY DEF Timed!Live

(* Every step is a step of the exclusive lease or a stutter.              *)
LEMMA LeaseStep ==
    ASSUME Timed!WorkerLeaseAssumption, LeaseInvariant, [Timed!Next]_Timed!vars
    PROVE  [Timed!Lease!Next]_[owner |-> holder, live |-> Timed!Live]
<1> SUFFICES Timed!Lease!Next \/ (holder' = holder /\ Timed!Live' = Timed!Live)
  OBVIOUS
<1> USE DEF Timed!WorkerLeaseAssumption, LeaseInvariant, Timed!TypeOK, Timed!Idle, Timed!Time
<1>1. CASE Timed!Tick
  <2>1. holder' = holder /\ (Timed!Live' => Timed!Live)
    BY <1>1 DEF Timed!Tick, Timed!Live
  <2>2. Timed!Live' = Timed!Live \/ (Timed!Live = TRUE /\ Timed!Live' = FALSE)
    BY <2>1, LiveBoolean
  <2> QED BY <2>1, <2>2, LapseStep DEF Timed!Lease!Next
<1>2. ASSUME NEW w \in Worker, Timed!Acquire(w) PROVE Timed!Lease!Next
  <2>1. holder \in {None, w} \/ ~Timed!Live
    BY <1>2 DEF Timed!Acquire, Timed!Live
  <2>2. holder' = w /\ Timed!Live'
    BY <1>2 DEF Timed!Acquire, Timed!Live
  <2>3. (~Timed!Live => Timed!Live = FALSE) /\ (Timed!Live' => Timed!Live' = TRUE)
    BY LiveBoolean
  <2>4. Timed!Lease!Take(w)
    BY <2>1, <2>2, <2>3, TakeStep
  <2> QED BY <2>4 DEF Timed!Lease!Next
<1>3. ASSUME NEW w \in Worker, Timed!Heartbeat(w) PROVE holder' = holder /\ Timed!Live' = Timed!Live
  BY <1>3 DEF Timed!Heartbeat, Timed!Active, Timed!Live
<1>4. ASSUME NEW w \in Worker, Timed!FenceCommit(w)
      PROVE Timed!Lease!Next \/ (holder' = holder /\ Timed!Live' = Timed!Live)
  <2>1. Timed!Live' /\ holder' = holder /\ holder # None
    BY <1>4 DEF Timed!FenceCommit, Timed!Active, Timed!Live, FenceFresh
  <2>2. Timed!Live' = TRUE /\ (Timed!Live = TRUE \/ Timed!Live = FALSE)
    BY <2>1, LiveBoolean
  <2> QED BY <2>1, <2>2, ReviveStep DEF Timed!Lease!Next
<1>5. CASE UNCHANGED <<ticks, holder, dated>>
  BY <1>5 DEF Timed!Live
<1> QED
  BY <1>1, <1>2, <1>3, <1>4, <1>5
  DEF Timed!Next, Timed!FenceSample, Timed!FenceRaise, Timed!CallReturns, Timed!vars

(* The lease with its clock implements the lease without one, which is the *)
(* one TaskQueue is built on: no interleaving of late fences, heartbeats   *)
(* and acquisitions hands a live lease over.                               *)
THEOREM LeaseRefinement == ASSUME Timed!WorkerLeaseAssumption PROVE Timed!Spec => Timed!ImplementsLease
<1>0. Timed!Spec => []LeaseInvariant
  BY LeaseInvariantHolds
<1>1. Timed!Init => Timed!Lease!Init
  BY LeaseStart
<1>2. LeaseInvariant /\ [Timed!Next]_Timed!vars => [Timed!Lease!Next]_[owner |-> holder, live |-> Timed!Live]
  BY LeaseStep
<1> QED BY <1>0, <1>1, <1>2, PTL DEF Timed!Spec, Timed!ImplementsLease, Timed!Lease!Spec

=============================================================================
