----------------------------- MODULE TaskQueue -----------------------------
(***************************************************************************)
(* The background task system: work_jobs rows, the single task_lock lease, *)
(* worker processes that claim, execute and recover jobs, the batch plan   *)
(* each execution job drives, and the user's pause, resume, cancel, retry  *)
(* and delete requests.                                                    *)
(*                                                                         *)
(* Every action that writes is one BEGIN IMMEDIATE transaction of the code *)
(* (SQLite admits one writer at a time), so an action is atomic and any    *)
(* two transactions interleave.  Time is abstract: the lease is live or    *)
(* not (WorkerLease refines this with a clock).                            *)
(***************************************************************************)
EXTENDS Naturals, FiniteSets

CONSTANTS
    Worker,     \* worker incarnations; every process start draws a fresh id
    Plan,       \* batch plans
    MaxJob,     \* bound on the ids of work_jobs rows
    MaxItem,    \* items per plan
    MaxLapses,  \* how often the lease of a running worker may expire
    MaxFaults,  \* how often a clean-up or a heartbeat transaction may raise
    None

ASSUME TaskQueueAssumption ==
    /\ MaxJob \in Nat /\ MaxItem \in Nat \ {0}
    /\ MaxLapses \in Nat /\ MaxFaults \in Nat
    /\ None \notin Worker \cup Plan

VARIABLES
    lock,       \* task_locks row 1: its owner and whether its age is within the timeout
    job,        \* work_jobs rows by id
    plan,       \* batch_plans.status
    item,       \* batch_plan_items.state, per plan and sequence
    pc,         \* where each worker process is
    cur,        \* the job a worker is processing, 0 if none
    pid,        \* plan_id of the running handler, None if none
    at,         \* the sequence the handler's loop over the items has reached
    todo,       \* recover_interrupted_jobs: candidate ids not yet handled
    orphans,    \* _repair_orphaned_executing_plans: candidates not yet handled
    lost,       \* lease_lost_event of each worker
    lapses,     \* expiries of a running worker's lease so far
    faults,     \* clean-up and heartbeat transactions that raised so far
    abandoned   \* in-flight jobs whose clean-up raised (history variable)

db == <<job, plan, item>>
local == <<pc, cur, pid, at, todo, orphans, lost>>
env == <<lapses, faults, abandoned>>
vars == <<lock, job, plan, item, pc, cur, pid, at, todo, orphans, lost, lapses, faults, abandoned>>

-----------------------------------------------------------------------------
JobId == 1..MaxJob
Item == 1..MaxItem

InFlight == {"running", "cancel_requested"}
Active == InFlight \cup {"queued", "paused"}
Terminal == {"cancelled", "failed", "completed"}
JobStatus == Active \cup Terminal \cup {"absent"}

(* "exec" is batch-plan-execute; "scan" stands for fclones-scan, a kind   *)
(* that can be cancelled and retried but neither paused nor resumed.       *)
Kind == {"exec", "scan"}
Pausable == {"exec"}
Resumable == {"exec"}
ResourceControlled == {"scan"}

(* "draft", "frozen" and an item's "stale" come from PlanLifecycle only.    *)
PlanStatus == {"absent", "draft", "frozen", "ready", "partial", "stale", "executing", "completed", "failed"}
ItemState == {"absent", "planned", "validated", "stale", "executing", "completed", "failed", "skipped"}
Outcome == {"completed", "failed", "skipped"}

NoJob == [st |-> "absent", kind |-> "scan", plan |-> None, ckpt |-> FALSE, pause |-> FALSE]
NewJob(k, p) == [st |-> "queued", kind |-> k, plan |-> p, ckpt |-> FALSE, pause |-> FALSE]
JobRecord == [st: JobStatus, kind: Kind, plan: Plan \cup {None}, ckpt: BOOLEAN, pause: BOOLEAN]

(* The places inside handler.run, in the order an execution visits them.   *)
Handler == {"begin", "reconcile", "ready", "fresh", "abort",
            "next", "intent", "item", "post", "last", "work"}
Processing == Handler \cup {"claimed", "finish", "failing"}
Unwinding == {"pausing", "cancelling", "failing"}
Recovering == {"list", "recover", "repair"}
PC == Processing \cup Unwinding \cup Recovering \cup {"new", "acquire", "idle", "dead"}

Present(j) == job[j].st # "absent"
InFlightJobs == {j \in JobId : job[j].st \in InFlight}
ActiveExec(p) == {j \in JobId : job[j].kind = "exec" /\ job[j].plan = p /\ job[j].st \in Active}
TerminalExec(p) == {j \in JobId : job[j].kind = "exec" /\ job[j].plan = p /\ job[j].st \in Terminal}

(* INTEGER PRIMARY KEY without AUTOINCREMENT: one more than the highest id *)
(* in the table, so the id of a deleted newest job is used again.          *)
NextId(j) == /\ \A k \in JobId : Present(k) => k < j
             /\ j = 1 \/ \E k \in JobId : k = j - 1 /\ Present(k)

HoldsAnyOwner(w) == lock.live
HoldsUnexpiredOrNot(w) == lock.owner = w
Holds(w) == lock.owner = w /\ lock.live

Go(w, l) == pc' = [pc EXCEPT ![w] = l]
Leave(w, l) == /\ Go(w, l)
               /\ cur' = [cur EXCEPT ![w] = 0]
               /\ pid' = [pid EXCEPT ![w] = None]
               /\ at' = [at EXCEPT ![w] = 0]
SetStatus(j, s) == job' = [job EXCEPT ![j].st = s]

-----------------------------------------------------------------------------
(* sync_batch_plan_status: the plan's status after its job reached target, *)
(* given the states of its items.  No item state is ever "pending", so the *)
(* branch that would make a cancelled plan ready again needs none of them. *)
SyncedStatus(p, target) ==
    LET states == {item[p][i] : i \in Item} IN
    CASE target = "running" -> "executing"
      [] target = "paused" -> IF "completed" \in states THEN "partial" ELSE plan[p]
      [] target \in Terminal /\ states = {"completed"} -> "completed"
      [] target \in Terminal /\ states # {"completed"}
            /\ states \cap {"completed", "failed"} # {} -> "partial"
      [] target \in Terminal /\ states \cap {"completed", "failed"} = {} ->
            IF target = "cancelled" /\ states \subseteq {"pending"} THEN "ready"
            ELSE IF target = "completed" THEN "partial"
            ELSE "failed"

(* Only a batch-plan-execute job is linked to a plan, which may be deleted. *)
SyncPlan(j, target) ==
    LET p == job[j].plan IN
    plan' = IF job[j].kind = "exec" /\ p \in Plan /\ plan[p] # "absent"
            THEN [plan EXCEPT ![p] = SyncedStatus(p, target)]
            ELSE plan

-----------------------------------------------------------------------------
(* Nobody works, and the queue is empty.                                   *)
QueueInit ==
    /\ lock = [owner |-> None, live |-> FALSE]
    /\ job = [j \in JobId |-> NoJob]
    /\ pc = [w \in Worker |-> "new"]
    /\ cur = [w \in Worker |-> 0]
    /\ pid = [w \in Worker |-> None]
    /\ at = [w \in Worker |-> 0]
    /\ todo = [w \in Worker |-> {}]
    /\ orphans = [w \in Worker |-> {}]
    /\ lost = [w \in Worker |-> FALSE]
    /\ lapses = 0
    /\ faults = 0
    /\ abandoned = {}

(* The plans have been validated, and some items skipped.                  *)
Init ==
    /\ QueueInit
    /\ item \in [Plan -> [Item -> {"validated", "skipped"}]]
    /\ plan = [p \in Plan |-> IF \E i \in Item : item[p][i] = "skipped" THEN "partial" ELSE "ready"]

-----------------------------------------------------------------------------
(* The lease.                                                              *)

Start(w) == /\ pc[w] = "new"
            /\ Go(w, "acquire")
            /\ UNCHANGED <<lock, db, cur, pid, at, todo, orphans, lost, env>>

AcquireStealing(w) ==
    /\ pc[w] = "acquire"
    /\ lock' = [owner |-> w, live |-> TRUE]
    /\ Go(w, "list")
    /\ UNCHANGED <<db, cur, pid, at, todo, orphans, lost, env>>

AcquireSkippingRecovery(w) ==
    /\ pc[w] = "acquire"
    /\ lock.owner \in {None, w} \/ ~lock.live
    /\ lock' = [owner |-> w, live |-> TRUE]
    /\ Go(w, "idle")
    /\ UNCHANGED <<db, cur, pid, at, todo, orphans, lost, env>>

(* Free, own or expired: take it, and recover before claiming anything.    *)
Acquire(w) ==
    /\ pc[w] = "acquire"
    /\ lock.owner \in {None, w} \/ ~lock.live
    /\ lock' = [owner |-> w, live |-> TRUE]
    /\ Go(w, "list")
    /\ UNCHANGED <<db, cur, pid, at, todo, orphans, lost, env>>

(* No renewal for longer than the timeout: a dead owner, or one that stalls. *)
Lapse ==
    /\ lock.live
    /\ lock' = [lock EXCEPT !.live = FALSE]
    /\ IF pc[lock.owner] = "dead" THEN UNCHANGED lapses
       ELSE lapses < MaxLapses /\ lapses' = lapses + 1
    /\ UNCHANGED <<db, local, faults, abandoned>>

(* A fence of the handler read the clock, waited for the writer lock, and  *)
(* renewed a lease that had lapsed meanwhile (see WorkerLease).            *)
LateFence(w) ==
    /\ pc[w] \in {"reconcile", "item"}
    /\ lock.owner = w /\ ~lock.live
    /\ lock' = [lock EXCEPT !.live = TRUE]
    /\ UNCHANGED <<db, local, env>>

(* update_worker_heartbeat answered False, because the lease is gone or    *)
(* because its transaction raised: the thread sets lease_lost_event.  A    *)
(* worker that polls for the lease clears the event before each attempt.   *)
HeartbeatRefused(w) ==
    /\ pc[w] \notin {"new", "dead", "acquire"} /\ ~lost[w]
    /\ IF Holds(w) THEN faults < MaxFaults /\ faults' = faults + 1 ELSE UNCHANGED faults
    /\ lost' = [lost EXCEPT ![w] = TRUE]
    /\ UNCHANGED <<lock, db, pc, cur, pid, at, todo, orphans, lapses, abandoned>>

(* The loop reads the event before it claims.                              *)
NoticeLeaseLost(w) ==
    /\ pc[w] = "idle" /\ lost[w]
    /\ lost' = [lost EXCEPT ![w] = FALSE]
    /\ Go(w, "acquire")
    /\ UNCHANGED <<lock, db, cur, pid, at, todo, orphans, env>>

(* JobLeaseLost: the transaction rolls back and the worker re-acquires.    *)
LeaseLost(w) ==
    /\ pc[w] \in (Processing \cup {"idle", "cancelling"}) /\ ~Holds(w)
    /\ Leave(w, "acquire")
    /\ UNCHANGED <<lock, db, todo, orphans, lost, env>>

(* The process dies; someone else is there to carry on.                    *)
Crash(w) ==
    /\ pc[w] \notin {"new", "dead"}
    /\ \E v \in Worker \ {w} : pc[v] # "dead"
    /\ Leave(w, "dead")
    /\ todo' = [todo EXCEPT ![w] = {}]
    /\ orphans' = [orphans EXCEPT ![w] = {}]
    /\ lost' = [lost EXCEPT ![w] = FALSE]
    /\ UNCHANGED <<lock, db, env>>

-----------------------------------------------------------------------------
(* Recovery after every acquisition.                                       *)

RecoveryLeaseLost(w) ==
    /\ pc[w] \in {"list", "recover", "repair"} /\ (pc[w] = "repair" => orphans[w] # {})
    /\ pc[w] = "recover" => todo[w] # {}
    /\ ~Holds(w)
    /\ Go(w, "idle")
    /\ todo' = [todo EXCEPT ![w] = {}]
    /\ orphans' = [orphans EXCEPT ![w] = {}]
    /\ UNCHANGED <<lock, db, cur, pid, at, lost, env>>

ListRunningOnly(w) ==
    /\ pc[w] = "list" /\ Holds(w)
    /\ todo' = [todo EXCEPT ![w] = {j \in JobId : job[j].st = "running"}]
    /\ Go(w, "recover")
    /\ UNCHANGED <<lock, db, cur, pid, at, orphans, lost, env>>

ListInterrupted(w) ==
    /\ pc[w] = "list" /\ Holds(w)
    /\ todo' = [todo EXCEPT ![w] = InFlightJobs]
    /\ Go(w, "recover")
    /\ UNCHANGED <<lock, db, cur, pid, at, orphans, lost, env>>

(* One candidate, lowest id first, by its status at the time it is reached. *)
RecoverJob(w) ==
    /\ pc[w] = "recover" /\ Holds(w)
    /\ \E j \in todo[w] :
        /\ \A k \in todo[w] : j <= k
        /\ todo' = [todo EXCEPT ![w] = @ \ {j}]
        /\ abandoned' = abandoned \ {j}
        /\ \/ /\ job[j].st = "cancel_requested"
              /\ SetStatus(j, "cancelled") /\ SyncPlan(j, "cancelled")
           \/ /\ job[j].st = "running"
              /\ job[j].kind \in Resumable /\ job[j].ckpt
              /\ SetStatus(j, "queued") /\ UNCHANGED plan
           \/ /\ job[j].st = "running"
              /\ ~(job[j].kind \in Resumable /\ job[j].ckpt)
              /\ SetStatus(j, "failed") /\ SyncPlan(j, "failed")
           \/ job[j].st \notin InFlight /\ UNCHANGED <<job, plan>>
    /\ UNCHANGED <<lock, item, pc, cur, pid, at, orphans, lost, lapses, faults>>

(* All candidates done: read the plans that are still executing.           *)
ListOrphans(w) ==
    /\ pc[w] = "recover" /\ todo[w] = {}
    /\ orphans' = [orphans EXCEPT ![w] = {p \in Plan : plan[p] = "executing"}]
    /\ Go(w, "repair")
    /\ UNCHANGED <<lock, db, cur, pid, at, todo, lost, env>>

RepairKeepsOrphans(w) ==
    /\ pc[w] = "repair" /\ Holds(w)
    /\ \E p \in orphans[w] : orphans' = [orphans EXCEPT ![w] = @ \ {p}]
    /\ UNCHANGED <<lock, db, pc, cur, pid, at, todo, lost, env>>

(* Rewrite an executing plan only on the evidence of its newest terminal   *)
(* job, and only when no job of it is active.                              *)
RepairPlan(w) ==
    /\ pc[w] = "repair" /\ Holds(w)
    /\ \E p \in orphans[w] :
        /\ orphans' = [orphans EXCEPT ![w] = @ \ {p}]
        /\ \/ /\ plan[p] = "executing" /\ ActiveExec(p) = {}
              /\ \E j \in TerminalExec(p) :
                    /\ \A k \in TerminalExec(p) : k <= j
                    /\ SyncPlan(j, job[j].st)
           \/ /\ plan[p] # "executing" \/ ActiveExec(p) # {} \/ TerminalExec(p) = {}
              /\ UNCHANGED plan
    /\ UNCHANGED <<lock, job, item, pc, cur, pid, at, todo, lost, env>>

RecoveryDone(w) ==
    /\ pc[w] = "repair" /\ orphans[w] = {}
    /\ Go(w, "idle")
    /\ UNCHANGED <<lock, db, cur, pid, at, todo, orphans, lost, env>>

-----------------------------------------------------------------------------
(* Claiming.                                                               *)

LowestQueued(K) == {j \in JobId : /\ job[j].st = "queued" /\ job[j].kind \in K
                                  /\ \A i \in JobId : job[i].st = "queued" /\ job[i].kind \in K => j <= i}

CandidatesScansFirst ==
    LET free == LowestQueued(Kind \ ResourceControlled)
        held == LowestQueued(ResourceControlled) IN
    {IF held # {} THEN held ELSE free}

(* What a claim may pick: the resource policy and the clock decide whether *)
(* resource-controlled kinds are admitted, and whether they come last.     *)
Candidates ==
    LET free == LowestQueued(Kind \ ResourceControlled)
        held == LowestQueued(ResourceControlled) IN
    {free, IF free # {} THEN free ELSE held, LowestQueued(Kind)}

Claim(w) ==
    /\ pc[w] = "idle" /\ Holds(w)
    /\ \E j \in UNION Candidates :
        /\ SetStatus(j, "running")
        /\ cur' = [cur EXCEPT ![w] = j]
    /\ Go(w, "claimed")
    /\ UNCHANGED <<lock, plan, item, pid, at, todo, orphans, lost, env>>

(* Nothing admitted is queued: sleep poll_seconds.                         *)
PollEmpty(w) ==
    /\ pc[w] = "idle" /\ Holds(w) /\ {} \in Candidates
    /\ UNCHANGED vars

-----------------------------------------------------------------------------
(* process_work_job: preflight, handler.run, finalisation.                 *)

Preflight(w) ==
    /\ pc[w] = "claimed" /\ Holds(w)
    /\ LET j == cur[w] IN
       \/ /\ ~Present(j)
          /\ Leave(w, "acquire") /\ UNCHANGED <<job, plan>>
       \/ /\ job[j].st = "cancel_requested"
          /\ SetStatus(j, "cancelled") /\ SyncPlan(j, "cancelled") /\ Leave(w, "idle")
       \/ /\ job[j].st \in Terminal \cup {"paused"}
          /\ Leave(w, "idle") /\ UNCHANGED <<job, plan>>
       \/ /\ job[j].st \in {"queued", "running"}
          /\ SetStatus(j, "running") /\ SyncPlan(j, "running")
          /\ Go(w, IF job[j].kind = "exec" THEN "begin" ELSE "work")
          /\ pid' = [pid EXCEPT ![w] = job[j].plan]
          /\ UNCHANGED <<cur, at>>
    /\ UNCHANGED <<lock, item, todo, orphans, lost, env>>

(* JobContext.checkpoint: a pending cancel wins over a pending pause; a    *)
(* cancel is committed here without the linked plan, which the unwinding   *)
(* worker syncs in a transaction of its own.                               *)
Checkpoint(w, saves, next) ==
    LET j == cur[w] IN
    /\ Holds(w)
    /\ \/ /\ ~Present(j) \/ (job[j].st \notin InFlight /\ job[j].pause)
          /\ Go(w, "failing") /\ UNCHANGED job
       \/ /\ job[j].st = "cancel_requested"
          /\ SetStatus(j, "cancelled") /\ Go(w, "cancelling")
       \/ /\ job[j].st = "running" /\ job[j].pause
          /\ job' = [job EXCEPT ![j].st = "paused", ![j].ckpt = @ \/ saves]
          /\ Go(w, "pausing")
       \/ /\ Present(j) /\ job[j].st # "cancel_requested" /\ ~job[j].pause
          /\ job' = [job EXCEPT ![j].ckpt = @ \/ saves]
          /\ Go(w, next)
    /\ UNCHANGED <<lock, plan, item, cur, pid, todo, orphans, lost, env>>

(* The loop goes through the items once, by sequence, and passes over      *)
(* those that are done.                                                    *)
Pending(p) == {i \in Item : item[p][i] \notin Outcome}
IsNextItem(w, i) == /\ i \in Pending(pid[w]) /\ at[w] < i
                    /\ \A k \in Pending(pid[w]) : at[w] < k => i <= k

Begin(w) == pc[w] = "begin" /\ Checkpoint(w, TRUE, "reconcile") /\ UNCHANGED at
Ready(w) == pc[w] = "ready" /\ Checkpoint(w, FALSE, "fresh") /\ UNCHANGED at
Boundary(w) == /\ pc[w] = "next"
               /\ \E i \in Item : IsNextItem(w, i) /\ at' = [at EXCEPT ![w] = i]
               /\ Checkpoint(w, TRUE, "intent")
LastCheckpoint(w) == /\ pc[w] \in {"abort", "last"}
                     /\ Checkpoint(w, FALSE, "finish") /\ UNCHANGED at

(* A scan polls its checkpoint until fclones and the import are done.      *)
WorkPoll(w) == pc[w] = "work" /\ Checkpoint(w, FALSE, "work") /\ UNCHANGED at
WorkDone(w) == pc[w] = "work" /\ Checkpoint(w, FALSE, "finish") /\ UNCHANGED at

ReconcileNothing(w) ==
    /\ pc[w] = "reconcile" /\ Holds(w)
    /\ plan' = [plan EXCEPT ![pid[w]] = "executing"]
    /\ Go(w, "ready")
    /\ UNCHANGED <<lock, job, item, cur, pid, at, todo, orphans, lost, env>>

(* Items a dead worker left executing are settled from what is on disk.    *)
Reconcile(w) ==
    /\ pc[w] = "reconcile" /\ Holds(w)
    /\ LET p == pid[w] IN
       /\ plan' = [plan EXCEPT ![p] = "executing"]
       /\ \E out \in [Item -> {"planned", "completed", "failed"}] :
            item' = [item EXCEPT ![p] =
                        [i \in Item |-> IF @[i] = "executing" THEN out[i] ELSE @[i]]]
    /\ Go(w, "ready")
    /\ UNCHANGED <<lock, job, cur, pid, at, todo, orphans, lost, env>>

(* The verdict of a failed freshness check: the items fail, and the plan   *)
(* is stale unless something of it was already done.                       *)
Stale(p, S) ==
    /\ item' = [item EXCEPT ![p] = [i \in Item |-> IF i \in S THEN "failed" ELSE @[i]]]
    /\ plan' = [plan EXCEPT ![p] =
                    IF \E i \in Item : item[p][i] = "completed" THEN "partial" ELSE "stale"]

(* Freshness of every unexecuted item before the first mutation.           *)
Fresh(w) ==
    /\ pc[w] = "fresh" /\ Holds(w)
    /\ LET p == pid[w] IN
       \/ Go(w, "next") /\ UNCHANGED <<plan, item>>
       \/ \E S \in SUBSET Pending(p) :
            S # {} /\ Stale(p, S) /\ Go(w, "abort")
    /\ UNCHANGED <<lock, job, cur, pid, at, todo, orphans, lost, env>>

(* Freshness at the item's boundary, and again right before its mutation.  *)
ItemStale(w) ==
    /\ Holds(w)
    /\ \E i \in Item : /\ \/ pc[w] = "next" /\ IsNextItem(w, i)
                          \/ pc[w] = "item" /\ i = at[w]
                       /\ Stale(pid[w], {i})
    /\ Go(w, "post")
    /\ UNCHANGED <<lock, job, cur, pid, at, todo, orphans, lost, env>>

SetItem(p, i, s) == item' = [item EXCEPT ![p][i] = s]

(* Phase 1: the intent is durable before the filesystem is touched.  The    *)
(* item may be done by now only if a request rewrote it (PlanLifecycle).   *)
Intent(w) ==
    /\ pc[w] = "intent" /\ Holds(w)
    /\ LET p == pid[w] IN
       \/ item[p][at[w]] \in Outcome /\ Go(w, "next") /\ UNCHANGED item
       \/ /\ item[p][at[w]] \notin Outcome
          /\ SetItem(p, at[w], "executing") /\ Go(w, "item")
       \/ /\ item[p][at[w]] \notin Outcome
          /\ \E s \in {"failed", "skipped"} : SetItem(p, at[w], s)
          /\ Go(w, "next")
    /\ UNCHANGED <<lock, job, plan, cur, pid, at, todo, orphans, lost, env>>

(* Phases 2 and 3: the mutation is done, its outcome is committed, and     *)
(* that of the clean-up paired with a move; some failures stop the loop.   *)
SetPair(p, i, s, t) ==
    item' = [item EXCEPT ![p] = [k \in Item |-> IF k = i THEN s ELSE IF k = i + 1 THEN t ELSE @[k]]]
ItemResult(w) ==
    /\ pc[w] = "item" /\ Holds(w)
    /\ LET p == pid[w]
           i == at[w] IN
       \/ \E s \in Outcome : SetItem(p, i, s) /\ Go(w, "next")
       \/ \E s, t \in Outcome :
            /\ i + 1 \in Item
            /\ s = "completed" \/ t = "failed"
            /\ SetPair(p, i, s, t) /\ Go(w, "next")
       \/ SetItem(p, i, "failed") /\ Go(w, "post")
    /\ UNCHANGED <<lock, job, plan, cur, pid, at, todo, orphans, lost, env>>

NoItemLeft(w) ==
    /\ pc[w] = "next" /\ \A i \in Item : ~IsNextItem(w, i)
    /\ Go(w, "post")
    /\ UNCHANGED <<lock, db, cur, pid, at, todo, orphans, lost, env>>

(* The handler's own verdict on the plan.                                  *)
PostLoop(w) ==
    /\ pc[w] = "post" /\ Holds(w)
    /\ LET p == pid[w]
           states == {item[p][i] : i \in Item} IN
       plan' = [plan EXCEPT ![p] = IF states = {"completed"} THEN "completed"
                                   ELSE IF "completed" \in states THEN "partial"
                                   ELSE IF states \cap {"stale", "failed"} # {} THEN "stale"
                                   ELSE "partial"]
    /\ Go(w, "last")
    /\ UNCHANGED <<lock, job, item, cur, pid, at, todo, orphans, lost, env>>

(* Any other exception out of the preflight, the handler or finalisation.  *)
Raise(w) == /\ pc[w] \in Handler \cup {"claimed", "finish"}
            /\ Go(w, "failing")
            /\ UNCHANGED <<lock, db, cur, pid, at, todo, orphans, lost, env>>

FinishIgnoringPlan(w) ==
    /\ pc[w] = "finish" /\ Holds(w)
    /\ LET j == cur[w] IN
       \/ job[j].st = "running" /\ SetStatus(j, "completed") /\ SyncPlan(j, "completed")
       \/ job[j].st = "cancel_requested" /\ SetStatus(j, "cancelled") /\ SyncPlan(j, "cancelled")
       \/ job[j].st \notin InFlight /\ UNCHANGED <<job, plan>>
    /\ Leave(w, "idle")
    /\ UNCHANGED <<lock, item, todo, orphans, lost, env>>

(* Finalisation: a job is completed only if its plan is; a cancel that     *)
(* arrived after the last checkpoint still wins.                           *)
Finish(w) ==
    /\ pc[w] = "finish" /\ Holds(w)
    /\ LET j == cur[w] IN
       \/ /\ job[j].st = "running"
          /\ SyncPlan(j, "completed")
          /\ SetStatus(j, IF job[j].kind = "exec" /\ SyncedStatus(job[j].plan, "completed") # "completed"
                          THEN "failed" ELSE "completed")
       \/ /\ job[j].st = "cancel_requested"
          /\ SetStatus(j, "cancelled") /\ SyncPlan(j, "cancelled")
       \/ job[j].st \notin InFlight /\ UNCHANGED <<job, plan>>
    /\ Leave(w, "idle")
    /\ UNCHANGED <<lock, item, todo, orphans, lost, env>>

(* The exception handlers of process_work_job, each a transaction of its own. *)
Failing(w) ==
    /\ pc[w] = "failing" /\ Holds(w)
    /\ LET j == cur[w] IN
       \/ /\ Present(j) /\ job[j].st \notin {"cancelled", "paused"}
          /\ SetStatus(j, "failed") /\ SyncPlan(j, "failed")
       \/ /\ ~Present(j) \/ job[j].st \in {"cancelled", "paused"}
          /\ UNCHANGED <<job, plan>>
    /\ Leave(w, "acquire")
    /\ UNCHANGED <<lock, item, todo, orphans, lost, env>>

SyncAfterUnwinding(w, target) ==
    /\ IF Present(cur[w]) THEN SyncPlan(cur[w], target) ELSE UNCHANGED plan
    /\ Leave(w, "idle")
    /\ UNCHANGED <<lock, job, item, todo, orphans, lost, env>>

CancellingUnfenced(w) == pc[w] = "cancelling" /\ SyncAfterUnwinding(w, "cancelled")

Cancelling(w) == pc[w] = "cancelling" /\ Holds(w) /\ SyncAfterUnwinding(w, "cancelled")

(* Unlike the other two, this one does not ask for the lease.              *)
Pausing(w) == pc[w] = "pausing" /\ SyncAfterUnwinding(w, "paused")

(* The clean-up transaction raises too (say, the database is locked): the  *)
(* loop swallows it and goes on to claim.                                  *)
SwallowedError(w) ==
    /\ pc[w] \in Unwinding /\ faults < MaxFaults
    /\ faults' = faults + 1
    /\ abandoned' = IF Holds(w) THEN abandoned \cup ({cur[w]} \cap InFlightJobs) ELSE abandoned
    /\ Leave(w, "idle")
    /\ UNCHANGED <<lock, db, todo, orphans, lost, lapses>>

-----------------------------------------------------------------------------
(* Requests of the users.                                                  *)

quiet == <<lock, item, local, env>>

EnqueueUnchecked(p) ==
    /\ plan[p] \in {"ready", "partial"}
    /\ \E j \in JobId : NextId(j) /\ job' = [job EXCEPT ![j] = NewJob("exec", p)]
    /\ UNCHANGED <<plan, quiet>>

(* The transaction that ends enqueue_plan_execution.                       *)
EnqueuePlan(p) ==
    /\ plan[p] \in {"ready", "partial"} /\ ActiveExec(p) = {}
    /\ \E j \in JobId : NextId(j) /\ job' = [job EXCEPT ![j] = NewJob("exec", p)]
    /\ UNCHANGED <<plan, quiet>>

StartScan ==
    /\ \E j \in JobId : NextId(j) /\ job' = [job EXCEPT ![j] = NewJob("scan", None)]
    /\ UNCHANGED <<plan, quiet>>

(* Repeating a pause of a paused job answers without a change.             *)
Pause(j) ==
    /\ job[j].kind \in Pausable
    /\ \/ job[j].st = "queued" /\ SetStatus(j, "paused")
       \/ job[j].st = "running" /\ job' = [job EXCEPT ![j].pause = TRUE]
    /\ UNCHANGED <<plan, quiet>>

Resume(j) ==
    /\ job[j].kind \in Resumable /\ job[j].st = "paused"
    /\ job' = [job EXCEPT ![j].st = "queued", ![j].pause = FALSE]
    /\ UNCHANGED <<plan, quiet>>

(* A job nobody runs is cancelled at once, with its plan; a running one is *)
(* asked to stop at its next checkpoint.                                   *)
Cancel(j) ==
    /\ \/ job[j].st \in {"queued", "paused"} /\ SetStatus(j, "cancelled") /\ SyncPlan(j, "cancelled")
       \/ job[j].st = "running" /\ SetStatus(j, "cancel_requested") /\ UNCHANGED plan
    /\ UNCHANGED quiet

(* A failed job is retried by a new one, for a plan that may still run.    *)
Retry(j) ==
    /\ job[j].st = "failed"
    /\ job[j].kind = "exec" => plan[job[j].plan] \in {"ready", "partial"} /\ ActiveExec(job[j].plan) = {}
    /\ \E k \in JobId : NextId(k) /\ job' = [job EXCEPT ![k] = NewJob(job[j].kind, job[j].plan)]
    /\ UNCHANGED <<plan, quiet>>

Delete(j) ==
    /\ job[j].st \in Terminal
    /\ job' = [job EXCEPT ![j] = NoJob]
    /\ UNCHANGED <<plan, quiet>>

ClearHistory(S) ==
    /\ \E j \in JobId : job[j].st \in S
    /\ job' = [j \in JobId |-> IF job[j].st \in S THEN NoJob ELSE job[j]]
    /\ UNCHANGED <<plan, quiet>>

-----------------------------------------------------------------------------
(* Steps a worker process takes by itself as long as it runs.              *)
Progress(w) ==
    \/ Start(w) \/ Acquire(w) \/ NoticeLeaseLost(w) \/ LeaseLost(w)
    \/ RecoveryLeaseLost(w) \/ ListInterrupted(w) \/ RecoverJob(w)
    \/ ListOrphans(w) \/ RepairPlan(w) \/ RecoveryDone(w)
    \/ Claim(w) \/ Preflight(w) \/ WorkDone(w)
    \/ Begin(w) \/ Reconcile(w) \/ Ready(w) \/ Fresh(w)
    \/ Boundary(w) \/ ItemStale(w) \/ Intent(w) \/ ItemResult(w)
    \/ NoItemLeft(w) \/ PostLoop(w) \/ LastCheckpoint(w)
    \/ Finish(w) \/ Failing(w) \/ Cancelling(w) \/ Pausing(w)

(* What happens to a worker, and the polls that change nothing for good.   *)
Mishap(w) == \/ LateFence(w) \/ HeartbeatRefused(w) \/ Crash(w) \/ Raise(w) \/ SwallowedError(w)
             \/ PollEmpty(w) \/ WorkPoll(w)

TaskRequest == \/ StartScan
               \/ \E j \in JobId : Pause(j) \/ Resume(j) \/ Cancel(j) \/ Retry(j) \/ Delete(j)
               \/ \E S \in SUBSET Terminal : ClearHistory(S)

Request == TaskRequest \/ \E p \in Plan : EnqueuePlan(p)

Next == \/ Lapse
        \/ \E w \in Worker : Progress(w) \/ Mishap(w)
        \/ Request

Spec == Init /\ [][Next]_vars

(* A running process keeps executing and the lease of a dead one times out; *)
(* nobody has to make a request, and a scan ends.                          *)
LapseOfDead == lock.live /\ pc[lock.owner] = "dead" /\ Lapse

FairSpec == Spec /\ WF_vars(LapseOfDead) /\ \A w \in Worker : WF_vars(Progress(w))

-----------------------------------------------------------------------------
(* Every variable keeps its shape.                                         *)
LockOK == /\ lock \in [owner: Worker \cup {None}, live: BOOLEAN]
          /\ lock.live => lock.owner \in Worker
JobOK == /\ job \in [JobId -> JobRecord]
         /\ \A j \in JobId : job[j].kind = "exec" => job[j].plan \in Plan
PlanOK == /\ plan \in [Plan -> PlanStatus]
          /\ item \in [Plan -> [Item -> ItemState]]
ControlOK == /\ pc \in [Worker -> PC]
             /\ cur \in [Worker -> {0} \cup JobId]
             /\ pid \in [Worker -> Plan \cup {None}]
             /\ \A w \in Worker : /\ pc[w] \in Processing \cup Unwinding => cur[w] \in JobId
                                  /\ pc[w] \in Handler \ {"work"} => pid[w] \in Plan
LoopOK == /\ at \in [Worker -> Item \cup {0}]
          /\ \A w \in Worker : pc[w] \in {"intent", "item"} => at[w] \in Item
LocalOK == /\ todo \in [Worker -> SUBSET JobId]
           /\ orphans \in [Worker -> SUBSET Plan]
           /\ lost \in [Worker -> BOOLEAN]
EnvOK == /\ lapses \in 0..MaxLapses
         /\ faults \in 0..MaxFaults
         /\ abandoned \subseteq JobId
TypeOK == LockOK /\ JobOK /\ PlanOK /\ ControlOK /\ LoopOK /\ LocalOK /\ EnvOK

(* A plan never has two execution jobs that may still run, whatever        *)
(* enqueues, retries, resumes and recoveries interleave: the checks of     *)
(* enqueue_plan_execution and retry_task are all that prevents it.         *)
OneActiveJobPerPlan ==
    \A p \in Plan : \A i, j \in ActiveExec(p) : i = j

(* The worker on record as owner processes a job that is still its own to  *)
(* run: nobody has requeued, failed or deleted it, even if the lease has   *)
(* lapsed meanwhile.  The handler's writes rely on it: they check the      *)
(* lease and not the job's status.                                         *)
HandlerJobInFlight ==
    \A w \in Worker : lock.owner = w /\ pc[w] \in Processing => job[cur[w]].st \in InFlight

(* A worker that may claim has no interrupted job left behind: recovery    *)
(* settles every job that was running or asked to cancel, except one whose *)
(* clean-up raised under this very lease.                                  *)
NoForgottenJob ==
    \A w \in Worker : Holds(w) /\ pc[w] = "idle" => InFlightJobs \subseteq abandoned

(* One worker, one job: no two jobs are in flight at the same time.        *)
SingleFlight ==
    \A i, j \in InFlightJobs \ abandoned : i = j

(* No new item is begun while the outcome of an earlier intent is unknown: *)
(* past reconciliation a plan has an executing item only during that       *)
(* item's own mutation, and then exactly one.                              *)
NoUnsettledIntent ==
    \A w \in Worker :
        LET open == {i \in Item : item[pid[w]][i] = "executing"} IN
        lock.owner = w =>
            /\ pc[w] \in {"ready", "fresh", "next", "intent", "abort", "post", "last"} => open = {}
            /\ pc[w] = "item" => open = {at[w]}

(* Success is reported only for work that was done: a completed plan, or a *)
(* plan with a completed execution job, has only completed items, as far   *)
(* as workers and task requests go.                                        *)
NoFalseSuccess ==
    \A p \in Plan :
        plan[p] = "completed" \/ (\E j \in TerminalExec(p) : job[j].st = "completed")
            => \A i \in Item : item[p][i] = "completed"

(* The queue uses its lock as ExclusiveLease promises, whatever crashes,   *)
(* lapses and late fences interleave.                                      *)
Lease == INSTANCE ExclusiveLease
ImplementsLease == Lease!Spec

Acts(w) == pc'[w] # pc[w] \/ todo'[w] # todo[w] \/ orphans'[w] # orphans[w]

(* A worker whose lease is gone changes no row, except in the transaction  *)
(* that follows a pause.                                                   *)
FencedWrites ==
    [][\A w \in Worker : Acts(w) /\ ~Holds(w) /\ pc[w] # "pausing" => UNCHANGED db]_vars

-----------------------------------------------------------------------------
(* A job in flight does not stay so for ever: whoever dies or loses the    *)
(* lease, it finishes, is paused, or is recovered.                         *)
InFlightSettles == \A j \in JobId : job[j].st \in InFlight ~> job[j].st \notin InFlight

(* The first execution in the queue does not wait for ever, whatever       *)
(* resource-controlled jobs keep coming.                                   *)
FirstInLineRuns ==
    \A j \in JobId : j \in LowestQueued(Kind \ ResourceControlled)
                      ~> j \notin LowestQueued(Kind \ ResourceControlled)

(* A plan whose last job ended while it stayed executing (its worker died  *)
(* or was interrupted before it synced the plan) is repaired as soon as    *)
(* the lease changes hands, from the finished job as evidence.             *)
Stuck(p) == plan[p] = "executing" /\ ActiveExec(p) = {} /\ TerminalExec(p) # {}
Ownerless == \A w \in Worker : Holds(w) => pc[w] = "dead"
NextOwnerRepairsPlan == \A p \in Plan : Stuck(p) /\ Ownerless ~> ~Stuck(p)

=============================================================================
