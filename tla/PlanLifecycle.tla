--------------------------- MODULE PlanLifecycle ---------------------------
(***************************************************************************)
(* The life of a batch plan from draft to deletion, composed with the task *)
(* queue that executes it.  Freezing, validating, enqueueing and deleting  *)
(* are requests of several transactions: they read the plan, spend a while *)
(* with the files, and write in a later transaction, after others may have *)
(* frozen, validated, executed or deleted the plan.                        *)
(***************************************************************************)
EXTENDS TaskQueue

CONSTANTS
    Client,     \* requests being served at the same time
    MaxBirths   \* how many plans are created in all

ASSUME PlanLifecycleAssumption == Plan \subseteq Nat /\ MaxBirths \in Nat

VARIABLES
    call,       \* what each request has read, between its transactions
    births,     \* plans created so far
    recovered   \* jobs with an event recovered_after_worker_restart

api == <<call, births>>
pvars == <<vars, call, births, recovered>>

Idle == [op |-> "none", plan |-> None, todo |-> {}, done |-> {}, stale |-> FALSE, job |-> 0]
CallRecord == [op: {"none", "freeze", "validate", "enqueue", "delete"}, plan: Plan \cup {None},
               todo: SUBSET Item, done: SUBSET Item, stale: BOOLEAN, job: {0} \cup JobId]

Exists(p) == plan[p] # "absent"

(* A plan's id is one more than the highest in the table, as a job's is.   *)
NextPlanId(p) == /\ \A q \in Plan : Exists(q) => q < p
                 /\ \A q \in Plan : q < p => \E r \in Plan : q <= r /\ Exists(r)

Completed(p) == {i \in Item : item[p][i] = "completed"}

Answer(c) == call' = [call EXCEPT ![c] = Idle]
Ask(c, request) == /\ call[c] = Idle
                   /\ call' = [call EXCEPT ![c] = request]

-----------------------------------------------------------------------------
PlanInit ==
    /\ QueueInit
    /\ plan = [p \in Plan |-> "absent"]
    /\ item = [p \in Plan |-> [i \in Item |-> "absent"]]
    /\ call = [c \in Client |-> Idle]
    /\ births = 0
    /\ recovered = {}

(* The rows of a plan appear and disappear with it.                        *)
SetRows(S, st, s) ==
    /\ plan' = [p \in Plan |-> IF p \in S THEN st ELSE plan[p]]
    /\ item' = [p \in Plan |-> IF p \in S THEN [i \in Item |-> s] ELSE item[p]]

Create(p) ==
    /\ births < MaxBirths /\ NextPlanId(p)
    /\ SetRows({p}, "draft", "planned")
    /\ births' = births + 1
    /\ UNCHANGED <<lock, job, local, env, call, recovered>>

reads == <<vars, births, recovered>>
quietly == <<lock, local, env, births, recovered>>

(* Any exception outside the transactions, or an API process that dies.    *)
CallFails(c) == call[c] # Idle /\ Answer(c) /\ UNCHANGED reads

FreezeStart(c, p) ==
    /\ plan[p] = "draft"
    /\ Ask(c, [Idle EXCEPT !.op = "freeze", !.plan = p])
    /\ UNCHANGED reads

FreezeCommit(c) ==
    /\ call[c].op = "freeze"
    /\ LET p == call[c].plan IN
       /\ plan[p] = "draft"
       /\ plan' = [plan EXCEPT ![p] = "frozen"]
    /\ Answer(c)
    /\ UNCHANGED <<job, item, quietly>>

ValidateStartAll(c, p) ==
    /\ plan[p] \in {"frozen", "partial", "ready", "stale"} /\ ActiveExec(p) = {}
    /\ Ask(c, [Idle EXCEPT !.op = "validate", !.plan = p, !.stale = (plan[p] = "stale"),
                           !.todo = Item, !.done = Completed(p)])
    /\ UNCHANGED reads

(* The rows that were not completed are then verified against the files.   *)
ValidateStart(c, p) ==
    /\ plan[p] \in {"frozen", "partial", "ready", "stale"} /\ ActiveExec(p) = {}
    /\ Ask(c, [Idle EXCEPT !.op = "validate", !.plan = p, !.stale = (plan[p] = "stale"),
                           !.todo = Item \ Completed(p), !.done = Completed(p)])
    /\ UNCHANGED reads

(* The verdicts are written without a second look at plan, items or jobs;  *)
(* only the plan must exist.                                               *)
ValidateCommit(c) ==
    /\ call[c].op = "validate" /\ Exists(call[c].plan)
    /\ \E verdict \in [call[c].todo -> {"validated", "stale", "skipped"}] :
        LET p == call[c].plan
            verdicts == {verdict[i] : i \in call[c].todo} IN
        /\ item' = [item EXCEPT ![p] = [i \in Item |-> IF i \in call[c].todo THEN verdict[i] ELSE @[i]]]
        /\ plan' = [plan EXCEPT ![p] = IF call[c].stale \/ "stale" \in verdicts THEN "stale"
                                       ELSE IF "skipped" \in verdicts THEN "partial"
                                       ELSE "ready"]
    /\ Answer(c)
    /\ UNCHANGED <<job, quietly>>

EnqueueStart(c, p) ==
    /\ plan[p] \in {"ready", "partial"} /\ ActiveExec(p) = {}
    /\ Ask(c, [Idle EXCEPT !.op = "enqueue", !.plan = p, !.done = Completed(p),
                           !.todo = {i \in Item : item[p][i] \notin {"completed", "skipped"}}])
    /\ UNCHANGED reads

(* Some file has changed: the plan is stale, whatever it is by now.        *)
EnqueueStale(c) ==
    /\ call[c].op = "enqueue"
    /\ \E S \in SUBSET call[c].todo \ {{}} :
        LET p == call[c].plan IN
        IF Exists(p)
        THEN /\ plan' = [plan EXCEPT ![p] = "stale"]
             /\ item' = [item EXCEPT ![p] = [i \in Item |-> IF i \in S THEN "stale" ELSE @[i]]]
        ELSE UNCHANGED <<plan, item>>
    /\ Answer(c)
    /\ UNCHANGED <<job, quietly>>

EnqueueCommit(c) ==
    /\ call[c].op = "enqueue"
    /\ EnqueuePlan(call[c].plan)
    /\ Answer(c)
    /\ UNCHANGED <<births, recovered>>

(* An execution that a restart interrupted may be cancelled by a deletion. *)
DeleteStart(c, p) ==
    /\ Exists(p)
    /\ \/ ActiveExec(p) = {} /\ Ask(c, [Idle EXCEPT !.op = "delete", !.plan = p])
       \/ \E j \in ActiveExec(p) :
            /\ job[j].st \in {"queued", "paused"} /\ j \in recovered
            /\ Ask(c, [Idle EXCEPT !.op = "delete", !.plan = p, !.job = j])
    /\ UNCHANGED reads

DeleteCancel(c) ==
    /\ call[c].op = "delete" /\ call[c].job # 0
    /\ \/ Cancel(call[c].job)
       \/ job[call[c].job].st = "cancel_requested" /\ UNCHANGED vars
    /\ call' = [call EXCEPT ![c].job = 0]
    /\ UNCHANGED <<births, recovered>>

DeleteUnchecked(c) ==
    /\ call[c].op = "delete" /\ call[c].job = 0 /\ Exists(call[c].plan)
    /\ SetRows({call[c].plan}, "absent", "absent")
    /\ Answer(c)
    /\ UNCHANGED <<job, quietly>>

(* A plan may also be deleted while it is executing without any active job. *)
DeleteCommit(c) ==
    /\ call[c].op = "delete" /\ call[c].job = 0 /\ Exists(call[c].plan)
    /\ ActiveExec(call[c].plan) = {}
    /\ SetRows({call[c].plan}, "absent", "absent")
    /\ Answer(c)
    /\ UNCHANGED <<job, quietly>>

ClearPlanHistory(S) ==
    /\ LET gone == {p \in Plan : plan[p] \in S /\ ActiveExec(p) = {}} IN
       gone # {} /\ SetRows(gone, "absent", "absent")
    /\ UNCHANGED <<job, quietly, call>>

-----------------------------------------------------------------------------
(* The steps of the queue, its own requests included.  Recovery notes which *)
(* jobs it has brought back; the note goes with the job.                   *)
QueueStep ==
    /\ Lapse \/ TaskRequest \/ \E w \in Worker : Progress(w) \/ Mishap(w)
    /\ recovered' = {j \in JobId : /\ job'[j].st # "absent"
                                   /\ j \in recovered \/ (job[j].st = "running" /\ job'[j].st = "queued")}
    /\ UNCHANGED api

PlanRequest(c) ==
    \/ CallFails(c)
    \/ \E p \in Plan : FreezeStart(c, p) \/ ValidateStart(c, p) \/ EnqueueStart(c, p) \/ DeleteStart(c, p)
    \/ FreezeCommit(c) \/ ValidateCommit(c) \/ EnqueueStale(c) \/ EnqueueCommit(c)
    \/ DeleteCancel(c) \/ DeleteCommit(c)

PlanNext ==
    \/ QueueStep
    \/ \E c \in Client : PlanRequest(c)
    \/ \E p \in Plan : Create(p)
    \/ \E S \in SUBSET {"completed", "failed"} : ClearPlanHistory(S)

PlanSpec == PlanInit /\ [][PlanNext]_pvars

-----------------------------------------------------------------------------
(* The tables of the queue keep their shape, a plan and its items exist    *)
(* together, and a request that is being served has a plan.                *)
RowsOK == \A p \in Plan, i \in Item : Exists(p) <=> item[p][i] # "absent"
CallOK == /\ call \in [Client -> CallRecord]
          /\ \A c \in Client : call[c].op # "none" => call[c].plan \in Plan
ApiOK == births \in 0..MaxBirths /\ recovered \subseteq JobId
PlanTypeOK == TypeOK /\ RowsOK /\ CallOK /\ ApiOK

(* Nothing executes a plan that is not there: every execution that may     *)
(* still run has its plan, and so has the handler of the lease's owner,    *)
(* whatever deletions, cancels and takeovers interleave.                   *)
ExecutionsHavePlans ==
    \A j \in JobId : job[j].kind = "exec" /\ job[j].st \in Active => Exists(job[j].plan)
ExecutionHasPlan ==
    /\ ExecutionsHavePlans
    /\ \A w \in Worker : lock.owner = w /\ pc[w] \in Handler \ {"work"} => Exists(pid[w])

(* The outcome of a completed item is final until its plan is deleted,     *)
(* except for a request that read the item before it was completed, and    *)
(* for a move that is executed again after the clean-up that follows it    *)
(* was: phase 3 writes that row too, without a look at it                  *)
(* (handlers_base.py:3615).  The worker's other transactions and later     *)
(* requests all leave it alone.                                            *)
RewritesCleanUp(w, p, i) == pc[w] = "item" /\ pc'[w] = "next" /\ pid[w] = p /\ i = at[w] + 1
CompletedStays ==
    [][\A p \in Plan : \A i \in Completed(p) :
        \/ item'[p][i] = "completed"
        \/ plan'[p] = "absent"
        \/ \E w \in Worker : RewritesCleanUp(w, p, i)
        \/ \E c \in Client : call'[c] # call[c] /\ call[c].plan = p /\ i \notin call[c].done]_pvars

=============================================================================
