--------------------------- MODULE SchedulerDispatch ---------------------------
(***************************************************************************)
(* The scheduler (app/scheduler/dispatch.py, service.py, and its tick in   *)
(* app/worker.py): schedules with a cron recurrence, the run recorded for  *)
(* each slot, and the job a run dispatches.  A worker samples the clock,   *)
(* takes the scheduler's lease, lists what is due, and processes each      *)
(* schedule in a transaction of its own, always with the time it sampled.  *)
(* Meanwhile users edit schedules and run them at once, and jobs end, are  *)
(* retried and deleted.                                                    *)
(*                                                                         *)
(* The clock counts minutes.  A cron expression is the set of minutes it   *)
(* matches; the slot of a minute is its beginning, so it is due as soon as *)
(* the clock shows the minute.  The run a user starts has the identity     *)
(* Manual: its instant is not that of a slot.                              *)
(***************************************************************************)
EXTENDS Naturals, FiniteSets

CONSTANTS
    Schedule, Worker,
    Crons,        \* the cron expressions users may choose, as sets of minutes
    TTL,          \* lifetime of the lease, in minutes begun
    MaxTime,      \* bound on the clock
    Edited,       \* bound: the schedules users act on
    MaxUpdates,   \* bound on the updates of a schedule
    MaxFaults,    \* bound on crashes and failing ticks
    Manual, None

Minutes == 0..MaxTime

ASSUME SchedulerAssumption ==
    /\ TTL \in Nat \ {0} /\ MaxTime \in Nat /\ MaxUpdates \in Nat /\ MaxFaults \in Nat
    /\ Crons \subseteq SUBSET Minutes /\ Crons /= {}
    /\ Edited \subseteq Schedule
    /\ Manual \notin Minutes /\ None \notin Worker

VARIABLES
    clock,
    lease,      \* the scheduler_state row
    schedule,   \* the rows of schedules
    runs,       \* the rows of schedule_runs: by schedule, and slot or Manual
    enqueued,   \* how many jobs each of them has had enqueued (history)
    tick,       \* the tick each worker is in
    last,       \* the minute each worker has completed (last_scheduler_tick_minute)
    request,    \* an update on its way
    faults

vars == <<clock, lease, schedule, runs, enqueued, tick, last, request, faults>>

-----------------------------------------------------------------------------
Key == Minutes \cup {Manual}
Never == MaxTime + 1     \* a slot that is past the clock's bound, or none

RunStatus == {"none", "pending", "dispatched", "skipped_overlap", "failed"}
Work == {"none", "active", "ended"}

\* next_occurrence: the first matching minute after t.
Next_(cron, t) ==
    LET later == {m \in cron : m > t}
    IN IF later = {} THEN Never ELSE CHOOSE m \in later : \A n \in later : m <= n

Row(status, work) == [status |-> status, work |-> work]
NoRun == Row("none", "none")
NoRequest == [of |-> None, revision |-> 0, at |-> 0]
NoTick == [pc |-> "idle", at |-> 0, due |-> {}, listed |-> [s \in Schedule |-> 0]]

At(w, pc) == tick[w].pc = pc
Sampled(w) == tick[w].at

rows == <<schedule, runs, enqueued>>

\* The minute the clock starts in may be a slot that is due, or one reserved and never dispatched.
Init ==
    /\ clock = 0
    /\ lease = [owner |-> None, expires |-> 0]
    /\ \E cron \in [Schedule -> Crons], reserved \in SUBSET Edited :
           /\ \A s \in reserved : 0 \in cron[s]
           /\ schedule = [s \in Schedule |->
                  [enabled |-> TRUE, cron |-> cron[s], revision |-> 1,
                   next |-> IF 0 \in cron[s] /\ s \notin reserved THEN 0 ELSE Next_(cron[s], 0)]]
           /\ runs = [s \in Schedule |-> [k \in Key |-> IF s \in reserved /\ k = 0 THEN Row("pending", "none")
                                                     ELSE NoRun]]
    /\ enqueued = [s \in Schedule |-> [k \in Key |-> 0]]
    /\ tick = [w \in Worker |-> NoTick]
    /\ last = [w \in Worker |-> Never]
    /\ request = NoRequest
    /\ faults = 0

-----------------------------------------------------------------------------
(* The tick of a worker                                                    *)

\* The loop of the worker: at most one completed tick a minute.
StartTick(w) ==
    /\ At(w, "idle") /\ clock /= last[w]
    /\ tick' = [tick EXCEPT ![w] = [NoTick EXCEPT !.pc = "acquire", !.at = clock]]
    /\ UNCHANGED <<clock, lease, rows, last, request, faults>>

Completed(w) ==
    /\ tick' = [tick EXCEPT ![w] = NoTick]
    /\ last' = [last EXCEPT ![w] = Sampled(w)]

\* A tick that raised is repeated, in the same minute if there is time.
Raised(w) == tick' = [tick EXCEPT ![w] = NoTick] /\ UNCHANGED last

\* Mutant of Acquire: a lease is only ever given to its owner.
AcquireUnexpired(w) ==
    /\ At(w, "acquire")
    /\ IF lease.owner \notin {None, w}
       THEN Completed(w) /\ UNCHANGED lease
       ELSE /\ lease' = [owner |-> w, expires |-> Sampled(w) + TTL]
            /\ tick' = [tick EXCEPT ![w].pc = "list"]
            /\ UNCHANGED last
    /\ UNCHANGED <<clock, rows, request, faults>>

\* acquire_scheduler_lease; a tick that does not get the lease is a completed one.
Acquire(w) ==
    /\ At(w, "acquire")
    /\ IF lease.owner \notin {None, w} /\ lease.expires > Sampled(w)
       THEN Completed(w) /\ UNCHANGED lease
       ELSE /\ lease' = [owner |-> w, expires |-> Sampled(w) + TTL]
            /\ tick' = [tick EXCEPT ![w].pc = "list"]
            /\ UNCHANGED last
    /\ UNCHANGED <<clock, rows, request, faults>>

IsDue(s, t) == schedule[s].enabled /\ schedule[s].next <= t

ListDue(w) ==
    LET due == {s \in Schedule : IsDue(s, Sampled(w))}
    IN /\ At(w, "list")
       /\ IF due = {} THEN Completed(w)
          ELSE /\ tick' = [tick EXCEPT ![w].pc = "process", ![w].due = due,
                                       ![w].listed = [s \in Schedule |-> schedule[s].revision]]
               /\ UNCHANGED last
       /\ UNCHANGED <<clock, lease, rows, request, faults>>

Active(s) == {k \in Key : runs[s][k].status = "dispatched" /\ runs[s][k].work = "active"}

\* _active_prior_run: what the schedule still has running, of any slot or by hand.
Prior(s) == Active(s)

\* Its side effect: with nothing running, a reservation that was not dispatched is failed.
Interrupted(s) == IF Prior(s) = {} THEN {k \in Key : runs[s][k].status = "pending"} ELSE {}

\* The new run of a slot or by hand: skipped, failed (its target is gone, or reserved by another job),
\* or dispatched with its job.
Dispatched(s, k) ==
    \E run \in IF Prior(s) /= {} THEN {Row("skipped_overlap", "none")}
               ELSE {Row("failed", "none"), Row("dispatched", "active")} :
       /\ runs' = [runs EXCEPT ![s] = [j \in Key |->
              IF j = k THEN run ELSE IF j \in Interrupted(s) THEN Row("failed", "none") ELSE runs[s][j]]]
       /\ enqueued' = [enqueued EXCEPT ![s][k] = @ + IF run.status = "dispatched" THEN 1 ELSE 0]

Advanced(s, t) == schedule' = [schedule EXCEPT ![s].next = Next_(schedule[s].cron, t)]

DispatchSlot(w, s) ==
    LET slot == schedule[s].next
    IN /\ IsDue(s, Sampled(w)) /\ slot >= Sampled(w) /\ runs[s][slot].status = "none"
       /\ Dispatched(s, slot)
       /\ Advanced(s, slot)

\* An older slot is passed over, without a record.
MissSlot(w, s) ==
    /\ IsDue(s, Sampled(w)) /\ schedule[s].next < Sampled(w)
    /\ Advanced(s, Sampled(w))
    /\ UNCHANGED <<runs, enqueued>>

\* Mutant of HealPointer: a slot that has its run already is dispatched like any other.
HealByDispatch(w, s) ==
    LET slot == schedule[s].next
    IN /\ IsDue(s, Sampled(w)) /\ slot >= Sampled(w) /\ runs[s][slot].status /= "none"
       /\ Dispatched(s, slot)
       /\ Advanced(s, slot)

\* A slot that has its run already: the pointer was stale.
HealPointer(w, s) ==
    LET slot == schedule[s].next
    IN /\ IsDue(s, Sampled(w)) /\ slot >= Sampled(w) /\ runs[s][slot].status /= "none"
       /\ Advanced(s, slot)
       /\ UNCHANGED <<runs, enqueued>>

NotDue(w, s) == ~IsDue(s, Sampled(w)) /\ UNCHANGED rows

\* The lease, as far as the sampled time tells.
Leased(w) == lease.owner = w /\ lease.expires > Sampled(w)

\* _process_due_schedule, for one schedule that was listed (in an order left open here).
Process(w, s) ==
    /\ At(w, "process") /\ s \in tick[w].due
    /\ IF ~Leased(w) THEN Raised(w) /\ UNCHANGED rows
       ELSE /\ DispatchSlot(w, s) \/ MissSlot(w, s) \/ HealPointer(w, s) \/ NotDue(w, s)
            /\ IF tick[w].due = {s} THEN Completed(w)
               ELSE tick' = [tick EXCEPT ![w].due = @ \ {s}] /\ UNCHANGED last
    /\ UNCHANGED <<clock, lease, request, faults>>

\* The database is locked, say; what was committed stays.
TickFails(w) ==
    /\ faults < MaxFaults /\ tick[w].pc \in {"acquire", "list", "process"}
    /\ Raised(w) /\ faults' = faults + 1
    /\ UNCHANGED <<clock, lease, rows, request>>

\* Bound: the lease of a worker that crashes now runs out before the clock stops.
TimeLeft == clock + TTL <= MaxTime

\* The process ends without releasing the lease; its successor is another worker.
Crash(w) ==
    /\ faults < MaxFaults /\ ~At(w, "down") /\ TimeLeft
    /\ tick' = [tick EXCEPT ![w] = [NoTick EXCEPT !.pc = "down"]]
    /\ faults' = faults + 1
    /\ UNCHANGED <<clock, lease, rows, last, request>>

-----------------------------------------------------------------------------
(* Users                                                                   *)

\* update_schedule samples the clock before its transaction and names the revision the user saw.
AskUpdate(s) ==
    /\ request = NoRequest /\ schedule[s].revision <= MaxUpdates
    /\ request' = [of |-> s, revision |-> schedule[s].revision, at |-> clock]
    /\ UNCHANGED <<clock, lease, rows, tick, last, faults>>

Update(enabled, cron) ==
    LET s == request.of
    IN /\ s \in Schedule
       /\ IF schedule[s].revision /= request.revision THEN UNCHANGED schedule
          ELSE schedule' = [schedule EXCEPT ![s].enabled = enabled, ![s].cron = cron, ![s].revision = @ + 1,
                                            ![s].next = IF enabled THEN Next_(cron, request.at) ELSE Never]
       /\ request' = NoRequest
       /\ UNCHANGED <<clock, lease, runs, enqueued, tick, last, faults>>

\* run_schedule_now leaves the recurrence alone, and runs a disabled schedule too.
RunNow(s) ==
    /\ runs[s][Manual].status = "none"
    /\ Dispatched(s, Manual)
    /\ UNCHANGED <<clock, lease, schedule, tick, last, request, faults>>

JobEnds(s, k) ==
    /\ runs[s][k].work = "active"
    /\ runs' = [runs EXCEPT ![s][k].work = "ended"]
    /\ UNCHANGED <<clock, lease, schedule, enqueued, tick, last, request, faults>>

\* Deleting an ended job leaves the run without its link (ON DELETE SET NULL).
JobDeleted(s, k) ==
    /\ runs[s][k].work = "ended"
    /\ runs' = [runs EXCEPT ![s][k].work = "none"]
    /\ UNCHANGED <<clock, lease, schedule, enqueued, tick, last, request, faults>>

Pass ==
    /\ clock < MaxTime /\ clock' = clock + 1
    /\ UNCHANGED <<lease, rows, tick, last, request, faults>>

-----------------------------------------------------------------------------
Ticking(w) == StartTick(w) \/ Acquire(w) \/ ListDue(w) \/ \E s \in Schedule : Process(w, s)

Next ==
    \/ Pass
    \/ \E w \in Worker : Ticking(w) \/ TickFails(w) \/ Crash(w)
    \/ \E s \in Edited : AskUpdate(s) \/ RunNow(s) \/ \E k \in Key : JobDeleted(s, k)
    \/ \E enabled \in BOOLEAN, cron \in Crons : Update(enabled, cron)
    \/ \E s \in Schedule, k \in Key : JobEnds(s, k)

Spec == Init /\ [][Next]_vars

\* Time passes, and as long as a worker that is not down has a tick to make, one makes it.
FairSpec == Spec /\ WF_vars(Pass) /\ WF_vars(\E w \in Worker : Ticking(w))
-----------------------------------------------------------------------------
(* Properties                                                              *)

\* Every variable has the values the code gives it.
TypeOK ==
    /\ clock \in Minutes
    /\ lease \in [owner : Worker \cup {None}, expires : 0..(MaxTime + TTL)]
    /\ schedule \in [Schedule -> [enabled : BOOLEAN, cron : Crons, revision : 1..(MaxUpdates + 1),
                                  next : Minutes \cup {Never}]]
    /\ runs \in [Schedule -> [Key -> [status : RunStatus, work : Work]]]
    /\ enqueued \in [Schedule -> [Key -> Nat]]
    /\ tick \in [Worker -> [pc : {"idle", "acquire", "list", "process", "down"}, at : Minutes, due : SUBSET Schedule,
                            listed : [Schedule -> 0..(MaxUpdates + 1)]]]
    /\ last \in [Worker -> Minutes \cup {Never}]
    /\ request \in [of : Schedule \cup {None}, revision : 0..MaxUpdates, at : Minutes]
    /\ faults \in 0..MaxFaults

(* A slot has one job at most, whoever ticks, fails, repeats its tick or   *)
(* edits the schedule meanwhile (docs/scheduler-s0, section 8).            *)
OneJobPerSlot == \A s \in Schedule, k \in Key : enqueued[s][k] <= 1

(* A run gets a job only if no other run of its schedule has one going,    *)
(* and is skipped only if one has: neither a deleted job, nor one that was *)
(* interrupted, nor a reservation stands in the way (_active_prior_run).   *)
OverlapIsExact ==
    [][\A s \in Schedule, k \in Key :
           /\ enqueued'[s][k] > enqueued[s][k] => \A j \in Key : runs[s][j].work /= "active"
           /\ runs[s][k].status = "none" /\ runs'[s][k].status = "skipped_overlap" =>
                  \E j \in Key : runs[s][j].work = "active"]_vars

(* No schedule gets stuck: a slot that has come is dispatched, recorded or *)
(* passed over, whatever fails and whichever worker dies with the lease.   *)
SlotPasses ==
    \A s \in Schedule, m \in Minutes : m + TTL <= MaxTime =>
        ((TimeLeft /\ schedule[s].enabled /\ schedule[s].next = m) ~> (schedule[s].next /= m))
=============================================================================
