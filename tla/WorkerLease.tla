---------------------------- MODULE WorkerLease ----------------------------
(***************************************************************************)
(* The task_lock row with its timestamps (app/tasks/recovery.py): workers  *)
(* acquire it, a heartbeat thread renews it, and a fence renews it before  *)
(* each filesystem call.  Acquisition and heartbeat read the clock under   *)
(* the writer lock; the fence reads it first and then waits for the lock,  *)
(* so by the time it commits its reading may be old.                       *)
(***************************************************************************)
EXTENDS Integers

CONSTANTS
    Worker,
    Timeout,    \* WORKER_LEASE_TIMEOUT_SECONDS, in ticks
    MaxDelay,   \* longest time between a fence's clock reading and its commit
    MaxClock,   \* bound on the clock
    None

ASSUME WorkerLeaseAssumption ==
    /\ Timeout \in Nat /\ MaxDelay \in Nat /\ MaxClock \in Nat
    /\ MaxDelay <= Timeout
    /\ None \notin Worker

VARIABLES
    clock,
    owner,      \* task_lock.owner
    at,         \* task_lock.acquired_at
    sampled,    \* per worker, the reading of a fence waiting for the writer lock
    fenced      \* per worker, when the fence of its running filesystem call committed

vars == <<clock, owner, at, sampled, fenced>>

Idle == -1
Time == 0..MaxClock

(* assert_active_worker_lease: expired means strictly older than the timeout. *)
ActiveForAnyone(w, now) == now - at <= Timeout
Active(w, now) == owner = w /\ now - at <= Timeout

Init == /\ clock = 0 /\ at = 0
        /\ owner = None
        /\ sampled = [w \in Worker |-> Idle]
        /\ fenced = [w \in Worker |-> Idle]

(* Time does not pass a fence by for longer than its wait may take.        *)
Tick == /\ clock < MaxClock
        /\ \A w \in Worker : sampled[w] # Idle => clock - sampled[w] < MaxDelay
        /\ clock' = clock + 1
        /\ UNCHANGED <<owner, at, sampled, fenced>>

AcquireEarly(w) ==
    /\ owner \in {None, w} \/ clock - at >= Timeout - MaxDelay
    /\ owner' = w /\ at' = clock
    /\ UNCHANGED <<clock, sampled, fenced>>

(* acquire_worker_ownership: none, own, or stale.                          *)
Acquire(w) ==
    /\ sampled[w] = Idle /\ fenced[w] = Idle
    /\ owner \in {None, w} \/ clock - at > Timeout
    /\ owner' = w /\ at' = clock
    /\ UNCHANGED <<clock, sampled, fenced>>

(* update_worker_heartbeat runs in its own thread, at any time.            *)
Heartbeat(w) ==
    /\ Active(w, clock)
    /\ at' = clock
    /\ UNCHANGED <<clock, owner, sampled, fenced>>

(* renew_and_assert_worker_lease reads the clock, ...                      *)
FenceSample(w) ==
    /\ sampled[w] = Idle /\ fenced[w] = Idle
    /\ sampled' = [sampled EXCEPT ![w] = clock]
    /\ UNCHANGED <<clock, owner, at, fenced>>

(* ... then takes the writer lock, asserts the lease as of that reading    *)
(* and dates it from there, ...                                            *)
FenceCommit(w) ==
    /\ sampled[w] # Idle /\ Active(w, sampled[w])
    /\ at' = sampled[w]
    /\ sampled' = [sampled EXCEPT ![w] = Idle]
    /\ fenced' = [fenced EXCEPT ![w] = clock]
    /\ UNCHANGED <<clock, owner>>

(* ... or raises JobLeaseLost (or the database stays locked).              *)
FenceRaise(w) ==
    /\ sampled[w] # Idle
    /\ sampled' = [sampled EXCEPT ![w] = Idle]
    /\ UNCHANGED <<clock, owner, at, fenced>>

(* The filesystem call the fence was for returns.                          *)
CallReturns(w) ==
    /\ fenced[w] # Idle
    /\ fenced' = [fenced EXCEPT ![w] = Idle]
    /\ UNCHANGED <<clock, owner, at, sampled>>

Next == \/ Tick
        \/ \E w \in Worker : \/ Acquire(w) \/ Heartbeat(w)
                             \/ FenceSample(w) \/ FenceCommit(w) \/ FenceRaise(w)
                             \/ CallReturns(w)

Spec == Init /\ [][Next]_vars

-----------------------------------------------------------------------------
TypeOK == /\ clock \in Time
          /\ owner \in Worker \cup {None}
          /\ at \in Time
          /\ sampled \in [Worker -> Time \cup {Idle}]
          /\ fenced \in [Worker -> Time \cup {Idle}]

(* A filesystem call that ends within Timeout - MaxDelay of its fence's    *)
(* commit is made by the owner: the delay of the fence, and a fence that   *)
(* dates the lease back, cost the call no more than MaxDelay.              *)
CallsAreExclusive ==
    \A w \in Worker :
        fenced[w] # Idle /\ clock - fenced[w] <= Timeout - MaxDelay => owner = w

Live == owner # None /\ clock - at <= Timeout

(* Timestamps keep the promise of ExclusiveLease: in particular only an    *)
(* acquisition hands the lease over, and never a live one.                 *)
Lease == INSTANCE ExclusiveLease WITH lock <- [owner |-> owner, live |-> Live]
ImplementsLease == Lease!Spec

=============================================================================
