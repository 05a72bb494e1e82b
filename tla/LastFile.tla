------------------------------- MODULE LastFile -------------------------------
(***************************************************************************)
(* Deduplication and the protection of the last file of a directory:       *)
(* a plan is compiled from the groups of a scan (app/planning), one keep   *)
(* and the rest to be quarantined, frozen, validated and executed file by  *)
(* file (app/tasks/handlers_base.py), while users change the tree and a    *)
(* filesystem may give a directory a new inode when it is changed.         *)
(*                                                                         *)
(* In recursive mode every directory from a file's parent up to its scan   *)
(* root must keep a regular file; otherwise only its top-level directory.  *)
(* Scan roots may overlap, and two plans may be made of one scan.  How     *)
(* candidates are scored and balanced is left open.  A sample of the tree  *)
(* is one reading here; one that a change disturbs fails, as if unsafe.    *)
(***************************************************************************)
EXTENDS Naturals, FiniteSets

CONSTANTS
    Dir, Above,          \* directories, and those at or above each of them
    File, In, Root,      \* the files of the scan, their directories and scan roots
    Group, Copies,       \* the groups, and the files of each
    Plan, Worker, None,
    Others,              \* bound: the directories where another file comes and goes, there at first
    MaxTroubles          \* bound on what users do to the tree, and on crashes and lost leases

ASSUME LastFileAssumption ==
    /\ IsFiniteSet(Dir) /\ IsFiniteSet(File)
    /\ Above \in [Dir -> SUBSET Dir] /\ \A d \in Dir : d \in Above[d]
    /\ In \in [File -> Dir] /\ Root \in [File -> Dir] /\ \A f \in File : Root[f] \in Above[In[f]]
    /\ Copies \in [Group -> SUBSET File] /\ \A f \in File : \E g \in Group : f \in Copies[g]
    /\ \A g, h \in Group : g /= h => Copies[g] \cap Copies[h] = {}
    /\ Others \subseteq Dir /\ None \notin Plan \cup File \cup Worker /\ Plan \cap {"home", "gone"} = {}
    /\ MaxTroubles \in Nat

VARIABLES
    place,      \* of each file: its home, gone, or the plan whose quarantine holds it
    extra,      \* other regular files directly in each directory: none or one
    identity,   \* device and inode of each directory, as a generation
    plan,       \* the plan's row, and what its compilation knows
    item,       \* its items, by the file to be quarantined
    worker,     \* the locals of each worker, and as history what others took files from since it looked
    owner,      \* of the worker lease
    replaced,   \* history: directories replaced behind a plan's back
    meddles,    \* what users have done to the tree
    faults      \* crashes and lost leases

Trouble == meddles + faults < MaxTroubles

files == <<place, extra, identity>>
rows == <<plan, item>>
vars == <<files, rows, worker, owner, replaced, meddles, faults>>
-----------------------------------------------------------------------------
GroupOf == [f \in File |-> CHOOSE g \in Group : f \in Copies[g]]

\* directory_ancestors_to_scan_root
Chain == [f \in File |-> {d \in Above[In[f]] : Root[f] \in Above[d]}]

\* derive_canonical_top_level_dir
Top == [f \in File |->
    IF In[f] = Root[f] THEN Root[f]
    ELSE CHOOSE d \in Chain[f] : Above[d] \cap Chain[f] = {d, Root[f]} /\ d /= Root[f]]

\* A file below its scan root is in, or below, a directory of the root.
ASSUME TreeAssumption ==
    \A f \in File : In[f] /= Root[f] => \E d \in Chain[f] : Above[d] \cap Chain[f] = {d, Root[f]} /\ d /= Root[f]

Protected(p, f) == IF plan[p].recursive THEN Chain[f] ELSE {Top[f]}

FilesBelow == [d \in Dir |-> {f \in File : d \in Above[In[f]]}]
Below == [d \in Dir |-> {e \in Dir : d \in Above[e]}]

\* The regular files below a directory.
Count(d) == Cardinality({f \in FilesBelow[d] : place[f] = "home"}) + Cardinality({e \in Below[d] : extra[e] = 1})

Planned(p) == {f \in File : item[p][f] = "planned"}
Completed(p) == {f \in File : item[p][f] = "completed"}

NoPlan == [stage |-> "none", recursive |-> TRUE, todo |-> {}, snapshot |-> [d \in Dir |-> 0],
           keep |-> [g \in Group |-> None], frozen |-> [d \in Dir |-> 0],
           binding |-> [d \in Dir |-> [id |-> 0, after |-> None]]]
Idle == [pc |-> "idle", plan |-> None, file |-> None, caught |-> [d \in Dir |-> 0], gone |-> {}]

Init ==
    /\ place = [f \in File |-> "home"]
    /\ extra = [d \in Dir |-> IF d \in Others THEN 1 ELSE 0]
    /\ identity = [d \in Dir |-> 1]
    /\ plan = [p \in Plan |-> NoPlan]
    /\ item = [p \in Plan |-> [f \in File |-> "none"]]
    /\ worker = [w \in Worker |-> Idle]
    /\ owner \in Worker
    /\ replaced = [p \in Plan |-> {}]
    /\ meddles = 0 /\ faults = 0

-----------------------------------------------------------------------------
(* Compiling a plan (create_advanced_dedupe_plan)                          *)

\* The tree is sampled once; a group with a missing file is left out.
Compile(p, recursive) ==
    LET groups == {g \in Group : \A f \in Copies[g] : place[f] = "home"} IN
    /\ plan[p].stage = "none" /\ groups /= {}
    /\ plan' = [plan EXCEPT ![p].stage = "selecting", ![p].recursive = recursive, ![p].todo = groups,
                            ![p].snapshot = [d \in Dir |-> Count(d)]]
    /\ UNCHANGED <<files, item, worker, owner, replaced, meddles, faults>>

\* The scheduled counters: earlier groups' files whose own chain contains the directory.
Scheduled(p, d) == Cardinality({f \in Planned(p) : d \in Protected(p, f)})

\* Mutant of Blocked: each group is judged on its own.
BlockedAlone(p, g, keep) ==
    \E f \in Copies[g] \ {keep} : \E d \in Protected(p, f) :
        plan[p].snapshot[d] < Cardinality({x \in Copies[g] \ {keep} : d \in Protected(p, x)}) + 1

\* _recursive_keep_blocked and its top-level counterpart: removing all others would empty a directory.
Blocked(p, g, keep) ==
    \E f \in Copies[g] \ {keep} : \E d \in Protected(p, f) :
        plan[p].snapshot[d] < Scheduled(p, d) + Cardinality({x \in Copies[g] \ {keep} : d \in Protected(p, x)}) + 1

\* evaluate_group: of the best candidates (any, here) one that is not blocked is kept, or the group is skipped.
SelectGroup(p, g) ==
    /\ plan[p].stage = "selecting" /\ g \in plan[p].todo
    /\ \E top \in (SUBSET Copies[g]) \ {{}} :
           LET safe == {f \in top : ~Blocked(p, g, f)} IN
           \/ /\ safe = {}
              /\ plan' = [plan EXCEPT ![p].todo = @ \ {g}]
              /\ UNCHANGED item
           \/ \E keep \in safe :
                  /\ plan' = [plan EXCEPT ![p].todo = @ \ {g}, ![p].keep[g] = keep]
                  /\ item' = [item EXCEPT ![p] = [f \in File |-> IF f \in Copies[g] \ {keep} THEN "planned" ELSE @[f]]]
    /\ UNCHANGED <<files, worker, owner, replaced, meddles, faults>>

\* A draft without items is refused; the sample is forgotten.
PersistDraft(p) ==
    /\ plan[p].stage = "selecting" /\ plan[p].todo = {}
    /\ plan' = [plan EXCEPT ![p] = IF Planned(p) = {} THEN NoPlan
                                   ELSE [@ EXCEPT !.stage = "draft", !.snapshot = NoPlan.snapshot]]
    /\ UNCHANGED <<files, item, worker, owner, replaced, meddles, faults>>

\* build_frozen_recursive_protection, for every item.
Freeze(p) ==
    /\ plan[p].stage = "draft"
    /\ \A f \in Planned(p) : place[f] = "home" /\ place[plan[p].keep[GroupOf[f]]] = "home"
    /\ plan[p].recursive => \A f \in Planned(p) : \A d \in Chain[f] : Count(d) >= 2
    /\ plan' = [plan EXCEPT ![p].stage = "frozen", ![p].frozen = identity]
    /\ replaced' = [replaced EXCEPT ![p] = {}]
    /\ UNCHANGED <<files, item, worker, owner, meddles, faults>>

-----------------------------------------------------------------------------
(* The two looks at a protected directory                                  *)

Fresh(p, f) == place[f] = "home" /\ place[plan[p].keep[GroupOf[f]]] = "home"

\* evaluate_live_recursive_protection as validation uses it: frozen identities, current counts.
SafeAsFrozen(p, f) == \A d \in Chain[f] : identity[d] = plan[p].frozen[d] /\ Count(d) >= 2

Bound(p, d) == plan[p].binding[d].after /= None

\* _trusted_recursive_runtime_identities: a binding stands on an item that is completed and still in quarantine.
\* That it must be an earlier item of the plan is left out, so more is trusted here.
Backed(p, d) == LET after == plan[p].binding[d].after IN item[p][after] = "completed" /\ place[after] = p

\* The same at execution, where a binding replaces the frozen identity.
SafeNow(p, f) ==
    \A d \in Chain[f] :
        /\ Bound(p, d) => Backed(p, d)
        /\ identity[d] = IF Bound(p, d) THEN plan[p].binding[d].id ELSE plan[p].frozen[d]
        /\ Count(d) >= 2

\* What is not completed is verified again; a stale plan stays stale.
Validate(p) ==
    LET open == {f \in File : item[p][f] \in {"planned", "failed", "skipped"}}
        sound == \A f \in open : Fresh(p, f) /\ (plan[p].recursive => SafeAsFrozen(p, f)) IN
    /\ plan[p].stage \in {"frozen", "ready", "partial"}
    /\ plan' = [plan EXCEPT ![p].stage = IF sound THEN "ready" ELSE "stale"]
    /\ item' = [item EXCEPT ![p] = [f \in File |-> IF sound /\ f \in open THEN "planned" ELSE @[f]]]
    /\ UNCHANGED <<files, worker, owner, replaced, meddles, faults>>

-----------------------------------------------------------------------------
(* The worker (BatchPlanExecuteHandler.run)                                *)

At(w, pc) == worker[w].pc = pc
Step(w, pc) == worker' = [worker EXCEPT ![w].pc = pc]
NextItem(w, p) == worker' = [worker EXCEPT ![w] = [Idle EXCEPT !.pc = "item", !.plan = p]]
Stop(w) == worker' = [worker EXCEPT ![w] = Idle]

\* _reconcile_executing_item, by where the file is.
Reconciled(p, f) ==
    IF item[p][f] /= "executing" THEN item[p][f]
    ELSE IF place[f] = p THEN "completed"
    ELSE IF place[f] = "home" THEN "planned"
    ELSE "failed"

\* Interrupted items are settled, and what is left must be fresh.
Begin(w, p) ==
    LET settled == [f \in File |-> Reconciled(p, f)]
        stale == {f \in File : settled[f] = "planned" /\ ~Fresh(p, f)} IN
    /\ owner = w /\ At(w, "idle") /\ plan[p].stage \in {"ready", "partial", "executing"}
    /\ \E f \in File : item[p][f] \in {"planned", "executing"}
    /\ item' = [item EXCEPT ![p] = [f \in File |-> IF f \in stale THEN "failed" ELSE settled[f]]]
    /\ IF stale = {}
       THEN /\ plan' = [plan EXCEPT ![p].stage = "executing"]
            /\ NextItem(w, p)
       ELSE /\ plan' = [plan EXCEPT ![p].stage = IF "completed" \in {settled[f] : f \in File} THEN "partial" ELSE "stale"]
            /\ UNCHANGED worker
    /\ UNCHANGED <<files, owner, replaced, meddles, faults>>

\* An item that failed stops the plan.
FailItem(w, p, f) ==
    /\ item' = [item EXCEPT ![p][f] = "failed"]
    /\ plan' = [plan EXCEPT ![p].stage = IF Completed(p) /= {} THEN "partial" ELSE "stale"]
    /\ Stop(w)

\* The finalisation of the plan, by the states of its items.
Verdict(states) == IF states = {"completed"} THEN "completed"
                   ELSE IF "completed" \in states \/ "failed" \notin states THEN "partial"
                   ELSE "stale"

\* Every transaction of the handler asserts the lease.
LeaseLost(w) == owner /= w /\ Stop(w) /\ UNCHANGED rows

\* Phase 1: the intent.
Intend(w, p) ==
    \/ LeaseLost(w)
    \/ \E f \in Planned(p) : owner = w /\
           IF ~Fresh(p, f) THEN FailItem(w, p, f)
           ELSE /\ item' = [item EXCEPT ![p][f] = "executing"]
                /\ worker' = [worker EXCEPT ![w].pc = "fence", ![w].file = f]
                /\ UNCHANGED plan
    \/ /\ owner = w /\ Planned(p) = {}
       /\ plan' = [plan EXCEPT ![p].stage = Verdict({item[p][f] : f \in File} \ {"none"})]
       /\ Stop(w) /\ UNCHANGED item

\* A fence is a transaction of its own: the lease may be lost before the step it guards.
Fence(w, next) == LeaseLost(w) \/ (owner = w /\ Step(w, next) /\ UNCHANGED rows)

\* What is no longer as it should be is recorded, in a transaction again.
Refuse(w, p, f) == LeaseLost(w) \/ (owner = w /\ FailItem(w, p, f))

\* The last look at source and keep, behind the boundary fence; a recursive plan has another one.
Look(w, p, f) ==
    IF ~Fresh(p, f) THEN Refuse(w, p, f)
    ELSE Step(w, IF plan[p].recursive THEN "guard" ELSE "check") /\ UNCHANGED rows

\* The live recursive protection, behind a second fence.
Protect(w, p, f) ==
    IF ~SafeNow(p, f) THEN Refuse(w, p, f)
    ELSE Step(w, "check") /\ UNCHANGED rows

Passed(w, p) == worker' = [worker EXCEPT ![w].pc = "take", ![w].gone = IF plan[p].recursive THEN @ ELSE {}]

\* Mutant of Check: the directory was counted when the plan was made, only the pair is looked at again.
CheckPair(w, p, f) ==
    /\ IF ~Fresh(p, f) THEN Step(w, "skipped") ELSE Passed(w, p)
    /\ UNCHANGED rows

\* execute_item: the top-level directory and the pair are checked before the file is moved.
Check(w, p, f) ==
    /\ IF Count(Top[f]) <= 1 \/ ~Fresh(p, f) THEN Step(w, "skipped") ELSE Passed(w, p)
    /\ UNCHANGED rows

\* Phase 3 of an item whose file stayed: the next one follows.
Settle(w, p, f) ==
    \/ LeaseLost(w)
    \/ /\ owner = w
       /\ item' = [item EXCEPT ![p][f] = worker[w].pc]
       /\ NextItem(w, p) /\ UNCHANGED plan

\* What a file was taken from, as it appears to the workers that looked at it before.
TakenBehind(w, sources) ==
    IF worker[w].pc \in {"check", "take"} THEN [worker[w] EXCEPT !.gone = @ \cup sources] ELSE worker[w]

Sources(f) == Above[In[f]] \cup {GroupOf[f]}

\* The quarantine itself; its directories may get new inodes.  A native rename has no fence, that of a capture in
\* a transaction (see QuarantineTx) commits before it: a worker that has lost the lease meanwhile takes the file.
\* Only a capture in a transaction may find the lease lost.
Take(w, p, f) ==
    \/ /\ place[f] /= "home" \/ owner /= w
       /\ Step(w, "failed") /\ UNCHANGED <<files, rows>>
    \/ /\ place[f] = "home"
       /\ place' = [place EXCEPT ![f] = p]
       /\ \E drifted \in {{}, Chain[f]} :
              identity' = [d \in Dir |-> IF d \in drifted THEN identity[d] + 1 ELSE identity[d]]
       /\ worker' = [v \in Worker |-> IF v = w THEN [worker[w] EXCEPT !.pc = "capture", !.gone = {}]
                                      ELSE TakenBehind(v, Sources(f))]
       /\ UNCHANGED <<extra, rows>>

\* capture_recursive_directory_binding_chain, if the file went where it should.
Capture(w, p, f) ==
    IF place[f] /= p THEN Refuse(w, p, f)
    ELSE /\ worker' = [worker EXCEPT ![w].pc = "record", ![w].caught = identity]
         /\ UNCHANGED rows

\* Mutant of Record: every directory is bound, not only those of the item.
RecordAll(w, p, f) ==
    \/ LeaseLost(w)
    \/ /\ owner = w
       /\ item' = [item EXCEPT ![p][f] = "completed"]
       /\ plan' = [plan EXCEPT ![p].binding = [d \in Dir |-> [id |-> worker[w].caught[d], after |-> f]]]
       /\ NextItem(w, p)

\* Phase 3: the item is completed, and its chain bound to the identities captured.
Record(w, p, f) ==
    \/ LeaseLost(w)
    \/ /\ owner = w
       /\ item' = [item EXCEPT ![p][f] = "completed"]
       /\ plan' = [plan EXCEPT ![p].binding = [d \in Dir |->
              IF plan[p].recursive /\ d \in Chain[f] THEN [id |-> worker[w].caught[d], after |-> f] ELSE @[d]]]
       /\ NextItem(w, p)

Working(w) ==
    LET p == worker[w].plan
        f == worker[w].file IN
    /\ \/ At(w, "item") /\ Intend(w, p) /\ UNCHANGED files
       \/ At(w, "fence") /\ Fence(w, "look") /\ UNCHANGED files
       \/ At(w, "look") /\ Look(w, p, f) /\ UNCHANGED files
       \/ At(w, "guard") /\ Fence(w, "protect") /\ UNCHANGED files
       \/ At(w, "protect") /\ Protect(w, p, f) /\ UNCHANGED files
       \/ At(w, "check") /\ Check(w, p, f) /\ UNCHANGED files
       \/ (At(w, "skipped") \/ At(w, "failed")) /\ Settle(w, p, f) /\ UNCHANGED files
       \/ At(w, "take") /\ Take(w, p, f)
       \/ At(w, "capture") /\ Capture(w, p, f) /\ UNCHANGED files
       \/ At(w, "record") /\ Record(w, p, f) /\ UNCHANGED files
    /\ UNCHANGED <<owner, replaced, meddles, faults>>

\* A worker that stalls loses the lease to another one; a crash loses its locals only.
TakeOver(w) ==
    /\ Trouble /\ owner /= w /\ At(w, "idle")
    /\ owner' = w /\ faults' = faults + 1
    /\ UNCHANGED <<files, rows, worker, replaced, meddles>>

Crash(w) ==
    /\ Trouble /\ ~At(w, "idle")
    /\ Stop(w) /\ faults' = faults + 1
    /\ UNCHANGED <<files, rows, owner, replaced, meddles>>

-----------------------------------------------------------------------------
(* Users                                                                   *)

Meddle == Trouble /\ meddles' = meddles + 1 /\ UNCHANGED <<rows, owner, faults>>

TakenFrom(sources) == worker' = [w \in Worker |-> TakenBehind(w, sources)]

UserRemoves(f) ==
    /\ Meddle /\ place[f] = "home"
    /\ place' = [place EXCEPT ![f] = "gone"]
    /\ TakenFrom(Sources(f))
    /\ UNCHANGED <<extra, identity, replaced>>

\* Some other file of a directory comes or goes.
UserChanges(d) ==
    /\ Meddle
    /\ extra' = [extra EXCEPT ![d] = 1 - @]
    /\ TakenFrom(IF extra[d] = 1 THEN Above[d] ELSE {})
    /\ UNCHANGED <<place, identity, replaced>>

Mutating == {"check", "take", "capture"}
Unfrozen(p) == plan[p].stage \in {"none", "selecting", "draft"}

\* The directory is replaced by another with the same files.  Between the look at it and the capture of its
\* identity nobody would notice, so that is not counted.
UserReplaces(d) ==
    /\ Meddle /\ \E p \in Plan : ~Unfrozen(p)
    /\ identity' = [identity EXCEPT ![d] = @ + 1]
    /\ replaced' = [p \in Plan |->
           IF \/ Unfrozen(p)
              \/ \E w \in Worker : worker[w].plan = p /\ worker[w].pc \in Mutating /\ d \in Chain[worker[w].file]
           THEN replaced[p] ELSE replaced[p] \cup {d}]
    /\ UNCHANGED <<place, extra, worker>>

\* A restore is a job as well: it runs while no plan does.
Restore(f) ==
    /\ Meddle /\ place[f] \in Plan /\ \A w \in Worker : At(w, "idle")
    /\ place' = [place EXCEPT ![f] = "home"]
    /\ UNCHANGED <<extra, identity, worker, replaced>>

\* A selection reads nothing but its sample, so it may as well happen at once.
Selecting == \E p \in Plan : plan[p].stage = "selecting"

Next ==
    \/ \E p \in Plan : (\E g \in Group : SelectGroup(p, g)) \/ PersistDraft(p)
    \/ ~Selecting /\ \E p \in Plan : \/ \E recursive \in BOOLEAN : Compile(p, recursive)
                                    \/ Freeze(p) \/ Validate(p)
                                    \/ \E w \in Worker : Begin(w, p)
    \/ ~Selecting /\ \E w \in Worker : Working(w) \/ TakeOver(w) \/ Crash(w)
    \/ ~Selecting /\ \E f \in File : UserRemoves(f) \/ Restore(f)
    \/ ~Selecting /\ \E d \in Others : UserChanges(d)
    \/ ~Selecting /\ \E d \in Dir : UserReplaces(d)

Spec == Init /\ [][Next]_vars
-----------------------------------------------------------------------------
(* Properties                                                              *)

\* The worker's step that takes its file from where it was.
Takes(w) ==
    LET f == worker[w].file IN
    At(w, "take") /\ worker'[w].pc = "capture" /\ place[f] = "home" /\ place'[f] = worker[w].plan

(* Taking a file leaves a regular file in every directory the plan has to  *)
(* protect, and a copy of the file itself, unless somebody else took one   *)
(* since the worker looked (executor.py:695): a user, or another worker    *)
(* when one of the two had lost the lease.  A worker without the lease     *)
(* takes the one file it was about to take, and goes on to no other.       *)
LeavesOne ==
    [][\A w \in Worker :
           LET p == worker[w].plan
               f == worker[w].file IN
           /\ Takes(w) =>
                  /\ \A d \in Protected(p, f) : d \in worker[w].gone \/ Count(d)' >= 1
                  /\ \/ GroupOf[f] \in worker[w].gone
                     \/ \E x \in Copies[GroupOf[f]] : place'[x] = "home"
           /\ owner /= w /\ worker'[w].pc = "item" => At(w, "item")]_vars

(* Although a filesystem renumbers directories, and each item trusts what  *)
(* the one before it captured, no file is taken from a directory that was  *)
(* replaced since the plan was frozen (_trusted_recursive_runtime_identities). *)
TrustedDirectories ==
    [][\A w \in Worker : Takes(w) /\ plan[worker[w].plan].recursive =>
           Chain[worker[w].file] \cap replaced[worker[w].plan] = {}]_vars

(* The selection never asks for what its execution must refuse: a plan     *)
(* nobody disturbs, no user, fault or other plan, has no failing item,     *)
(* whatever the order of its groups and however its scan roots overlap.    *)
SelectionIsExecutable ==
    \A p \in Plan, f \in File :
        item[p][f] \in {"failed", "skipped"} =>
            \/ meddles > 0 \/ faults > 0
            \/ \E other \in Plan \ {p} : Completed(other) /= {} \/ \E w \in Worker : worker[w].plan = other

(* The rows of the tables, and the locals of a worker.                     *)
PlanRow == [stage: {"none", "selecting", "draft", "frozen", "ready", "executing", "partial", "stale", "completed"},
            recursive: BOOLEAN, todo: SUBSET Group, snapshot: [Dir -> Nat], keep: [Group -> File \cup {None}],
            frozen: [Dir -> Nat], binding: [Dir -> [id: Nat, after: File \cup {None}]]]
ItemState == {"none", "planned", "executing", "completed", "failed", "skipped"}
WorkerRow == [pc: {"idle", "item", "fence", "look", "guard", "protect", "check", "take",
                   "skipped", "failed", "capture", "record"},
              plan: Plan \cup {None}, file: File \cup {None}, caught: [Dir -> Nat], gone: SUBSET (Dir \cup Group)]
TypeOK ==
    /\ place \in [File -> {"home", "gone"} \cup Plan]
    /\ extra \in [Dir -> 0..1] /\ identity \in [Dir -> Nat]
    /\ plan \in [Plan -> PlanRow] /\ item \in [Plan -> [File -> ItemState]]
    /\ worker \in [Worker -> WorkerRow] /\ owner \in Worker
    /\ replaced \in [Plan -> SUBSET Dir]
    /\ meddles \in 0..MaxTroubles /\ faults \in 0..MaxTroubles
=============================================================================
