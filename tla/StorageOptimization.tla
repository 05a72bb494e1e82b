------------------------- MODULE StorageOptimization -------------------------
(***************************************************************************)
(* Replacing a duplicate by a hard link to, or a reflink of, the kept file *)
(* (app/storage_optimization/executor.py) and the part of the plan handler *)
(* that leads there.  The transaction owns two hidden names beside the     *)
(* source, ".new" and ".old"; it prepares the replacement under ".new",    *)
(* links the source to ".old", unlinks the source, links ".new" to the     *)
(* source's name and only then unlinks ".old".  Every phase is journalled  *)
(* under the worker lease, and the call is meant to be repeated after a    *)
(* crash: it starts over from the journal and from what it finds on disk.  *)
(*                                                                         *)
(* A name leads to the file Original (the frozen source), Kept (the frozen *)
(* kept file), Clone (a reflink), Partial (a reflink not filled yet), a    *)
(* user's file Alien, or None.  Link counts are left out: here nobody else *)
(* links to the files.  Reads that directly follow each other, and a       *)
(* qualification with its hash, are one step.                              *)
(***************************************************************************)
EXTENDS Naturals

CONSTANTS
    Worker,
    MaxFaults,     \* bound on crashes, takeovers of the lease and failing system calls
    MaxTampers,    \* bound on the changes users make to the files
    Original, Kept, Clone, Partial, Alien, None

File == {Original, Kept, Clone, Partial, Alien}

ASSUME StorageOptimizationAssumption ==
    /\ MaxFaults \in Nat /\ MaxTampers \in Nat
    /\ LET contents == <<Original, Kept, Clone, Partial, Alien, None>> IN
       \A i, j \in 1..6 : contents[i] = contents[j] => i = j

VARIABLES
    kind,     \* "hardlink" or "reflink": the operation of the item
    owner,    \* the owner of the task lock
    item,     \* state of the batch_plan_items row
    journal,  \* phases of the operation_journals rows
    audits,   \* number of audit events of the completed item
    place,    \* what the names lead to
    frame,    \* what each worker is in the middle of
    faults, tampers,
    late      \* whether a worker without the lease has changed a file (history)

vars == <<kind, owner, item, journal, audits, place, frame, faults, tampers, late>>

-----------------------------------------------------------------------------
Kind == {"hardlink", "reflink"}
ItemState == {"planned", "executing", "completed", "failed"}
Place == {"source", "new", "old", "keep"}
Content == File \cup {None}

Phase == {"prepare_new_intent", "prepared_new", "capture_old_intent", "captured_old", "source_retire_intent",
          "source_retired", "publish_intent", "published", "old_retire_intent", "completed"}

(* Steps that write a journal row, fences that renew the lease, and steps  *)
(* on the files.                                                           *)
JournalPc == Phase
FencePc == {"fence_new", "fence_capture", "fence_retire", "fence_publish", "fence_alias", "fence_old"}
LookPc == {"pair", "open", "look_new", "check_new", "look_old", "check_source", "check_captured", "look_source",
           "check_retire", "look_publish", "check_publish", "check_published", "recheck", "look_alias", "look_retire"}
FilePc == {"make_new", "clone", "link_old", "unlink_source", "link_source", "unlink_alias", "unlink_old"}
LeasePc == JournalPc \cup FencePc \cup {"done", "failed"}
Pc == {"idle"} \cup LeasePc \cup LookPc \cup FilePc

\* What the published name must lead to (_qualify_new, _qualify_published).
Replacement == IF kind = "hardlink" THEN Kept ELSE Clone

Holding(w) == owner = w
At(w, pc) == frame[w] = pc
Go(w, pc) == frame' = [frame EXCEPT ![w] = pc]
Journalled(phase) == phase \in journal

db == <<kind, owner, item, journal, audits>>
env == <<faults, tampers, late>>

Init ==
    /\ kind \in Kind /\ owner \in Worker
    /\ item = "planned" /\ journal = {} /\ audits = 0
    /\ place = [p \in Place |-> CASE p = "source" -> Original [] p = "keep" -> Kept [] OTHER -> None]
    /\ frame = [w \in Worker |-> "idle"]
    /\ faults = 0 /\ tampers = 0 /\ late = FALSE

-----------------------------------------------------------------------------
(* The plan's handler around the transaction                               *)

Fresh == place["source"] = Original /\ place["keep"] = Kept

(* The freshness checks of the preflight and of the item's boundary, then  *)
(* the intent; they ask for the frozen identity whatever was done before.  *)
Start(w) ==
    /\ Holding(w) /\ At(w, "idle") /\ item = "planned"
    /\ IF Fresh THEN item' = "executing" /\ Go(w, "pair") ELSE item' = "failed" /\ UNCHANGED frame
    /\ UNCHANGED <<kind, owner, journal, audits, place, env>>

\* Phase 3 of the handler, after the call returned or raised; the audit event is there already.
ItemDone(w) ==
    /\ Holding(w) /\ At(w, "done")
    /\ item' = "completed" /\ Go(w, "idle")
    /\ UNCHANGED <<kind, owner, journal, audits, place, env>>

ItemFailed(w) ==
    /\ Holding(w) /\ At(w, "failed")
    /\ item' = "failed" /\ Go(w, "idle")
    /\ UNCHANGED <<kind, owner, journal, audits, place, env>>

\* Mutant of Recover: reconciliation leaves the operation to somebody else.
RecoverNothing(w) == Holding(w) /\ At(w, "idle") /\ item = "executing" /\ UNCHANGED vars

\* _reconcile_executing_item touches no file and has the item executed again.
Recover(w) ==
    /\ Holding(w) /\ At(w, "idle") /\ item = "executing"
    /\ item' = "planned"
    /\ UNCHANGED <<kind, owner, journal, audits, place, frame, env>>

-----------------------------------------------------------------------------
(* execute_storage_optimization                                            *)

\* A look at the files and the journal that decides what comes next.
Decide(w, pc, next) == At(w, pc) /\ Go(w, next) /\ UNCHANGED <<db, place, env>>

(* _phase_journal: nothing is written without the lease, for an item that  *)
(* is not executing, or twice; the completion brings its audit event.      *)
Journal(w, phase, next) ==
    /\ Holding(w) /\ At(w, phase)
    /\ IF item /= "executing" THEN Go(w, "failed") /\ UNCHANGED <<journal, audits>>
       ELSE /\ Go(w, next)
            /\ journal' = journal \cup {phase}
            /\ audits' = audits + IF phase = "completed" /\ ~Journalled(phase) THEN 1 ELSE 0
    /\ UNCHANGED <<kind, owner, item, place, env>>

\* renew_and_assert_worker_lease, right before a system call that changes a name.
Fence(w, pc, next) == Holding(w) /\ Decide(w, pc, next)

\* Such a call, which fails with the item when the names do not allow it.
Call(w, pc, possible, p, c, next) ==
    /\ At(w, pc)
    /\ IF possible THEN place' = [place EXCEPT ![p] = c] /\ Go(w, next)
       ELSE Go(w, "failed") /\ UNCHANGED place
    /\ late' = (late \/ ~Holding(w))
    /\ UNCHANGED <<db, faults, tampers>>

\* link(2) never replaces a name.
Link(w, pc, from, to, next) == Call(w, pc, place[from] /= None /\ place[to] = None, to, place[from], next)
Unlink(w, pc, p, next) == Call(w, pc, place[p] /= None, p, None, next)

\* verify_duplicate_pair in execute_item: two files with the frozen size and hash.
VerifyPair(w) ==
    Decide(w, "pair", IF place["source"] \in {Original, Kept, Clone} /\ place["keep"] \in {Original, Kept, Clone}
                      THEN "open" ELSE "failed")

(* The kept file must be the frozen one and hidden names must be explained *)
(* by the journal; after that the journal says where to go on.             *)
Open(w) ==
    Decide(w, "open",
        CASE \/ place["keep"] /= Kept
             \/ place["new"] /= None /\ ~Journalled("prepare_new_intent")
             \/ place["old"] /= None /\ ~Journalled("capture_old_intent") -> "failed"
          [] OTHER ->
             CASE Journalled("completed") ->
                      IF place["source"] = Replacement /\ place["old"] = None THEN "done" ELSE "failed"
               [] Journalled("published") /\ ~Journalled("completed") -> "recheck"
               [] ~Journalled("published") /\ place["new"] = None /\ place["old"] = None /\ ~Journalled("prepared_new") ->
                      IF place["source"] = Original THEN "prepare_new_intent" ELSE "failed"
               [] OTHER -> IF Journalled("prepare_new_intent") THEN "look_new" ELSE "failed")

PrepareNew(w) == Journal(w, "prepare_new_intent", "look_new")

LookNew(w) == Decide(w, "look_new", IF place["new"] = None THEN "fence_new" ELSE "check_new")

FenceNew(w) == Fence(w, "fence_new", "make_new")

\* A hard link follows the kept name; a reflink starts as an empty file of its own.
MakeNew(w) ==
    IF kind = "hardlink" THEN Link(w, "make_new", "keep", "new", "check_new")
    ELSE Call(w, "make_new", place["new"] = None, "new", Partial, "clone")

\* FICLONE from the open kept file, its verification and the source's metadata.
CloneNew(w) == Call(w, "clone", TRUE, "new", IF place["new"] = Partial THEN Clone ELSE place["new"], "check_new")

CheckNew(w) == Decide(w, "check_new", IF place["new"] = Replacement THEN "prepared_new" ELSE "failed")

PreparedNew(w) == Journal(w, "prepared_new", "look_old")

LookOld(w) ==
    Decide(w, "look_old",
        IF place["old"] = None THEN IF place["source"] = None THEN "failed" ELSE "capture_old_intent"
        ELSE IF Journalled("capture_old_intent") /\ place["old"] = Original THEN "captured_old" ELSE "failed")

\* Mutant of CaptureIntent: the source goes before it is captured, as nothing but its name is needed.
RetireUncaptured(w) == Journal(w, "capture_old_intent", "fence_retire")

CaptureIntent(w) == Journal(w, "capture_old_intent", "check_source")

CheckSource(w) == Decide(w, "check_source", IF place["source"] = Original THEN "fence_capture" ELSE "failed")

FenceCapture(w) == Fence(w, "fence_capture", "link_old")

LinkOld(w) == Link(w, "link_old", "source", "old", "check_captured")

CheckCaptured(w) == Decide(w, "check_captured", IF place["old"] = Original THEN "captured_old" ELSE "failed")

CapturedOld(w) == Journal(w, "captured_old", "look_source")

LookSource(w) ==
    Decide(w, "look_source", IF place["source"] = Original THEN "source_retire_intent" ELSE "look_publish")

RetireIntent(w) == Journal(w, "source_retire_intent", "check_retire")

\* The source must still have its second link, the hidden name.
CheckRetire(w) ==
    Decide(w, "check_retire",
        IF place["source"] = Original /\ place["old"] = Original THEN "fence_retire" ELSE "failed")

FenceRetire(w) == Fence(w, "fence_retire", "unlink_source")

UnlinkSource(w) == Unlink(w, "unlink_source", "source", "source_retired")

SourceRetired(w) ==
    IF place["old"] = Original THEN Journal(w, "source_retired", "look_publish")
    ELSE Holding(w) /\ Decide(w, "source_retired", "failed")

\* A name that is there already is the publication only if the journal and the file say so.
LookPublish(w) ==
    Decide(w, "look_publish",
        CASE Journalled("published") -> "recheck"
          [] ~Journalled("published") /\ place["source"] = None -> "publish_intent"
          [] OTHER -> IF Journalled("publish_intent") /\ place["new"] = Replacement /\ place["source"] = Replacement
                      THEN "check_published" ELSE "failed")

PublishIntent(w) == Journal(w, "publish_intent", "check_publish")

CheckPublish(w) == Decide(w, "check_publish", IF place["new"] = Replacement THEN "fence_publish" ELSE "failed")

FencePublish(w) == Fence(w, "fence_publish", "link_source")

LinkSource(w) == Link(w, "link_source", "new", "source", "check_published")

CheckPublished(w) == Decide(w, "check_published", IF place["source"] = Replacement THEN "published" ELSE "failed")

Published(w) == Journal(w, "published", "recheck")

\* Mutant of Recheck: only a repetition looks for the hidden names.
RecheckOnly(w) == Decide(w, "recheck", IF place["source"] = Replacement THEN "old_retire_intent" ELSE "failed")

Recheck(w) == Decide(w, "recheck", IF place["source"] = Replacement THEN "look_alias" ELSE "failed")

LookAlias(w) ==
    Decide(w, "look_alias", CASE place["new"] = None -> "old_retire_intent"
                              [] place["new"] /= None /\ place["new"] = place["source"] -> "fence_alias"
                              [] OTHER -> "failed")

FenceAlias(w) == Fence(w, "fence_alias", "unlink_alias")

UnlinkAlias(w) == Unlink(w, "unlink_alias", "new", "old_retire_intent")

OldRetireIntent(w) == Journal(w, "old_retire_intent", "look_retire")

\* Mutant of LookRetire: the published name was checked when it was published.
RetireUnchecked(w) ==
    Decide(w, "look_retire", CASE place["old"] = None -> "completed"
                               [] place["old"] = Original -> "fence_old"
                               [] OTHER -> "failed")

\* The published name is looked at once more before the last original name goes.
LookRetire(w) ==
    Decide(w, "look_retire", CASE place["old"] = None -> "completed"
                               [] place["old"] = Original /\ place["source"] = Replacement -> "fence_old"
                               [] OTHER -> "failed")

FenceOld(w) == Fence(w, "fence_old", "unlink_old")

UnlinkOld(w) == Unlink(w, "unlink_old", "old", "completed")

Complete(w) == Journal(w, "completed", "done")

-----------------------------------------------------------------------------
(* The environment                                                         *)

\* A worker that is not the owner any more stops at its next lease assertion.
Abandon(w) == ~Holding(w) /\ frame[w] \in LeasePc /\ Go(w, "idle") /\ UNCHANGED <<db, place, env>>

Crash(w) ==
    /\ faults < MaxFaults /\ ~At(w, "idle")
    /\ Go(w, "idle") /\ faults' = faults + 1
    /\ UNCHANGED <<db, place, tampers, late>>

\* A system call fails (a full disk, too many links, an I/O error).
CallFails(w) ==
    /\ faults < MaxFaults /\ frame[w] \in FilePc
    /\ Go(w, "failed") /\ faults' = faults + 1
    /\ UNCHANGED <<db, place, tampers, late>>

TakeOver(w) ==
    /\ faults < MaxFaults /\ ~Holding(w) /\ At(w, "idle")
    /\ owner' = w /\ faults' = faults + 1
    /\ UNCHANGED <<kind, item, journal, audits, place, frame, tampers, late>>

(* A user removes a file or puts one of theirs.  Between the last look at  *)
(* the files and the unlink it allows, nobody does: no check could notice. *)
Unlinking == \E w \in Worker :
    frame[w] \in {"fence_retire", "unlink_source", "fence_alias", "unlink_alias", "fence_old", "unlink_old"}

Tamper(p, c) ==
    /\ tampers < MaxTampers /\ place[p] /= c /\ ~Unlinking
    /\ place' = [place EXCEPT ![p] = c]
    /\ tampers' = tampers + 1
    /\ UNCHANGED <<db, frame, faults, late>>

-----------------------------------------------------------------------------
Replace(w) ==
    \/ VerifyPair(w) \/ Open(w) \/ PrepareNew(w) \/ LookNew(w) \/ FenceNew(w) \/ MakeNew(w) \/ CloneNew(w)
    \/ CheckNew(w) \/ PreparedNew(w) \/ LookOld(w) \/ CaptureIntent(w) \/ CheckSource(w) \/ FenceCapture(w)
    \/ LinkOld(w) \/ CheckCaptured(w) \/ CapturedOld(w) \/ LookSource(w) \/ RetireIntent(w) \/ CheckRetire(w)
    \/ FenceRetire(w) \/ UnlinkSource(w) \/ SourceRetired(w) \/ LookPublish(w) \/ PublishIntent(w)
    \/ CheckPublish(w) \/ FencePublish(w) \/ LinkSource(w) \/ CheckPublished(w) \/ Published(w) \/ Recheck(w)
    \/ LookAlias(w) \/ FenceAlias(w) \/ UnlinkAlias(w) \/ OldRetireIntent(w) \/ LookRetire(w) \/ FenceOld(w)
    \/ UnlinkOld(w) \/ Complete(w)

Run(w) == Replace(w) \/ ItemDone(w) \/ ItemFailed(w) \/ Recover(w) \/ Abandon(w)

Next ==
    \/ \E w \in Worker : Start(w) \/ Run(w) \/ Crash(w) \/ CallFails(w) \/ TakeOver(w)
    \/ \E p \in Place, c \in {None, Alien} : Tamper(p, c)

Spec == Init /\ [][Next]_vars

\* A worker process keeps executing what it has begun, and recovery is retried.
FairSpec == Spec /\ \A w \in Worker : WF_vars(Run(w))
-----------------------------------------------------------------------------
(* Properties                                                              *)

\* Every variable has the values the code gives it, and the completion is audited once.
TypeOK ==
    /\ kind \in Kind /\ owner \in Worker /\ item \in ItemState
    /\ journal \subseteq Phase /\ audits \in 0..1
    /\ place \in [Place -> Content]
    /\ frame \in [Worker -> Pc]
    /\ faults \in 0..MaxFaults /\ tampers \in 0..MaxTampers /\ late \in BOOLEAN

Undisturbed == tampers = 0 /\ ~late
Holders == {p \in {"source", "old"} : place[p] \in {Original, Replacement}}

(* However often it is interrupted and repeated, and whichever call fails, *)
(* the payload can be found at the source or beside it under ".old", not   *)
(* just in the kept file (executor.py:943-1270).                          *)
PayloadStays == Undisturbed => Holders /= {}

(* The last name of the original goes only once its replacement has been   *)
(* published and recorded, and is found in its place (executor.py:1258).   *)
OriginalGivenUpLast ==
    [][(\E p \in Place : place[p] = Original) /\ (\A p \in Place : place'[p] /= Original) =>
           \/ tampers' /= tampers \/ late'
           \/ "published" \in journal /\ place["source"] = Replacement]_vars

(* An item is reported completed only with its replacement in place, the   *)
(* hidden names gone and the completion audited.                           *)
TruthfulCompletion ==
    [][item /= "completed" /\ item' = "completed" =>
           /\ audits = 1
           /\ Undisturbed => place["source"] = Replacement /\ place["new"] = None /\ place["old"] = None]_vars

(* Whatever is interrupted, an executing item ends up completed, failed or *)
(* planned again (_reconcile_executing_item).                              *)
InterruptedItemSettles == (item = "executing") ~> (item /= "executing")
=============================================================================
