----------------------------- MODULE QuarantineTx -----------------------------
(***************************************************************************)
(* Quarantine and restore within one file system (app/quarantine/          *)
(* engine.py, restore.py, reconcile.py): nothing is copied and nothing is  *)
(* unlinked.  An attempt directory holds up to three private names: the    *)
(* anchor, a hard link to the payload; the captured source, where the      *)
(* original name is renamed to; and the captured view, where a restore     *)
(* renames the public quarantine name to.  Every phase is committed under  *)
(* the worker lease, and a new owner of the lease converges the entry from *)
(* what it finds on disk, while the old owner may only be slow.            *)
(*                                                                         *)
(* One file, one quarantine item and, once that completed, its restore.    *)
(* A name leads to Original (the frozen inode), to a user's other file     *)
(* Alien, or to None.  A row's snapshot and the stats that directly follow *)
(* it are one step, as are a new generation and the mkdir of its attempt.  *)
(***************************************************************************)
EXTENDS Naturals, FiniteSets

CONSTANTS
    Worker,
    MaxGen,        \* bound on the attempt directories
    MaxFaults,     \* bound on crashes and takeovers of the lease
    MaxTampers,    \* bound on the changes users make to the files
    Original, Alien, None

ASSUME QuarantineTxAssumption ==
    /\ MaxGen \in Nat /\ MaxFaults \in Nat /\ MaxTampers \in Nat
    /\ Original /= Alien /\ Original /= None /\ Alien /= None

VARIABLES
    owner,    \* the owner of the task lock
    entry,    \* the quarantine_entries row
    item,     \* state of the batch_plan_items row of each operation
    place,    \* what the original path and the public quarantine path lead to
    slot,     \* what the private names of each attempt lead to
    frame,    \* what each worker is in the middle of
    faults, tampers,
    late      \* whether a worker without the lease has changed a file (history)

vars == <<owner, entry, item, place, slot, frame, faults, tampers, late>>

-----------------------------------------------------------------------------
Op == {"quarantine", "restore"}
Place == {"home", "public"}
Slot == {"anchor", "source", "view"}
Gen == 1..MaxGen
Content == {None, Original, Alien}

Phase == {"none", "preparing", "candidate_anchored", "authoritative_anchored", "public_published",
          "source_captured", "active", "restoring", "restored", "conflict"}
EntryState == {"preparing", "active", "restoring", "restored", "conflict", "abandoned"}
ItemState == {"planned", "executing", "completed", "failed"}

(* Steps that assert the lease in a transaction, and steps on the files.   *)
LeasePc == {"open", "open_restore", "allocate", "fence_anchor", "note_anchored", "promote", "fence_public",
            "note_published", "fence_capture", "note_captured", "reallocate", "allocate_capture", "fence_home",
            "allocate_view", "fence_view", "finalize", "done", "failed", "conflict", "settle"}
FilePc == {"anchor", "qualify", "publish", "capture", "check_captured", "look", "classify_public", "scan",
           "verify", "scan_views", "destination", "put_home", "view", "check_view"}
Pc == {"idle"} \cup LeasePc \cup FilePc

Idle == [pc |-> "idle", op |-> "quarantine", via |-> "plan", gen |-> 0, anchor |-> 0, seen |-> "none"]

\* Attempts up to "since" belong to earlier entries of the item.
FreshEntry(n) == [state |-> "preparing", phase |-> "none", gen |-> n, since |-> n, anchor |-> 0]

Attempts == {g \in Gen : entry.since < g /\ g <= entry.gen}
Filled(s) == {g \in Attempts : slot[g][s] /= None}
First(S) == CHOOSE g \in S : \A h \in S : g <= h

Holding(w) == owner = w
At(w, pc) == frame[w].pc = pc
Doing(w, op) == frame[w].op = op
Recovering(w) == frame[w].via = "recovery"

Go(w, pc) == frame' = [frame EXCEPT ![w].pc = pc]
Stop(w) == frame' = [frame EXCEPT ![w] = Idle]

db == <<owner, entry, item>>
disk == <<place, slot>>
env == <<faults, tampers, late>>

\* A transaction that asserts the lease, goes on to another step and leaves files alone.
Transact(w, pc, next) ==
    /\ Holding(w) /\ At(w, pc) /\ Go(w, next)
    /\ UNCHANGED <<owner, item, disk, env>>

\* A filesystem call that changes the names of a file.
Mutate(w) == late' = (late \/ ~Holding(w)) /\ UNCHANGED <<faults, tampers>>

\* A look at the files that decides what comes next.
Decide(w, pc, next) == At(w, pc) /\ Go(w, next) /\ UNCHANGED <<db, disk, env>>

\* What an exception in a filesystem call leads to.
Error(w) == IF Recovering(w) THEN "conflict" ELSE "failed"

Init ==
    /\ owner \in Worker
    /\ entry = FreshEntry(0)
    /\ item = [op \in Op |-> "planned"]
    /\ place = [home |-> Original, public |-> None]
    /\ slot = [g \in Gen |-> [s \in Slot |-> None]]
    /\ frame = [w \in Worker |-> Idle]
    /\ faults = 0 /\ tampers = 0 /\ late = FALSE

-----------------------------------------------------------------------------
(* Phase 1 of the plan's handler                                           *)

(* A new entry for the item, unless the source is not the one that was     *)
(* frozen.  Each entry has a public path of its own; here one stands for   *)
(* all, as if what a user left at one had been put at the next.            *)
IntendQuarantine(w) ==
    /\ Holding(w) /\ At(w, "idle") /\ item["quarantine"] = "planned"
    /\ IF place["home"] = Original
       THEN /\ item' = [item EXCEPT !["quarantine"] = "executing"]
            /\ entry' = FreshEntry(entry.gen)
            /\ frame' = [frame EXCEPT ![w] = [Idle EXCEPT !.pc = "open"]]
       ELSE /\ item' = [item EXCEPT !["quarantine"] = "failed"]
            /\ UNCHANGED <<entry, frame>>
    /\ UNCHANGED <<owner, disk, env>>

IntendRestore(w) ==
    /\ Holding(w) /\ At(w, "idle")
    /\ item["quarantine"] = "completed" /\ item["restore"] = "planned" /\ entry.state = "active"
    /\ item' = [item EXCEPT !["restore"] = "executing"]
    /\ entry' = [entry EXCEPT !.state = "restoring", !.phase = "restoring"]
    /\ frame' = [frame EXCEPT ![w] = [Idle EXCEPT !.pc = "open_restore", !.op = "restore"]]
    /\ UNCHANGED <<owner, disk, env>>

-----------------------------------------------------------------------------
(* execute_transactional_quarantine                                        *)

Open(w) ==
    /\ Transact(w, "open", "allocate")
    /\ entry' = [entry EXCEPT !.phase = "preparing"]

Allocated(w, pc, next) ==
    /\ Holding(w) /\ At(w, pc) /\ entry.gen < MaxGen
    /\ entry' = [entry EXCEPT !.gen = @ + 1]
    /\ frame' = [frame EXCEPT ![w].pc = next, ![w].gen = entry.gen + 1]
    /\ UNCHANGED <<owner, item, disk, env>>

Allocate(w) == Allocated(w, "allocate", "fence_anchor")

FenceAnchor(w) == Transact(w, "fence_anchor", "anchor") /\ UNCHANGED entry

\* The link follows the name, whatever file it leads to by now.
LinkAnchor(w) ==
    /\ At(w, "anchor")
    /\ IF place["home"] = None THEN Go(w, "failed") /\ UNCHANGED slot
       ELSE slot' = [slot EXCEPT ![frame[w].gen]["anchor"] = place["home"]] /\ Go(w, "note_anchored")
    /\ UNCHANGED <<db, place>> /\ Mutate(w)

NoteAnchored(w) ==
    /\ Transact(w, "note_anchored", "qualify")
    /\ entry' = [entry EXCEPT !.phase = "candidate_anchored"]

Qualify(w) == Decide(w, "qualify", IF slot[frame[w].gen]["anchor"] = Original THEN "promote" ELSE "conflict")

Promote(w) ==
    /\ Holding(w) /\ At(w, "promote")
    /\ entry' = [entry EXCEPT !.phase = "authoritative_anchored", !.anchor = frame[w].gen]
    /\ frame' = [frame EXCEPT ![w].pc = IF Recovering(w) THEN "classify_public" ELSE "fence_public",
                              ![w].anchor = frame[w].gen]
    /\ UNCHANGED <<owner, item, disk, env>>

FencePublic(w) == Transact(w, "fence_public", "publish") /\ UNCHANGED entry

\* link(2) never replaces: a name that has appeared meanwhile is a conflict.
LinkPublic(w) ==
    /\ At(w, "publish")
    /\ IF place["public"] /= None THEN Go(w, "conflict") /\ UNCHANGED place
       ELSE place' = [place EXCEPT !["public"] = slot[frame[w].anchor]["anchor"]] /\ Go(w, "note_published")
    /\ UNCHANGED <<db, slot>> /\ Mutate(w)

NotePublished(w) ==
    /\ Transact(w, "note_published", IF Recovering(w) THEN "scan" ELSE "fence_capture")
    /\ entry' = [entry EXCEPT !.phase = "public_published"]

FenceCapture(w) == Transact(w, "fence_capture", "capture") /\ UNCHANGED entry

\* rename(2) takes what the name leads to now, and replaces what the slot holds.
Capture(w, p, s, next) ==
    /\ IF place[p] = None THEN Go(w, Error(w)) /\ UNCHANGED disk
       ELSE /\ slot' = [slot EXCEPT ![frame[w].gen][s] = place[p]]
            /\ place' = [place EXCEPT ![p] = None]
            /\ Go(w, next)
    /\ UNCHANGED db /\ Mutate(w)

CaptureSource(w) ==
    At(w, "capture") /\ Capture(w, "home", "source", IF Recovering(w) THEN "check_captured" ELSE "note_captured")

NoteCaptured(w) ==
    /\ Transact(w, "note_captured", "check_captured")
    /\ entry' = [entry EXCEPT !.phase = "source_captured"]

\* Mutant of CheckCaptured: the rename succeeded, so the file is the one.
BelieveCaptured(w) == Decide(w, "check_captured", "finalize")

CheckCaptured(w) ==
    Decide(w, "check_captured", IF slot[frame[w].gen]["source"] = Original THEN "finalize" ELSE "conflict")

Finished(w) == IF Recovering(w) THEN "settle" ELSE "done"

FinalizeActive(w) ==
    /\ Transact(w, "finalize", Finished(w)) /\ Doing(w, "quarantine")
    /\ entry' = [entry EXCEPT !.state = "active", !.phase = "active"]

MarkConflict(w) ==
    /\ Transact(w, "conflict", IF Recovering(w) THEN "settle" ELSE "failed")
    /\ entry' = [entry EXCEPT !.state = "conflict", !.phase = "conflict"]

-----------------------------------------------------------------------------
(* execute_transactional_restore, called with the entry already restoring  *)

OpenRestore(w) ==
    /\ Holding(w) /\ At(w, "open_restore")
    /\ entry' = [entry EXCEPT !.state = "restoring", !.phase = "restoring"]
    /\ frame' = [frame EXCEPT ![w].pc = "verify", ![w].anchor = entry.anchor, ![w].seen = entry.state]
    /\ UNCHANGED <<owner, item, disk, env>>

VerifyAnchor(w) ==
    Decide(w, "verify", IF slot[frame[w].anchor]["anchor"] = Original THEN "scan_views" ELSE "conflict")

\* The first captured view of any attempt decides; without one the public name must still be there.
ScanViews(w) ==
    LET views == Filled("view")
    IN Decide(w, "scan_views",
           IF views /= {}
           THEN IF slot[First(views)]["view"] = Original THEN "destination" ELSE "conflict"
           ELSE IF place["public"] = None THEN "conflict"
                ELSE IF Recovering(w) THEN "allocate_view" ELSE "destination")

\* After the destination: a restore whose view was not captured yet still has to capture it.
AfterHome(w) == IF Recovering(w) \/ Filled("view") /= {} THEN "finalize" ELSE "allocate_view"

Destination(w) ==
    Decide(w, "destination", CASE place["home"] = None -> "fence_home"
                               [] place["home"] = Original -> AfterHome(w)
                               [] OTHER -> "conflict")

FenceHome(w) == Transact(w, "fence_home", "put_home") /\ UNCHANGED entry

\* Mutant of LinkHome: a rename into place, which replaces what is there.
LinkHomeReplacing(w) ==
    /\ At(w, "put_home")
    /\ place' = [place EXCEPT !["home"] = slot[frame[w].anchor]["anchor"]] /\ Go(w, AfterHome(w))
    /\ UNCHANGED <<db, slot>> /\ Mutate(w)

LinkHome(w) ==
    /\ At(w, "put_home")
    /\ IF place["home"] /= None THEN Go(w, Error(w)) /\ UNCHANGED place
       ELSE place' = [place EXCEPT !["home"] = slot[frame[w].anchor]["anchor"]] /\ Go(w, AfterHome(w))
    /\ UNCHANGED <<db, slot>> /\ Mutate(w)

AllocateView(w) == Allocated(w, "allocate_view", "fence_view")

FenceView(w) == Transact(w, "fence_view", "view") /\ UNCHANGED entry

CaptureView(w) == At(w, "view") /\ Capture(w, "public", "view", "check_view")

\* A first run also needs the destination, which it stats for the row.
CheckView(w) ==
    Decide(w, "check_view",
        CASE slot[frame[w].gen]["view"] /= Original -> "conflict"
          [] slot[frame[w].gen]["view"] = Original /\ Recovering(w) -> "destination"
          [] OTHER -> IF place["home"] = None THEN "failed" ELSE "finalize")

FinalizeRestored(w) ==
    /\ Transact(w, "finalize", Finished(w)) /\ Doing(w, "restore")
    /\ entry' = [entry EXCEPT !.state = "restored", !.phase = "restored"]

-----------------------------------------------------------------------------
(* Phase 3 of the plan's handler                                           *)

ItemFailed(w) ==
    /\ Holding(w) /\ At(w, "failed")
    /\ item' = [item EXCEPT ![frame[w].op] = "failed"]
    /\ entry' = CASE entry.state = "conflict" -> entry
                  [] entry.state /= "conflict" /\ Doing(w, "quarantine") -> [entry EXCEPT !.state = "abandoned"]
                  [] OTHER -> [entry EXCEPT !.state = "conflict", !.phase = "conflict"]
    /\ Stop(w)
    /\ UNCHANGED <<owner, disk, env>>

\* A quarantine only counts when the source name is gone and the public name is there.
ItemDone(w) ==
    /\ Holding(w) /\ At(w, "done")
    /\ IF Doing(w, "restore") \/ (place["home"] = None /\ place["public"] /= None)
       THEN item' = [item EXCEPT ![frame[w].op] = "completed"] /\ UNCHANGED entry
       ELSE /\ item' = [item EXCEPT !["quarantine"] = "failed"]
            /\ entry' = [entry EXCEPT !.state = "conflict", !.phase = "conflict"]
    /\ Stop(w)
    /\ UNCHANGED <<owner, disk, env>>

-----------------------------------------------------------------------------
(* Recovery: _run_reconciliation_flow, then the item is settled            *)

Recover(w) ==
    \E op \in Op :
        /\ Holding(w) /\ At(w, "idle") /\ item[op] = "executing"
        /\ frame' = [frame EXCEPT ![w] = [Idle EXCEPT !.op = op, !.via = "recovery",
               !.pc = IF entry.phase = "none" \/ entry.state \notin {"preparing", "restoring"}
                      THEN "settle" ELSE "look"]]
        /\ UNCHANGED <<db, disk, env>>

\* _reconcile_preparing: the snapshot of the row, and the candidate it speaks of.
LookPreparing(w) ==
    LET candidate == IF entry.gen > entry.since THEN slot[entry.gen]["anchor"] ELSE None
    IN /\ At(w, "look") /\ Doing(w, "quarantine")
       /\ frame' = [frame EXCEPT ![w].gen = entry.gen, ![w].anchor = entry.anchor, ![w].seen = entry.phase,
              ![w].pc = CASE entry.phase \in {"preparing", "candidate_anchored"} ->
                                 (CASE candidate = Original -> "promote"
                                    [] candidate = None /\ place["home"] /= None -> "reallocate"
                                    [] OTHER -> "conflict")
                          [] entry.phase = "authoritative_anchored" -> "classify_public"
                          [] entry.phase = "public_published" -> "scan"
                          [] OTHER -> "settle"]
       /\ UNCHANGED <<db, disk, env>>

\* Mutant of Reallocate: the attempt is tried again at once, with what was seen.
ReallocateForever(w) == Allocated(w, "reallocate", "look")

\* A new attempt directory for an engine to come; the entry stays as it is.
Reallocate(w) == Allocated(w, "reallocate", "settle")

AllocateCapture(w) == Allocated(w, "allocate_capture", "fence_capture")

ClassifyPublic(w) ==
    Decide(w, "classify_public",
        IF slot[frame[w].anchor]["anchor"] /= Original THEN "conflict"
        ELSE CASE place["public"] = None -> "fence_public"
               [] place["public"] = Original -> "note_published"
               [] OTHER -> "conflict")

\* The slot to capture into: a new one if another worker may have got as far as the capture.
CaptureSlot(w) == IF frame[w].seen = "public_published" THEN "allocate_capture" ELSE "fence_capture"

\* The first captured source of any attempt decides; without one the source must still be there.
ScanSources(w) ==
    LET sources == Filled("source")
        next == IF sources /= {}
                THEN IF slot[First(sources)]["source"] = Original THEN "finalize" ELSE "conflict"
                ELSE IF place["home"] = Original THEN CaptureSlot(w) ELSE "conflict"
    IN /\ At(w, "scan")
       /\ frame' = [frame EXCEPT ![w].gen = frame[w].anchor, ![w].pc = next]
       /\ UNCHANGED <<db, disk, env>>

\* _reconcile_restoring
LookRestoring(w) ==
    /\ At(w, "look") /\ Doing(w, "restore")
    /\ frame' = [frame EXCEPT ![w].anchor = entry.anchor, ![w].seen = entry.state, ![w].pc = "verify"]
    /\ UNCHANGED <<db, disk, env>>

\* _reconcile_executing_item; a row whose transaction never began is judged by its two names.
Settle(w) ==
    /\ Holding(w) /\ At(w, "settle")
    /\ IF entry.phase = "none"
       THEN IF place["home"] /= None /\ place["public"] = None
            THEN /\ item' = [item EXCEPT !["quarantine"] = "planned"]
                 /\ entry' = [entry EXCEPT !.state = "abandoned"]
            ELSE item' = [item EXCEPT !["quarantine"] = "failed"] /\ UNCHANGED entry
       ELSE /\ item' = [item EXCEPT ![frame[w].op] =
                   CASE entry.state = "restored" \/ (entry.state = "active" /\ Doing(w, "quarantine")) -> "completed"
                     [] entry.state = "preparing" \/ (entry.state = "active" /\ Doing(w, "restore")) -> "planned"
                     [] OTHER -> "failed"]
            /\ UNCHANGED entry
    /\ Stop(w)
    /\ UNCHANGED <<owner, disk, env>>

-----------------------------------------------------------------------------
(* The environment                                                         *)

\* A worker that is not the owner any more stops at its next lease assertion.
Abandon(w) == ~Holding(w) /\ frame[w].pc \in LeasePc /\ Stop(w) /\ UNCHANGED <<db, disk, env>>

Crash(w) ==
    /\ faults < MaxFaults /\ ~At(w, "idle")
    /\ Stop(w) /\ faults' = faults + 1
    /\ UNCHANGED <<db, disk, tampers, late>>

TakeOver(w) ==
    /\ faults < MaxFaults /\ ~Holding(w) /\ At(w, "idle")
    /\ owner' = w /\ faults' = faults + 1
    /\ UNCHANGED <<entry, item, disk, frame, tampers, late>>

\* A user removes a file, or puts one of theirs in its place.
Tamper(p, c) ==
    /\ tampers < MaxTampers /\ place[p] /= c
    /\ place' = [place EXCEPT ![p] = c]
    /\ tampers' = tampers + 1
    /\ UNCHANGED <<db, slot, frame, faults, late>>

-----------------------------------------------------------------------------
Quarantine(w) ==
    \/ Open(w) \/ Allocate(w) \/ FenceAnchor(w) \/ LinkAnchor(w) \/ NoteAnchored(w) \/ Qualify(w) \/ Promote(w)
    \/ FencePublic(w) \/ LinkPublic(w) \/ NotePublished(w) \/ FenceCapture(w) \/ CaptureSource(w)
    \/ NoteCaptured(w) \/ CheckCaptured(w) \/ FinalizeActive(w) \/ MarkConflict(w)

Restore(w) ==
    \/ OpenRestore(w) \/ VerifyAnchor(w) \/ ScanViews(w) \/ Destination(w) \/ FenceHome(w) \/ LinkHome(w)
    \/ AllocateView(w) \/ FenceView(w) \/ CaptureView(w) \/ CheckView(w) \/ FinalizeRestored(w)

Reconcile(w) ==
    \/ Recover(w) \/ LookPreparing(w) \/ Reallocate(w) \/ AllocateCapture(w) \/ ClassifyPublic(w) \/ ScanSources(w)
    \/ LookRestoring(w) \/ Settle(w)

Run(w) == Quarantine(w) \/ Restore(w) \/ Reconcile(w) \/ ItemFailed(w) \/ ItemDone(w) \/ Abandon(w)

Next ==
    \/ \E w \in Worker : Run(w) \/ IntendQuarantine(w) \/ IntendRestore(w) \/ Crash(w) \/ TakeOver(w)
    \/ \E p \in Place, c \in {None, Alien} : Tamper(p, c)

Spec == Init /\ [][Next]_vars

\* A worker process keeps executing what it has begun, and recovery is retried.
FairSpec == Spec /\ \A w \in Worker : WF_vars(Run(w))
-----------------------------------------------------------------------------
(* Properties                                                              *)

FrameType == [pc : Pc, op : Op, via : {"plan", "recovery"}, gen : 0..MaxGen, anchor : 0..MaxGen,
              seen : Phase \cup EntryState]

\* Every variable has the values the code gives it.
TypeOK ==
    /\ owner \in Worker
    /\ entry \in [state : EntryState, phase : Phase, gen : 0..MaxGen, since : 0..MaxGen, anchor : 0..MaxGen]
    /\ item \in [Op -> ItemState]
    /\ place \in [Place -> Content]
    /\ slot \in [Gen -> [Slot -> Content]]
    /\ frame \in [Worker -> FrameType]
    /\ faults \in 0..MaxFaults /\ tampers \in 0..MaxTampers /\ late \in BOOLEAN

Linked(c) == c \in {place[p] : p \in Place} \cup {slot[g][s] : g \in Gen, s \in Slot}

(* No step of a worker, slow, crashed or recovering, takes the last name   *)
(* away from the payload or from a file a user put at one of its paths.    *)
NothingDestroyed == [][\A c \in {Original, Alien} : Linked(c) /\ tampers' = tampers => Linked(c)']_vars

Undisturbed == tampers = 0 /\ ~late

(* An entry only becomes active with a qualified anchor and a qualified    *)
(* captured source, only restored with the public name captured; and when  *)
(* neither users nor a worker without the lease meddled, the names a user  *)
(* sees agree with that.                                                   *)
TruthfulEntry ==
    [][/\ entry.state = "preparing" /\ entry'.state = "active" =>
              /\ slot[entry.anchor]["anchor"] = Original
              /\ \E g \in Attempts : slot[g]["source"] = Original
              /\ Undisturbed => place["home"] = None /\ place["public"] = Original
       /\ entry.state /= "restored" /\ entry'.state = "restored" =>
              /\ \E g \in Attempts : slot[g]["view"] = Original
              /\ Undisturbed => place["public"] = None /\ place["home"] = Original]_vars

(* Whatever is interrupted, an executing item ends up completed, failed or *)
(* planned again (recover_interrupted_jobs, _reconcile_executing_item).    *)
InterruptedItemSettles == \A op \in Op : (item[op] = "executing") ~> (item[op] /= "executing")

=============================================================================
