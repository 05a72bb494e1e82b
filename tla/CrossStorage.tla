---------------------------- MODULE CrossStorage ----------------------------
(***************************************************************************)
(* Quarantine and restore across file systems (app/quarantine/            *)
(* cross_storage.py): copy to private staging, verify, publish without     *)
(* replacing, record, verify again, retire the other file.  Each phase is  *)
(* committed under the worker lease before the next filesystem call, and a *)
(* new owner of the lease converges what a dead one left, while the old    *)
(* one may only be slow: it goes on until its next lease assertion.        *)
(*                                                                         *)
(* One file, one quarantine item and, once that completed, its restore.    *)
(* A file is a member of Content: what the user put there (Original, or    *)
(* another file, Alien), or the copy that attempt g of the entry made.     *)
(* A stat and the unlink that directly follows it are one step.            *)
(***************************************************************************)
EXTENDS Naturals, FiniteSets

CONSTANTS
    Worker,
    MaxGen,        \* bound on active_attempt_generation
    MaxFaults,     \* bound on crashes and takeovers of the lease
    MaxTampers,    \* bound on the changes users make to the files
    Original, Alien, None

ASSUME CrossStorageAssumption ==
    /\ MaxGen \in Nat /\ MaxFaults \in Nat /\ MaxTampers \in Nat
    /\ Original \notin Nat /\ Alien \notin Nat /\ None \notin Nat
    /\ Original /= Alien /\ Original /= None /\ Alien /= None

VARIABLES
    owner,    \* the owner of the task lock
    entry,    \* the quarantine_entries row
    item,     \* state of the batch_plan_items row of each operation
    place,    \* the file at the original path and at the public quarantine path
    slot,     \* private staging file of each attempt
    frame,    \* what each worker is in the middle of
    faults, tampers

vars == <<owner, entry, item, place, slot, frame, faults, tampers>>

-----------------------------------------------------------------------------
Op == {"quarantine", "restore"}
Place == {"home", "public"}
Gen == 1..MaxGen
Content == {None, Original, Alien} \cup Gen

From(op) == IF op = "quarantine" THEN "home" ELSE "public"
To(op) == IF op = "quarantine" THEN "public" ELSE "home"

Copying(op) == IF op = "quarantine" THEN "cross_copying" ELSE "cross_restore_copying"
Verified(op) == IF op = "quarantine" THEN "cross_staging_verified" ELSE "cross_restore_staging_verified"
Published(op) == IF op = "quarantine" THEN "cross_public_published" ELSE "cross_restore_published"
Authorized(op) == IF op = "quarantine" THEN "cross_source_unlink_authorized" ELSE "cross_restore_retire_authorized"

Phase == {"none", "preparing", "active", "restoring", "restored", "conflict"}
         \cup {Copying(op) : op \in Op} \cup {Verified(op) : op \in Op}
         \cup {Published(op) : op \in Op} \cup {Authorized(op) : op \in Op}
EntryState == {"preparing", "active", "restoring", "restored", "conflict", "abandoned"}
ItemState == {"planned", "executing", "completed", "failed"}

(* Where a worker is.  At a lease step it asserts its lease in a BEGIN     *)
(* IMMEDIATE transaction; the other steps touch the filesystem.            *)
LeasePc == {"open", "allocate", "record", "fence", "note", "authorize", "fence_retire",
            "finalize", "done", "collided", "raised", "fence_clear", "reset", "conflict", "settle"}
FilePc == {"copy", "copying", "publish", "unalias", "verify", "check",
           "retire", "visible", "look", "clearing", "unlink_staging", "resume", "classify"}
Pc == {"idle"} \cup LeasePc \cup FilePc

\* The rows that execute_cross_storage_* were reached from: a plan's item, the recovery of one, or the service.
Via == {"plan", "recovery", "service"}

Idle == [pc |-> "idle", op |-> "quarantine", via |-> "plan", body |-> "execute",
         gen |-> 0, src |-> Original, copy |-> 0, why |-> "error"]

FreshEntry == [state |-> "preparing", phase |-> "none", gen |-> 0, qid |-> 0, rid |-> 0]

\* The destination identity the entry has frozen for an operation, 0 if none.
Recorded(op) == IF op = "quarantine" THEN entry.qid ELSE entry.rid
\* The identity of the file that may be retired.
Authority(op) == IF op = "quarantine" THEN Original ELSE entry.qid

Holding(w) == owner = w
At(w, pc) == frame[w].pc = pc
Doing(w, op) == frame[w].op = op

Go(w, pc) == frame' = [frame EXCEPT ![w].pc = pc]
Raise(w) == frame' = [frame EXCEPT ![w].pc = "raised", ![w].why = "error"]
Stop(w) == frame' = [frame EXCEPT ![w] = Idle]

db == <<owner, entry, item>>
disk == <<place, slot>>
env == <<faults, tampers>>

Init ==
    /\ owner \in Worker
    /\ entry = FreshEntry
    /\ item = [op \in Op |-> "planned"]
    /\ place = [home |-> Original, public |-> None]
    /\ slot = [g \in Gen |-> "none"]
    /\ frame = [w \in Worker |-> Idle]
    /\ faults = 0 /\ tampers = 0

-----------------------------------------------------------------------------
(* The worker's handler: intents (phase 1) and the service's entry point.  *)

\* Phase 1 of a quarantine item: a new entry, the item executing.
IntendQuarantine(w) ==
    /\ Holding(w) /\ At(w, "idle") /\ item["quarantine"] = "planned"
    /\ item' = [item EXCEPT !["quarantine"] = "executing"]
    /\ entry' = FreshEntry
    /\ frame' = [frame EXCEPT ![w] = [Idle EXCEPT !.pc = "open"]]
    /\ UNCHANGED <<owner, place, slot, faults, tampers>>

\* Phase 1 of a restore item marks the entry before execute_item runs.
IntendRestore(w) ==
    /\ Holding(w) /\ At(w, "idle")
    /\ item["quarantine"] = "completed" /\ item["restore"] = "planned"
    /\ entry.state = "active" /\ entry.phase = "active"
    /\ item' = [item EXCEPT !["restore"] = "executing"]
    /\ entry' = [entry EXCEPT !.state = "restoring", !.phase = "restoring"]
    /\ frame' = [frame EXCEPT ![w] = [Idle EXCEPT !.pc = "open", !.op = "restore"]]
    /\ UNCHANGED <<owner, place, slot, faults, tampers>>

\* restore_quarantine_entry with a worker's authority, on no item's behalf.
CallRestore(w) ==
    /\ Holding(w) /\ At(w, "idle")
    /\ item["quarantine"] = "completed" /\ item["restore"] = "planned"
    /\ entry.state \in {"active", "restoring"}
    /\ frame' = [frame EXCEPT ![w] = [Idle EXCEPT !.pc = "open", !.op = "restore", !.via = "service"]]
    /\ UNCHANGED <<owner, entry, item, place, slot, faults, tampers>>

-----------------------------------------------------------------------------
(* execute_cross_storage_quarantine and execute_cross_storage_restore      *)

Opened(w, op) ==
    frame' = [frame EXCEPT ![w].pc = "allocate", ![w].body = "execute", ![w].src = Authority(op), ![w].copy = 0]

OpenQuarantine(w) ==
    /\ Holding(w) /\ At(w, "open") /\ Doing(w, "quarantine")
    /\ entry.phase \in {"none", "preparing", "active"}
    /\ entry' = [entry EXCEPT !.state = "preparing", !.phase = Copying("quarantine")]
    /\ Opened(w, "quarantine")
    /\ UNCHANGED <<owner, item, disk, env>>

\* A restore starts from an active entry only, and never over an existing file.
OpenRestore(w) ==
    /\ Holding(w) /\ At(w, "open") /\ Doing(w, "restore")
    /\ entry.phase = "active" /\ entry.state \in {"active", "restoring"}
    /\ place["home"] = None
    /\ entry' = [entry EXCEPT !.state = "restoring", !.phase = Copying("restore"), !.rid = 0]
    /\ Opened(w, "restore")
    /\ UNCHANGED <<owner, item, disk, env>>

RefuseRestore(w) ==
    /\ Holding(w) /\ At(w, "open") /\ Doing(w, "restore")
    /\ \/ entry.state \notin {"active", "restoring"}
       \/ entry.phase \notin {"active", Copying("restore"), Verified("restore"),
                              Published("restore"), Authorized("restore")}
       \/ entry.phase = "active" /\ place["home"] /= None
    /\ Raise(w)
    /\ UNCHANGED <<db, disk, env>>

\* A call that finds the restore under way converges it instead.
ResumeRestore(w) ==
    /\ Holding(w) /\ At(w, "open") /\ Doing(w, "restore")
    /\ entry.state \in {"active", "restoring"}
    /\ entry.phase \in {Copying("restore"), Verified("restore"), Published("restore"), Authorized("restore")}
    /\ Go(w, "look")
    /\ UNCHANGED <<db, disk, env>>

\* The generation is committed before its directory is created.
Allocate(w) ==
    /\ Holding(w) /\ At(w, "allocate") /\ entry.gen < MaxGen
    /\ entry' = [entry EXCEPT !.gen = @ + 1]
    /\ frame' = [frame EXCEPT ![w].pc = "copy", ![w].gen = entry.gen + 1]
    /\ UNCHANGED <<owner, item, disk, env>>

\* Opens the source by name, checks its identity and creates the staging file.
BeginCopy(w, op) ==
    /\ At(w, "copy") /\ Doing(w, op)
    /\ IF place[From(op)] = frame[w].src
       THEN slot' = [slot EXCEPT ![frame[w].gen] = "part"] /\ Go(w, "copying")
       ELSE UNCHANGED slot /\ Raise(w)
    /\ UNCHANGED <<db, place, env>>

StartCopy(w) == BeginCopy(w, "quarantine")
StartRestoreCopy(w) == BeginCopy(w, "restore")

(* The copy reads an open descriptor: a file renamed over the source's     *)
(* name leaves it intact, a change of the file itself is detected.         *)
CopyEnds(w, op) ==
    /\ At(w, "copying") /\ Doing(w, op)
    /\ \/ slot[frame[w].gen] /= "none"
          /\ slot' = [slot EXCEPT ![frame[w].gen] = "full"] /\ Go(w, "record")
       \/ (slot[frame[w].gen] = "none" \/ place[From(op)] /= frame[w].src)
          /\ UNCHANGED slot /\ Raise(w)
    /\ UNCHANGED <<db, place, env>>

EndCopy(w) == CopyEnds(w, "quarantine")
EndRestoreCopy(w) == CopyEnds(w, "restore")

RecordCopy(w, op) ==
    /\ Holding(w) /\ At(w, "record") /\ Doing(w, op)
    /\ frame' = [frame EXCEPT ![w].pc = "fence", ![w].copy = frame[w].gen]
    /\ UNCHANGED <<owner, item, disk, env>>

RecordStaged(w) ==
    /\ entry' = [entry EXCEPT !.phase = Verified("quarantine"), !.qid = frame[w].gen]
    /\ RecordCopy(w, "quarantine")

RecordRestoreStaged(w) ==
    /\ entry' = [entry EXCEPT !.state = "restoring", !.phase = Verified("restore"), !.rid = frame[w].gen]
    /\ RecordCopy(w, "restore")

Fence(w) == Holding(w) /\ At(w, "fence") /\ Go(w, "publish") /\ UNCHANGED <<db, disk, env>>

(* _publish_verified_staging_noreplace: renameat2(RENAME_NOREPLACE), or    *)
(* where that is not supported a link and then the unlink of the staging.  *)
PublishRename(w) ==
    /\ At(w, "publish") /\ slot[frame[w].copy] /= "none" /\ place[To(frame[w].op)] = None
    /\ place' = [place EXCEPT ![To(frame[w].op)] = frame[w].copy]
    /\ slot' = [slot EXCEPT ![frame[w].copy] = "none"]
    /\ Go(w, "note")
    /\ UNCHANGED <<db, env>>

PublishLink(w) ==
    /\ At(w, "publish") /\ slot[frame[w].copy] /= "none" /\ place[To(frame[w].op)] = None
    /\ place' = [place EXCEPT ![To(frame[w].op)] = frame[w].copy]
    /\ Go(w, "unalias")
    /\ UNCHANGED <<db, slot, env>>

RetireAlias(w) ==
    /\ At(w, "unalias")
    /\ IF place[To(frame[w].op)] = frame[w].copy /\ slot[frame[w].copy] /= "none"
       THEN slot' = [slot EXCEPT ![frame[w].copy] = "none"] /\ Go(w, "note")
       ELSE UNCHANGED slot /\ Raise(w)
    /\ UNCHANGED <<db, place, env>>

\* EEXIST, which the quarantine's own except clause turns into a conflict.
PublishFails(w) ==
    /\ At(w, "publish")
    /\ IF slot[frame[w].copy] = "none" THEN Raise(w)
       ELSE /\ place[To(frame[w].op)] /= None
            /\ IF frame[w].op = "quarantine" /\ frame[w].body = "execute" THEN Go(w, "collided") ELSE Raise(w)
    /\ UNCHANGED <<db, disk, env>>

NotePhase(w, op) ==
    /\ Holding(w) /\ At(w, "note") /\ Doing(w, op)
    /\ entry' = [entry EXCEPT !.state = IF op = "restore" THEN "restoring" ELSE @,
                              !.phase = Published(op)]
    /\ Go(w, "verify")
    /\ UNCHANGED <<owner, item, disk, env>>

NotePublished(w) == NotePhase(w, "quarantine")
NoteRestorePublished(w) == NotePhase(w, "restore")

\* Mutant of VerifyCopy: a publication once recorded is believed.
VerifyNothing(w, op) ==
    /\ At(w, "verify") /\ Doing(w, op)
    /\ Go(w, IF frame[w].body = "execute" THEN "authorize" ELSE "classify")
    /\ UNCHANGED <<db, disk, env>>

\* The published copy is opened, hashed and compared with the frozen identity.
VerifyCopy(w, op) ==
    /\ At(w, "verify") /\ Doing(w, op)
    /\ IF place[To(op)] /= frame[w].copy THEN Raise(w)
       ELSE Go(w, IF frame[w].body = "execute" THEN "authorize" ELSE "classify")
    /\ UNCHANGED <<db, disk, env>>

VerifyPublic(w) == VerifyCopy(w, "quarantine")
VerifyDestination(w) == VerifyCopy(w, "restore")

AuthorizePhase(w, op) ==
    /\ Holding(w) /\ At(w, "authorize") /\ Doing(w, op)
    /\ entry' = [entry EXCEPT !.state = IF op = "restore" THEN "restoring" ELSE @,
                              !.phase = Authorized(op)]
    /\ Go(w, "check")
    /\ UNCHANGED <<owner, item, disk, env>>

AuthorizeUnlink(w) == AuthorizePhase(w, "quarantine")
AuthorizeRetire(w) == AuthorizePhase(w, "restore")

CheckFile(w, op) ==
    /\ At(w, "check") /\ Doing(w, op)
    /\ IF place[From(op)] = frame[w].src THEN Go(w, "fence_retire") ELSE Raise(w)
    /\ UNCHANGED <<db, disk, env>>

CheckSource(w) == CheckFile(w, "quarantine")
CheckPublic(w) == CheckFile(w, "restore")

FenceRetire(w) == Holding(w) /\ At(w, "fence_retire") /\ Go(w, "retire") /\ UNCHANGED <<db, disk, env>>

\* _verify_and_unlink_source: the last stat of the name and its unlink.
UnlinkSource(w) ==
    /\ At(w, "retire") /\ Doing(w, "quarantine")
    /\ IF place["home"] = frame[w].src
       THEN place' = [place EXCEPT !["home"] = None] /\ Go(w, "visible")
       ELSE UNCHANGED place /\ Raise(w)
    /\ UNCHANGED <<db, slot, env>>

\* _retire_public_quarantine
RetirePublic(w) ==
    /\ At(w, "retire") /\ Doing(w, "restore")
    /\ IF place["public"] = frame[w].src
       THEN place' = [place EXCEPT !["public"] = None] /\ Go(w, "finalize")
       ELSE UNCHANGED place /\ Raise(w)
    /\ UNCHANGED <<db, slot, env>>

\* The name must be gone once the descriptor is closed.
SourceGone(w) ==
    /\ At(w, "visible")
    /\ IF place["home"] = None THEN Go(w, "finalize")
       ELSE frame' = [frame EXCEPT ![w].pc = "raised", ![w].why = "repopulated"]
    /\ UNCHANGED <<db, disk, env>>

Finished(w) == CASE frame[w].via = "plan" -> Go(w, "done")
                 [] frame[w].via = "recovery" -> Go(w, "settle")
                 [] frame[w].via = "service" -> Stop(w)

FinalizeActive(w) ==
    /\ Holding(w) /\ At(w, "finalize") /\ Doing(w, "quarantine")
    /\ entry' = [entry EXCEPT !.state = "active", !.phase = "active"]
    /\ Finished(w)
    /\ UNCHANGED <<owner, item, disk, env>>

FinalizeRestored(w) ==
    /\ Holding(w) /\ At(w, "finalize") /\ Doing(w, "restore")
    /\ entry' = [entry EXCEPT !.state = "restored", !.phase = "restored"]
    /\ Finished(w)
    /\ UNCHANGED <<owner, item, disk, env>>

-----------------------------------------------------------------------------
(* Failures                                                                *)

MarkConflict(w, pc) ==
    /\ Holding(w) /\ At(w, pc)
    /\ entry' = [entry EXCEPT !.state = "conflict", !.phase = "conflict"]
    /\ Raise(w)
    /\ UNCHANGED <<owner, item, disk, env>>

Collided(w) == MarkConflict(w, "collided")

\* Phase 3 of a quarantine item that raised.
QuarantineFailed(w) ==
    /\ Holding(w) /\ At(w, "raised") /\ frame[w].via = "plan" /\ Doing(w, "quarantine")
    /\ item' = [item EXCEPT !["quarantine"] = "failed"]
    /\ entry' = CASE frame[w].why = "repopulated" -> [entry EXCEPT !.state = "conflict", !.phase = "conflict"]
                  [] frame[w].why /= "repopulated" /\ entry.state = "conflict" -> entry
                  [] OTHER -> [entry EXCEPT !.state = "abandoned"]
    /\ Stop(w)
    /\ UNCHANGED <<owner, disk, env>>

\* Phase 3 of a restore item that raised.
RestoreFailed(w) ==
    /\ Holding(w) /\ At(w, "raised") /\ frame[w].via = "plan" /\ Doing(w, "restore")
    /\ item' = [item EXCEPT !["restore"] = "failed"]
    /\ entry' = [entry EXCEPT !.state = "conflict", !.phase = "conflict"]
    /\ Stop(w)
    /\ UNCHANGED <<owner, disk, env>>

\* An exception in recovery or in the service leaves the rows as they are.
Propagate(w) ==
    /\ At(w, "raised") /\ frame[w].via /= "plan"
    /\ Stop(w)
    /\ UNCHANGED <<db, disk, env>>

\* Phase 3 of a quarantine item that ran to its end looks at both names again.
ItemResult(w) ==
    /\ Holding(w) /\ At(w, "done")
    /\ IF place["home"] = None /\ place["public"] /= None
       THEN /\ item' = [item EXCEPT !["quarantine"] = "completed"]
            /\ entry' = [entry EXCEPT !.state = "active", !.phase = "active"]
       ELSE /\ item' = [item EXCEPT !["quarantine"] = "failed"]
            /\ entry' = [entry EXCEPT !.state = "conflict", !.phase = "conflict"]
    /\ Stop(w)
    /\ UNCHANGED <<owner, disk, env>>

-----------------------------------------------------------------------------
(* Recovery: _run_reconciliation_flow under the lease, then the reconcile_ *)
(* function of the direction, then the item is settled.                    *)

Recover(w, op) ==
    /\ Holding(w) /\ At(w, "idle") /\ item[op] = "executing"
    /\ frame' = [frame EXCEPT ![w] = [Idle EXCEPT
           !.op = op, !.via = "recovery",
           !.pc = IF entry.phase = "none" \/ entry.state \in {"active", "restored", "conflict"}
                  THEN "settle" ELSE "look"]]
    /\ UNCHANGED <<db, disk, env>>

RecoverSome(w) == \E op \in Op : Recover(w, op)

\* Mutant of LookAt: what has been published counts as moved.
LookPublishedDone(w, op) ==
    /\ At(w, "look") /\ Doing(w, op)
    /\ frame' = [frame EXCEPT ![w].pc = IF entry.phase = Published(op) THEN "finalize" ELSE "clearing",
                              ![w].body = "reconcile", ![w].gen = entry.gen,
                              ![w].src = Authority(op), ![w].copy = Recorded(op)]
    /\ UNCHANGED <<db, disk, env>>

\* reconcile_*: a snapshot of the row decides where to resume.
LookAt(w, op) ==
    LET target == CASE entry.phase \in {Copying(op)} \cup (IF op = "quarantine" THEN {"preparing"} ELSE {}) -> "clearing"
                    [] entry.phase = Verified(op) -> "resume"
                    [] entry.phase \in {Published(op), Authorized(op)} -> "verify"
                    [] OTHER -> "raised"
    IN /\ At(w, "look") /\ Doing(w, op)
       /\ frame' = [frame EXCEPT ![w].pc = target, ![w].body = "reconcile", ![w].gen = entry.gen,
                                 ![w].src = Authority(op), ![w].copy = Recorded(op)]
       /\ UNCHANGED <<db, disk, env>>

LookAtQuarantine(w) == LookAt(w, "quarantine")
LookAtRestore(w) == LookAt(w, "restore")

Staged(g) == g \in Gen /\ slot[g] /= "none"

(* Interrupted while copying: staging that was never granted publication   *)
(* is retired, and only if nothing has appeared where it would be put.     *)
ClearSlot(w, op) ==
    /\ At(w, "clearing") /\ Doing(w, op)
    /\ Go(w, CASE op = "restore" /\ place["home"] /= None -> "conflict"
               [] ~(op = "restore" /\ place["home"] /= None) /\ Staged(frame[w].gen) -> "fence_clear"
               [] OTHER -> "reset")
    /\ UNCHANGED <<db, disk, env>>

ClearStaging(w) == ClearSlot(w, "quarantine")
ClearRestoreStaging(w) == ClearSlot(w, "restore")

FenceClear(w) == Holding(w) /\ At(w, "fence_clear") /\ Go(w, "unlink_staging") /\ UNCHANGED <<db, disk, env>>

UnlinkSlot(w, op) ==
    /\ At(w, "unlink_staging") /\ Doing(w, op)
    /\ IF Staged(frame[w].gen)
       THEN slot' = [slot EXCEPT ![frame[w].gen] = "none"] /\ Go(w, "reset")
       ELSE UNCHANGED slot /\ (IF op = "quarantine" THEN Go(w, "conflict") ELSE Raise(w))
    /\ UNCHANGED <<db, place, env>>

UnlinkStaging(w) == UnlinkSlot(w, "quarantine")
UnlinkRestoreStaging(w) == UnlinkSlot(w, "restore")

\* Mutant of ResetQuarantine: the phase stays that of the interrupted copy.
ResetKeepsPhase(w) ==
    /\ Holding(w) /\ At(w, "reset") /\ Doing(w, "quarantine")
    /\ Go(w, IF place["public"] /= None THEN "conflict" ELSE "open")
    /\ UNCHANGED <<db, disk, env>>

\* Start over: the entry is as before the copy, and execute_* is called again.
ResetQuarantine(w) ==
    /\ Holding(w) /\ At(w, "reset") /\ Doing(w, "quarantine")
    /\ IF place["public"] /= None
       THEN Go(w, "conflict") /\ UNCHANGED entry
       ELSE Go(w, "open") /\ entry' = [entry EXCEPT !.phase = "preparing"]
    /\ UNCHANGED <<owner, item, disk, env>>

ResetRestore(w) ==
    /\ Holding(w) /\ At(w, "reset") /\ Doing(w, "restore")
    /\ entry' = [entry EXCEPT !.state = "active", !.phase = "active"]
    /\ Go(w, "open")
    /\ UNCHANGED <<owner, item, disk, env>>

(* Interrupted around the publication: both names, one of them, or none.   *)
Resume(w, op) ==
    LET f == frame[w]
        there == place[To(op)]
        missing == IF op = "quarantine" THEN "conflict" ELSE "raised"
    IN /\ At(w, "resume") /\ Doing(w, op)
       /\ slot' = IF Staged(f.copy) /\ there = f.copy THEN [slot EXCEPT ![f.copy] = "none"] ELSE slot
       /\ Go(w, CASE Staged(f.copy) /\ there = None -> "fence"
                  [] Staged(f.copy) /\ there \notin {None, f.copy} -> "conflict"
                  [] there = f.copy -> "note"
                  [] ~Staged(f.copy) /\ there \notin {None, f.copy} -> "raised"
                  [] OTHER -> missing)
       /\ UNCHANGED <<db, place, env>>

ResumePublication(w) == Resume(w, "quarantine")
ResumeRestorePublication(w) == Resume(w, "restore")

(* Published and verified: what is at the source's name decides.           *)
Classify(w, op) ==
    LET f == frame[w]
        there == place[From(op)]
    IN /\ At(w, "classify") /\ Doing(w, op)
       /\ Go(w, CASE there = None -> "finalize"
                  [] there \notin {None, f.src} /\ op = "quarantine" -> "conflict"
                  [] OTHER -> IF entry.phase = Authorized(op) THEN "check" ELSE "authorize")
       /\ UNCHANGED <<db, disk, env>>

ClassifySource(w) == Classify(w, "quarantine")
ClassifyPublic(w) == Classify(w, "restore")

ReconcileConflict(w) == MarkConflict(w, "conflict")

(* _reconcile_executing_item: what the entry says becomes the item's.      *)
(* A restore's item does not get here: the phase IntendRestore has left is *)
(* one that LookAt refuses, and the exception leaves the item executing.   *)
SettleQuarantine(w) ==
    /\ Holding(w) /\ At(w, "settle") /\ Doing(w, "quarantine")
    /\ IF entry.phase = "none"
       THEN IF place["home"] /= None /\ place["public"] = None
            THEN /\ item' = [item EXCEPT !["quarantine"] = "planned"]
                 /\ entry' = [entry EXCEPT !.state = "abandoned"]
            ELSE item' = [item EXCEPT !["quarantine"] = "failed"] /\ UNCHANGED entry
       ELSE /\ item' = [item EXCEPT !["quarantine"] =
                   CASE entry.state \in {"active", "restored"} -> "completed"
                     [] entry.state = "preparing" -> "planned"
                     [] OTHER -> "failed"]
            /\ UNCHANGED entry
    /\ Stop(w)
    /\ UNCHANGED <<owner, disk, env>>

-----------------------------------------------------------------------------
(* The environment                                                         *)

\* A worker that is not the owner any more stops at its next lease assertion.
Abandon(w) ==
    /\ ~Holding(w) /\ frame[w].pc \in LeasePc
    /\ Stop(w)
    /\ UNCHANGED <<db, disk, env>>

Crash(w) ==
    /\ faults < MaxFaults /\ ~At(w, "idle")
    /\ Stop(w) /\ faults' = faults + 1
    /\ UNCHANGED <<db, disk, tampers>>

\* The lease lapsed and another worker acquires it; the former owner may still be running.
TakeOver(w) ==
    /\ faults < MaxFaults /\ ~Holding(w) /\ At(w, "idle")
    /\ owner' = w /\ faults' = faults + 1
    /\ UNCHANGED <<entry, item, disk, frame, tampers>>

(* Somebody else removes a file or puts one of theirs.  Between the last   *)
(* look at a published copy and the retirement of the other file nobody    *)
(* touches the copy: no check in the code could notice.                    *)
ReliedOn(p) == \E w \in Worker :
    /\ frame[w].pc \in {"authorize", "classify", "check", "fence_retire", "retire"}
    /\ To(frame[w].op) = p

Tamper(p, c) ==
    /\ tampers < MaxTampers /\ place[p] /= c /\ ~ReliedOn(p)
    /\ place' = [place EXCEPT ![p] = c]
    /\ tampers' = tampers + 1
    /\ UNCHANGED <<db, slot, frame, faults>>

-----------------------------------------------------------------------------
Run(w) ==
    \/ OpenQuarantine(w) \/ OpenRestore(w) \/ RefuseRestore(w) \/ ResumeRestore(w)
    \/ Allocate(w) \/ StartCopy(w) \/ StartRestoreCopy(w) \/ EndCopy(w) \/ EndRestoreCopy(w) \/ RecordStaged(w) \/ RecordRestoreStaged(w)
    \/ Fence(w) \/ PublishRename(w) \/ PublishLink(w) \/ RetireAlias(w) \/ PublishFails(w)
    \/ NotePublished(w) \/ NoteRestorePublished(w) \/ VerifyPublic(w) \/ VerifyDestination(w) \/ AuthorizeUnlink(w) \/ AuthorizeRetire(w) \/ CheckSource(w) \/ CheckPublic(w) \/ FenceRetire(w)
    \/ UnlinkSource(w) \/ RetirePublic(w) \/ SourceGone(w) \/ FinalizeActive(w) \/ FinalizeRestored(w)
    \/ Collided(w) \/ QuarantineFailed(w) \/ RestoreFailed(w) \/ Propagate(w) \/ ItemResult(w)
    \/ RecoverSome(w) \/ LookAtQuarantine(w) \/ LookAtRestore(w) \/ ClearStaging(w) \/ ClearRestoreStaging(w) \/ FenceClear(w) \/ UnlinkStaging(w) \/ UnlinkRestoreStaging(w)
    \/ ResetQuarantine(w) \/ ResetRestore(w) \/ ResumePublication(w) \/ ResumeRestorePublication(w) \/ ClassifySource(w) \/ ClassifyPublic(w)
    \/ ReconcileConflict(w) \/ SettleQuarantine(w) \/ Abandon(w)

Next ==
    \/ \E w \in Worker : Run(w) \/ IntendQuarantine(w) \/ IntendRestore(w) \/ CallRestore(w)
                           \/ Crash(w) \/ TakeOver(w)
    \/ \E p \in Place, c \in {None, Alien} : Tamper(p, c)

Spec == Init /\ [][Next]_vars

\* A worker process keeps executing what it has begun, and recovery is retried.
FairSpec == Spec /\ \A w \in Worker : WF_vars(Run(w))
-----------------------------------------------------------------------------
(* Properties                                                              *)

FrameType == [pc : Pc, op : Op, via : Via, body : {"execute", "reconcile"}, gen : 0..MaxGen,
              src : {Original} \cup 0..MaxGen, copy : 0..MaxGen, why : {"error", "repopulated"}]

\* Every variable has the values the code gives it.
TypeOK ==
    /\ owner \in Worker
    /\ entry \in [state : EntryState, phase : Phase, gen : 0..MaxGen, qid : 0..MaxGen, rid : 0..MaxGen]
    /\ item \in [Op -> ItemState]
    /\ place \in [Place -> Content]
    /\ slot \in [Gen -> {"none", "part", "full"}]
    /\ frame \in [Worker -> FrameType]
    /\ faults \in 0..MaxFaults /\ tampers \in 0..MaxTampers

Holders == {p \in Place : place[p] \in {Original} \cup Gen}

(* A worker gives up the payload at one place only while the other has it: *)
(* _verify_and_unlink_source and _retire_public_quarantine, by the owner   *)
(* of the lease or a former one, in a first run, a recovery or a retry.    *)
Move == INSTANCE SafeMove WITH holders <- Holders, touched <- tampers
KeepsPayload == Move!Spec

(* An entry only becomes active when the quarantined copy is published and *)
(* the original is gone, only restored when its copy came back, and unless *)
(* somebody meddled the copy is the one the entry identifies.              *)
TruthfulEntry ==
    [][/\ entry.state = "preparing" /\ entry'.state = "active" =>
              /\ place["home"] /= Original
              /\ tampers = 0 => place["home"] = None /\ place["public"] = entry.qid
       /\ entry.state /= "restored" /\ entry'.state = "restored" =>
              /\ place["public"] /= entry.qid
              /\ tampers = 0 => place["home"] = entry.rid]_vars

(* An interrupted quarantine settles: if nobody meddles with the files, an *)
(* executing item ends up completed, failed or planned again.              *)
InterruptedQuarantineSettles ==
    (item["quarantine"] = "executing") ~> (item["quarantine"] /= "executing" \/ tampers > 0)

=============================================================================
