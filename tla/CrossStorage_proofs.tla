------------------------- MODULE CrossStorage_proofs -------------------------
(***************************************************************************)
(* Theorems of CrossStorage, for any set of workers and any number of      *)
(* attempts, crashes, takeovers and changes by users: a moved payload is   *)
(* never given up at its last place (CrossStorage implements SafeMove), an *)
(* entry only says what the files bear out, and what is published is whole.*)
(***************************************************************************)
EXTENDS CrossStorage, TLAPS

(* What is published at either name is a copy that was written to its end  *)
(* and recorded, never a staging file an attempt is still writing          *)
(* (_publish_verified_staging_noreplace, called by a slow worker too).     *)
OnlyWholeCopies ==
    [][\A p \in Place : place'[p] /= place[p] /\ place'[p] \in Gen => slot[place'[p]] = "full"]_vars

-----------------------------------------------------------------------------
(* The inductive invariant.  A worker that loses the lease never has it    *)
(* again before it stops, so what the owner's frame says of the entry is   *)
(* kept by everybody else; what holds of a slow worker is about the files. *)

Doubled == {"authorize", "classify", "check", "fence_retire", "retire"}

\* The file a quarantine retires is the user's own, and only a quarantine looks whether it is gone.
Sources == \A w \in Worker :
    /\ Doing(w, "quarantine") => frame[w].src = Original
    /\ At(w, "visible") => Doing(w, "quarantine")

\* Who may still retire a file has verified a copy at the other name, which only a restore takes away again.
Backed == \A w \in Worker : frame[w].pc \in Doubled =>
    /\ frame[w].copy \in Gen
    /\ Doing(w, "restore") => place["home"] = frame[w].copy
    /\ Doing(w, "quarantine") /\ place["home"] = Original => place["public"] = frame[w].copy

\* The original, once away, does not come back.
Gone == \A w \in Worker :
    frame[w].pc \in {"visible", "finalize"} /\ Doing(w, "quarantine") => place["home"] /= Original

(* The rows: restores begin when the quarantine is complete, and the item  *)
(* of a quarantine that the owner of the lease works on is executing.      *)
Rows ==
    /\ item["quarantine"] /= "completed" => \A w \in Worker : Doing(w, "quarantine")
    /\ item["quarantine"] = "completed" => entry.state \in {"active", "restoring", "restored", "conflict"}
    /\ item["quarantine"] = "planned" => entry.gen = 0
    /\ item["restore"] /= "planned" => item["quarantine"] = "completed"
    /\ entry.phase = "none" => entry.gen = 0
    /\ \A w \in Worker : Holding(w) /\ ~At(w, "idle") /\ Doing(w, "quarantine") => item["quarantine"] = "executing"

\* A restore on behalf of a plan's item is refused, so only a quarantine gets to its result.
Refused == \A w \in Worker :
    /\ At(w, "done") => frame[w].via = "plan"
    /\ Doing(w, "restore") /\ frame[w].via = "plan" => frame[w].pc \in {"open", "raised"}
    /\ Holding(w) /\ Doing(w, "restore") /\ frame[w].via = "plan" /\ At(w, "open") => entry.phase = "restoring"

\* The phases of an interrupted copy.
Interrupted(op) == {Copying(op)} \cup (IF op = "quarantine" THEN {"preparing"} ELSE {})

\* What the entry says while the owner of the lease is at a step.
Own == \A w \in Worker : Holding(w) =>
    LET pc == frame[w].pc
        op == frame[w].op
    IN /\ pc \in {"allocate", "copy", "copying", "record"} => entry.phase = Copying(op)
       /\ pc \in {"fence", "publish", "unalias", "note", "resume"} => entry.phase = Verified(op)
       /\ pc \in {"verify", "visible", "finalize"} \cup Doubled => entry.phase \in {Published(op), Authorized(op)}
       /\ pc \in {"fence", "publish", "unalias", "note", "resume", "verify", "visible", "finalize"} \cup Doubled =>
              frame[w].copy = Recorded(op)
       /\ pc \in {"clearing", "fence_clear", "unlink_staging", "reset"} => entry.phase \in Interrupted(op)
       /\ pc = "done" => entry.phase = "active" /\ entry.state = "active"
       /\ pc = "settle" => entry.phase = "none" \/ entry.state \in {"active", "restored", "conflict"}

\* Attempts are numbered once: who is about to create a staging file is the only one to know its number.
Numbers ==
    /\ entry.qid <= entry.gen /\ entry.rid <= entry.gen
    /\ \A w \in Worker : frame[w].gen <= entry.gen /\ frame[w].copy <= entry.gen
    /\ \A w \in Worker : frame[w].pc \in {"copy", "copying", "record"} => frame[w].gen \in Gen
    /\ \A w \in Worker : frame[w].pc \in {"fence", "publish", "unalias", "note"} => frame[w].copy \in Gen
    /\ \A w \in Worker : At(w, "copy") =>
           /\ entry.qid /= frame[w].gen /\ entry.rid /= frame[w].gen
           /\ \A v \in Worker : frame[v].copy /= frame[w].gen
           /\ \A v \in Worker \ {w} : frame[v].pc \in {"copy", "copying", "record"} => frame[v].gen /= frame[w].gen

Past == {"active", "restoring", "restored", Published("quarantine"), Authorized("quarantine"),
         Copying("restore"), Verified("restore"), Published("restore"), Authorized("restore")}

\* A copy that is recorded, or is about to be, is whole if it is there.
Whole ==
    /\ \A g \in {entry.qid, entry.rid} \cap Gen : slot[g] /= "part"
    /\ \A w \in Worker : /\ frame[w].copy \in Gen => slot[frame[w].copy] /= "part"
                         /\ At(w, "record") => slot[frame[w].gen] /= "part"

\* One whose publication is noted has left its staging, and nobody can publish it again.
Spent ==
    /\ \A w \in Worker : At(w, "note") => slot[frame[w].copy] = "none"
    /\ entry.phase \in Past => entry.qid \in Gen /\ slot[entry.qid] = "none"

\* So the quarantined copy stays away once a restore has retired it.
Retired == \A w \in Worker : Holding(w) /\ At(w, "finalize") /\ Doing(w, "restore") => place["public"] /= entry.qid

\* What the owner of the lease has verified is still there if nobody has meddled.
Untouched == tampers = 0 =>
    /\ item["quarantine"] /= "completed" => place["home"] \in {Original, None}
    /\ \A w \in Worker : Holding(w) =>
           /\ Doing(w, "quarantine") /\ frame[w].pc \in {"visible", "finalize"} \cup Doubled => place["public"] = entry.qid
           /\ Doing(w, "restore") /\ At(w, "finalize") => place["home"] = entry.rid

IInv == TypeOK /\ Sources /\ Backed /\ Gone /\ Rows /\ Refused /\ Own /\ Numbers /\ Whole /\ Spent /\ Retired /\ Untouched

-----------------------------------------------------------------------------
(* Frames.                                                                 *)

\* A step of w leaves the frames of the others as they are.
Alone(w) == frame' \in [Worker -> FrameType] /\ \A v \in Worker \ {w} : frame'[v] = frame[v]

\* And it keeps what w's own frame says of the attempt.
Kept(w) ==
    /\ Alone(w)
    /\ frame'[w].op = frame[w].op /\ frame'[w].via = frame[w].via
    /\ frame'[w].gen = frame[w].gen /\ frame'[w].src = frame[w].src /\ frame'[w].copy = frame[w].copy

LEMMA PcNames ==
    Pc = {"idle", "open", "allocate", "record", "fence", "note", "authorize", "fence_retire",
          "finalize", "done", "collided", "raised", "fence_clear", "reset", "conflict", "settle",
          "copy", "copying", "publish", "unalias", "verify", "check",
          "retire", "visible", "look", "clearing", "unlink_staging", "resume", "classify"}
BY DEF Pc, LeasePc, FilePc

LEMMA RowStep ==
    ASSUME frame \in [Worker -> FrameType], NEW w \in Worker, NEW row \in FrameType,
           frame' = [frame EXCEPT ![w] = row]
    PROVE  Alone(w) /\ frame'[w] = row
BY DEF Alone

LEMMA FrameFields ==
    ASSUME frame \in [Worker -> FrameType], NEW w \in Worker
    PROVE  /\ frame[w] \in FrameType /\ frame[w].pc \in Pc /\ frame[w].op \in Op /\ frame[w].via \in Via
           /\ frame[w].gen \in 0..MaxGen /\ frame[w].copy \in 0..MaxGen /\ frame[w].src \in {Original} \cup 0..MaxGen
<1>1. frame[w] \in FrameType
  OBVIOUS
<1> QED BY <1>1 DEF FrameType

LEMMA GoStep ==
    ASSUME frame \in [Worker -> FrameType], NEW w \in Worker, NEW pc \in Pc, Go(w, pc)
    PROVE  Kept(w) /\ frame'[w].pc = pc
<1> DEFINE row == [frame[w] EXCEPT !.pc = pc]
<1>1. row \in FrameType /\ row.pc = pc /\ row.op = frame[w].op /\ row.via = frame[w].via /\ row.gen = frame[w].gen
      /\ row.src = frame[w].src /\ row.copy = frame[w].copy
  BY FrameFields DEF FrameType
<1>2. frame' = [frame EXCEPT ![w] = row]
  BY DEF Go
<1> HIDE DEF row
<1>3. Alone(w) /\ frame'[w] = row
  BY <1>1, <1>2, RowStep
<1> QED BY <1>1, <1>3 DEF Kept

LEMMA RaiseStep ==
    ASSUME frame \in [Worker -> FrameType], NEW w \in Worker, NEW why \in {"error", "repopulated"},
           frame' = [frame EXCEPT ![w].pc = "raised", ![w].why = why]
    PROVE  Kept(w) /\ frame'[w].pc = "raised"
<1> DEFINE row == [frame[w] EXCEPT !.pc = "raised", !.why = why]
<1>1. row \in FrameType /\ row.pc = "raised" /\ row.op = frame[w].op /\ row.via = frame[w].via /\ row.gen = frame[w].gen
      /\ row.src = frame[w].src /\ row.copy = frame[w].copy
  BY FrameFields, PcNames, ZenonT(40) DEF FrameType
<1>2. frame' = [frame EXCEPT ![w] = row]
  OBVIOUS
<1> HIDE DEF row
<1>3. Alone(w) /\ frame'[w] = row
  BY <1>1, <1>2, RowStep
<1> QED BY <1>1, <1>3 DEF Kept

LEMMA Raised ==
    ASSUME frame \in [Worker -> FrameType], NEW w \in Worker, Raise(w)
    PROVE  Kept(w) /\ frame'[w].pc = "raised"
BY RaiseStep DEF Raise

LEMMA IdleRow == Idle \in FrameType
BY PcNames, CrossStorageAssumption DEF Idle, FrameType, Op, Via

LEMMA StopStep ==
    ASSUME frame \in [Worker -> FrameType], NEW w \in Worker, Stop(w)
    PROVE  Alone(w) /\ frame'[w] = Idle
BY IdleRow, RowStep DEF Stop

LEMMA PhaseNames ==
    /\ Phase = {"none", "preparing", "active", "restoring", "restored", "conflict",
                "cross_copying", "cross_restore_copying", "cross_staging_verified", "cross_restore_staging_verified",
                "cross_public_published", "cross_restore_published",
                "cross_source_unlink_authorized", "cross_restore_retire_authorized"}
    /\ Copying("quarantine") = "cross_copying" /\ Copying("restore") = "cross_restore_copying"
    /\ Verified("quarantine") = "cross_staging_verified" /\ Verified("restore") = "cross_restore_staging_verified"
    /\ Published("quarantine") = "cross_public_published" /\ Published("restore") = "cross_restore_published"
    /\ Authorized("quarantine") = "cross_source_unlink_authorized"
    /\ Authorized("restore") = "cross_restore_retire_authorized"
<1> USE DEF Copying, Verified, Published, Authorized, Op
<1>1. /\ {Copying(op) : op \in Op} = {"cross_copying", "cross_restore_copying"}
      /\ {Verified(op) : op \in Op} = {"cross_staging_verified", "cross_restore_staging_verified"}
      /\ {Published(op) : op \in Op} = {"cross_public_published", "cross_restore_published"}
      /\ {Authorized(op) : op \in Op} = {"cross_source_unlink_authorized", "cross_restore_retire_authorized"}
  OBVIOUS
<1> QED BY <1>1 DEF Phase

-----------------------------------------------------------------------------
(* Steps of a transaction, by what they may write.                         *)

\* They look at the files or assert the lease.
Looks(w) ==
    \/ RefuseRestore(w) \/ ResumeRestore(w) \/ Fence(w) \/ PublishFails(w) \/ VerifyPublic(w) \/ VerifyDestination(w)
    \/ CheckSource(w) \/ CheckPublic(w) \/ FenceRetire(w) \/ SourceGone(w) \/ ClearStaging(w) \/ ClearRestoreStaging(w)
    \/ FenceClear(w) \/ ClassifySource(w) \/ ClassifyPublic(w)
\* They write a staging file.
Stages(w) ==
    \/ StartCopy(w) \/ StartRestoreCopy(w) \/ EndCopy(w) \/ EndRestoreCopy(w) \/ RetireAlias(w)
    \/ UnlinkStaging(w) \/ UnlinkRestoreStaging(w) \/ ResumePublication(w) \/ ResumeRestorePublication(w)
\* They change what is at one of the two names.
Moves(w) == PublishRename(w) \/ PublishLink(w) \/ UnlinkSource(w) \/ RetirePublic(w)
\* They write the entry, under the lease.
Opens(w) == OpenQuarantine(w) \/ OpenRestore(w) \/ Allocate(w) \/ RecordStaged(w) \/ RecordRestoreStaged(w)
Notes(w) ==
    \/ NotePublished(w) \/ NoteRestorePublished(w) \/ AuthorizeUnlink(w) \/ AuthorizeRetire(w)
    \/ FinalizeActive(w) \/ FinalizeRestored(w) \/ Collided(w) \/ ReconcileConflict(w)
    \/ ResetQuarantine(w) \/ ResetRestore(w)
\* They end what the worker was doing.
Ends(w) == QuarantineFailed(w) \/ RestoreFailed(w) \/ ItemResult(w) \/ SettleQuarantine(w)
Leaves(w) == Propagate(w) \/ Abandon(w) \/ Crash(w)
\* They begin or take up a transaction.
Begins(w) == IntendQuarantine(w) \/ IntendRestore(w) \/ CallRestore(w) \/ RecoverSome(w)
TakesUp(w) == LookAtQuarantine(w) \/ LookAtRestore(w)

LEMMA WorkerSteps ==
    ASSUME NEW w \in Worker,
           Run(w) \/ IntendQuarantine(w) \/ IntendRestore(w) \/ CallRestore(w) \/ Crash(w) \/ TakeOver(w)
    PROVE  \/ Looks(w) \/ Stages(w) \/ Moves(w) \/ Opens(w) \/ Notes(w) \/ Ends(w) \/ Leaves(w)
           \/ Begins(w) \/ TakesUp(w) \/ TakeOver(w)
BY DEF Run, Looks, Stages, Moves, Opens, Notes, Ends, Leaves, Begins, TakesUp

Looked(w) ==
    LET pc == frame'[w].pc IN
    /\ UNCHANGED <<owner, entry, item, place, slot, faults, tampers>> /\ Kept(w)
    /\ ~At(w, "idle")
    /\ \/ pc = "raised"
       \/ pc \in {"conflict", "collided"} /\ frame[w].pc \in {"publish", "clearing", "classify"}
       \/ pc = "look" /\ At(w, "open") /\ Doing(w, "restore") /\ Holding(w) /\ entry.phase /= "restoring"
       \/ At(w, "fence") /\ pc = "publish"
       \/ frame[w].pc \in {"clearing", "fence_clear"} /\ pc \in {"fence_clear", "unlink_staging", "reset"}
       \/ At(w, "verify") /\ pc \in {"authorize", "classify"} /\ place[To(frame[w].op)] = frame[w].copy
       \/ frame[w].pc \in Doubled /\ pc \in Doubled
       \/ At(w, "visible") /\ pc = "finalize" /\ place["home"] = None
       \/ At(w, "classify") /\ pc = "finalize" /\ place[From(frame[w].op)] = None

LEMMA LooksStep ==
    ASSUME TypeOK, NEW w \in Worker, Looks(w)
    PROVE  Looked(w)
<1> USE GoStep, Raised, PcNames DEF TypeOK, db, disk, env, Looked, At, Doing
<1>1. CASE RefuseRestore(w) \/ ResumeRestore(w)
  BY <1>1, PhaseNames DEF RefuseRestore, ResumeRestore
<1>2. CASE Fence(w) \/ FenceClear(w) \/ FenceRetire(w)
  BY <1>2 DEF Fence, FenceClear, FenceRetire, Doubled
<1>3. CASE PublishFails(w)
  BY <1>3 DEF PublishFails
<1>4. CASE VerifyPublic(w) \/ VerifyDestination(w)
  BY <1>4 DEF VerifyPublic, VerifyDestination, VerifyCopy
<1>5. CASE CheckSource(w) \/ CheckPublic(w)
  BY <1>5 DEF CheckSource, CheckPublic, CheckFile, Doubled
<1>6. CASE SourceGone(w)
  BY <1>6, RaiseStep DEF SourceGone
<1>7. CASE ClearStaging(w) \/ ClearRestoreStaging(w)
  BY <1>7 DEF ClearStaging, ClearRestoreStaging, ClearSlot
<1>8. CASE ClassifySource(w) \/ ClassifyPublic(w)
  BY <1>8 DEF ClassifySource, ClassifyPublic, Classify, Doubled
<1> QED BY <1>1, <1>2, <1>3, <1>4, <1>5, <1>6, <1>7, <1>8 DEF Looks

Staging(w) ==
    LET pc == frame'[w].pc
        f == frame[w]
    IN /\ UNCHANGED <<owner, entry, item, place, faults, tampers>> /\ Kept(w)
       /\ ~At(w, "idle")
       /\ \/ pc = "raised" /\ UNCHANGED slot
          \/ pc = "conflict" /\ frame[w].pc \in {"unlink_staging", "resume"} /\ UNCHANGED slot
          \/ At(w, "copy") /\ pc = "copying" /\ slot' = [slot EXCEPT ![f.gen] = "part"]
          \/ At(w, "copying") /\ pc = "record" /\ slot[f.gen] /= "none" /\ slot' = [slot EXCEPT ![f.gen] = "full"]
          \/ At(w, "unalias") /\ pc = "note" /\ slot' = [slot EXCEPT ![f.copy] = "none"]
          \/ At(w, "unlink_staging") /\ pc = "reset" /\ slot' = [slot EXCEPT ![f.gen] = "none"]
          \/ At(w, "resume") /\ pc = "fence" /\ f.copy \in Gen /\ UNCHANGED slot
          \/ At(w, "resume") /\ pc = "note" /\ f.copy \in Gen /\ slot' = [slot EXCEPT ![f.copy] = "none"]

LEMMA StagesStep ==
    ASSUME TypeOK, NEW w \in Worker, Stages(w)
    PROVE  Staging(w)
<1> USE GoStep, Raised, PcNames DEF TypeOK, db, env, Staging, At, Doing
<1>1. CASE StartCopy(w) \/ StartRestoreCopy(w)
  BY <1>1 DEF StartCopy, StartRestoreCopy, BeginCopy
<1>2. CASE EndCopy(w) \/ EndRestoreCopy(w)
  BY <1>2 DEF EndCopy, EndRestoreCopy, CopyEnds
<1>3. CASE RetireAlias(w)
  BY <1>3 DEF RetireAlias
<1>4. CASE UnlinkStaging(w) \/ UnlinkRestoreStaging(w)
  BY <1>4 DEF UnlinkStaging, UnlinkRestoreStaging, UnlinkSlot
<1>5. ASSUME NEW op \in Op, Resume(w, op) PROVE Staging(w)
  <2>1. place[To(op)] \in Content
    BY DEF Op, To, Place
  <2>2. place[To(op)] = frame[w].copy => frame[w].copy \in Gen
    BY <2>1, FrameFields, CrossStorageAssumption DEF Content
  <2>3. UNCHANGED <<owner, entry, item, place, faults, tampers>> /\ At(w, "resume")
    BY <1>5 DEF Resume
  <2>4. CASE Staged(frame[w].copy) /\ place[To(op)] = None
    <3>1. Go(w, "fence") /\ place[To(op)] /= frame[w].copy
      BY <1>5, <2>4, FrameFields, CrossStorageAssumption DEF Resume
    <3>2. UNCHANGED slot
      BY <1>5, <3>1 DEF Resume
    <3> QED BY <2>3, <2>4, <3>1, <3>2 DEF Staged
  <2>5. CASE place[To(op)] = frame[w].copy
    <3>1. Go(w, "note")
      BY <1>5, <2>5, <2>2, CrossStorageAssumption DEF Resume, Gen
    <3>2. slot' = [slot EXCEPT ![frame[w].copy] = "none"]
      BY <1>5, <2>2, <2>5 DEF Resume, Staged
    <3> QED BY <2>2, <2>3, <2>5, <3>1, <3>2
  <2>6. CASE ~(Staged(frame[w].copy) /\ place[To(op)] = None) /\ place[To(op)] /= frame[w].copy
    <3>1. Go(w, "conflict") \/ Go(w, "raised")
      BY <1>5, <2>6 DEF Resume
    <3>2. UNCHANGED slot
      BY <1>5, <2>6 DEF Resume
    <3> QED BY <2>3, <3>1, <3>2
  <2> QED BY <2>4, <2>5, <2>6
<1> QED BY <1>1, <1>2, <1>3, <1>4, <1>5 DEF Stages, ResumePublication, ResumeRestorePublication, Op

Moving(w) ==
    LET pc == frame'[w].pc
        f == frame[w]
    IN /\ UNCHANGED <<owner, entry, item, faults, tampers>> /\ Kept(w)
       /\ \/ /\ At(w, "publish") /\ f.copy \in Gen /\ slot[f.copy] /= "none" /\ place[To(f.op)] = None
             /\ place' = [place EXCEPT ![To(f.op)] = f.copy]
             /\ \/ pc = "note" /\ slot' = [slot EXCEPT ![f.copy] = "none"]
                \/ pc = "unalias" /\ UNCHANGED slot
          \/ At(w, "retire") /\ pc = "raised" /\ UNCHANGED <<place, slot>>
          \/ /\ At(w, "retire") /\ Doing(w, "quarantine") /\ place["home"] = f.src
             /\ place' = [place EXCEPT !["home"] = None] /\ pc = "visible" /\ UNCHANGED slot
          \/ /\ At(w, "retire") /\ Doing(w, "restore") /\ place["public"] = f.src
             /\ place' = [place EXCEPT !["public"] = None] /\ pc = "finalize" /\ UNCHANGED slot

LEMMA MovesStep ==
    ASSUME TypeOK, Numbers, NEW w \in Worker, Moves(w)
    PROVE  Moving(w)
<1> USE GoStep, Raised, PcNames DEF TypeOK, db, env, Moving, At, Doing
<1>1. CASE PublishRename(w)
  BY <1>1 DEF PublishRename, Numbers
<1>2. CASE PublishLink(w)
  BY <1>2 DEF PublishLink, Numbers
<1>3. CASE UnlinkSource(w)
  BY <1>3 DEF UnlinkSource
<1>4. CASE RetirePublic(w)
  BY <1>4 DEF RetirePublic
<1> QED BY <1>1, <1>2, <1>3, <1>4 DEF Moves

EntryType == [state : EntryState, phase : Phase, gen : 0..MaxGen, qid : 0..MaxGen, rid : 0..MaxGen]

\* Only the state and the phase of the entry change.
SameAttempt == entry'.gen = entry.gen /\ entry'.qid = entry.qid /\ entry'.rid = entry.rid

LEMMA EntryFields ==
    ASSUME entry \in EntryType, NEW s \in EntryState, NEW ph \in Phase, entry' = [entry EXCEPT !.state = s, !.phase = ph]
    PROVE  entry' \in EntryType /\ entry'.state = s /\ entry'.phase = ph /\ SameAttempt
BY DEF EntryType, SameAttempt

\* Begin a copy, number the attempt, record the copy.
Opening(w) ==
    LET next == frame'[w]
        f == frame[w]
    IN /\ UNCHANGED <<owner, item, place, slot, faults, tampers>> /\ Holding(w) /\ Alone(w)
       /\ next.op = f.op /\ next.via = f.via /\ entry' \in EntryType
       /\ \/ /\ At(w, "open") /\ next.pc = "allocate" /\ next.copy = 0 /\ next.gen = f.gen
             /\ Doing(w, "quarantine") => next.src = Original
             /\ \/ /\ Doing(w, "quarantine") /\ SameAttempt
                   /\ entry'.state = "preparing" /\ entry'.phase = Copying("quarantine")
                \/ /\ Doing(w, "restore") /\ entry.phase = "active"
                   /\ entry'.state = "restoring" /\ entry'.phase = Copying("restore")
                   /\ entry'.gen = entry.gen /\ entry'.qid = entry.qid /\ entry'.rid = 0
          \/ /\ At(w, "allocate") /\ next.pc = "copy" /\ next.copy = f.copy /\ next.src = f.src
             /\ entry.gen < MaxGen /\ next.gen = entry.gen + 1 /\ entry'.gen = entry.gen + 1
             /\ entry'.state = entry.state /\ entry'.phase = entry.phase
             /\ entry'.qid = entry.qid /\ entry'.rid = entry.rid
          \/ /\ At(w, "record") /\ next.pc = "fence" /\ next.copy = f.gen /\ next.gen = f.gen /\ next.src = f.src
             /\ entry'.phase = Verified(f.op) /\ entry'.gen = entry.gen
             /\ \/ /\ Doing(w, "quarantine") /\ entry'.state = entry.state
                   /\ entry'.qid = f.gen /\ entry'.rid = entry.rid
                \/ /\ Doing(w, "restore") /\ entry'.state = "restoring"
                   /\ entry'.qid = entry.qid /\ entry'.rid = f.gen

LEMMA OpensStep ==
    ASSUME TypeOK, NEW w \in Worker, Opens(w)
    PROVE  Opening(w)
<1> USE PcNames DEF TypeOK, disk, env, At, Doing
<1>0. /\ frame[w] \in FrameType /\ entry.qid \in 0..MaxGen /\ entry.gen \in 0..MaxGen /\ MaxGen \in Nat
      /\ frame[w].gen \in 0..MaxGen /\ entry \in EntryType
      /\ {"preparing", "restoring"} \subseteq EntryState /\ 0 \in 0..MaxGen
      /\ \A op \in {"quarantine", "restore"} : Copying(op) \in Phase /\ Verified(op) \in Phase
  BY FrameFields, CrossStorageAssumption, PhaseNames DEF EntryType, EntryState
<1>1. CASE OpenQuarantine(w) \/ OpenRestore(w)
  <2> DEFINE row == [frame[w] EXCEPT !.pc = "allocate", !.body = "execute", !.src = Authority(frame[w].op), !.copy = 0]
  <2>0. Authority(frame[w].op) \in {Original} \cup 0..MaxGen /\ 0 \in 0..MaxGen
    BY <1>0 DEF Authority
  <2>1. /\ row \in FrameType /\ row.pc = "allocate" /\ row.copy = 0 /\ row.gen = frame[w].gen
        /\ row.op = frame[w].op /\ row.via = frame[w].via /\ row.src = Authority(frame[w].op)
    BY <1>0, <2>0 DEF FrameType
  <2>2. frame' = [frame EXCEPT ![w] = row]
    BY <1>1 DEF OpenQuarantine, OpenRestore, Opened
  <2> HIDE DEF row
  <2>3. Alone(w) /\ frame'[w] = row
    BY <2>1, <2>2, RowStep
  <2>4. CASE OpenQuarantine(w)
    <3>1. entry' = [entry EXCEPT !.state = "preparing", !.phase = Copying("quarantine")]
      BY <2>4 DEF OpenQuarantine
    <3>2. entry' \in EntryType /\ entry'.state = "preparing" /\ entry'.phase = Copying("quarantine") /\ SameAttempt
      BY <1>0, <3>1, EntryFields
    <3> QED BY <2>1, <2>3, <2>4, <3>2 DEF OpenQuarantine, Opening, Authority
  <2>5. CASE OpenRestore(w)
    <3>1. entry' = [entry EXCEPT !.state = "restoring", !.phase = Copying("restore"), !.rid = 0]
      BY <2>5 DEF OpenRestore
    <3>2. /\ entry' \in EntryType /\ entry'.state = "restoring" /\ entry'.phase = Copying("restore")
          /\ entry'.gen = entry.gen /\ entry'.qid = entry.qid /\ entry'.rid = 0
      BY <1>0, <3>1 DEF EntryType
    <3> QED BY <2>1, <2>3, <2>5, <3>2 DEF OpenRestore, Opening
  <2> QED BY <1>1, <2>4, <2>5
<1>2. CASE Allocate(w)
  <2> DEFINE row == [frame[w] EXCEPT !.pc = "copy", !.gen = entry.gen + 1]
  <2>0. entry.gen + 1 \in 0..MaxGen
    BY <1>0, <1>2 DEF Allocate
  <2>1. /\ row \in FrameType /\ row.pc = "copy" /\ row.copy = frame[w].copy /\ row.gen = entry.gen + 1
        /\ row.op = frame[w].op /\ row.via = frame[w].via /\ row.src = frame[w].src
    BY <1>0, <2>0 DEF FrameType
  <2>2. frame' = [frame EXCEPT ![w] = row]
    BY <1>2 DEF Allocate
  <2> HIDE DEF row
  <2>3. Alone(w) /\ frame'[w] = row
    BY <2>1, <2>2, RowStep
  <2>4. entry' = [entry EXCEPT !.gen = entry.gen + 1]
    BY <1>2 DEF Allocate
  <2>5. /\ entry' \in EntryType /\ entry'.state = entry.state /\ entry'.phase = entry.phase
        /\ entry'.gen = entry.gen + 1 /\ entry'.qid = entry.qid /\ entry'.rid = entry.rid
    BY <1>0, <2>0, <2>4 DEF EntryType
  <2> QED BY <1>2, <2>1, <2>3, <2>5 DEF Allocate, Opening
<1>3. CASE RecordStaged(w) \/ RecordRestoreStaged(w)
  <2> DEFINE row == [frame[w] EXCEPT !.pc = "fence", !.copy = frame[w].gen]
  <2>1. /\ row \in FrameType /\ row.pc = "fence" /\ row.copy = frame[w].gen /\ row.gen = frame[w].gen
        /\ row.op = frame[w].op /\ row.via = frame[w].via /\ row.src = frame[w].src
    BY <1>0 DEF FrameType
  <2>2. frame' = [frame EXCEPT ![w] = row]
    BY <1>3 DEF RecordStaged, RecordRestoreStaged, RecordCopy
  <2> HIDE DEF row
  <2>3. Alone(w) /\ frame'[w] = row
    BY <2>1, <2>2, RowStep
  <2>4. CASE RecordStaged(w)
    <3>1. entry' = [entry EXCEPT !.phase = Verified("quarantine"), !.qid = frame[w].gen]
      BY <2>4 DEF RecordStaged
    <3>2. /\ entry' \in EntryType /\ entry'.state = entry.state /\ entry'.phase = Verified("quarantine")
          /\ entry'.gen = entry.gen /\ entry'.qid = frame[w].gen /\ entry'.rid = entry.rid
      BY <1>0, <3>1 DEF EntryType
    <3> QED BY <2>1, <2>3, <2>4, <3>2 DEF RecordStaged, RecordCopy, Opening
  <2>5. CASE RecordRestoreStaged(w)
    <3>1. entry' = [entry EXCEPT !.state = "restoring", !.phase = Verified("restore"), !.rid = frame[w].gen]
      BY <2>5 DEF RecordRestoreStaged
    <3>2. /\ entry' \in EntryType /\ entry'.state = "restoring" /\ entry'.phase = Verified("restore")
          /\ entry'.gen = entry.gen /\ entry'.qid = entry.qid /\ entry'.rid = frame[w].gen
      BY <1>0, <3>1 DEF EntryType
    <3> QED BY <2>1, <2>3, <2>5, <3>2 DEF RecordRestoreStaged, RecordCopy, Opening
  <2> QED BY <1>3, <2>4, <2>5
<1> QED BY <1>1, <1>2, <1>3 DEF Opens

\* What the owner of the lease writes into the entry at its later steps.
Noting(w) ==
    LET pc == frame'[w].pc
        op == frame[w].op
    IN /\ UNCHANGED <<owner, item, place, slot, faults, tampers>> /\ Holding(w) /\ Kept(w)
       /\ entry' \in EntryType /\ SameAttempt
       /\ \/ /\ At(w, "note") /\ pc = "verify" /\ entry'.phase = Published(op)
             /\ entry'.state = (IF op = "restore" THEN "restoring" ELSE entry.state)
          \/ /\ At(w, "authorize") /\ pc = "check" /\ entry'.phase = Authorized(op)
             /\ entry'.state = (IF op = "restore" THEN "restoring" ELSE entry.state)
          \/ /\ At(w, "reset") /\ op = "quarantine" /\ pc = "open"
             /\ entry'.phase = "preparing" /\ entry'.state = entry.state
          \/ At(w, "reset") /\ op = "restore" /\ pc = "open" /\ entry'.phase = "active" /\ entry'.state = "active"
          \/ At(w, "reset") /\ pc = "conflict" /\ entry' = entry
          \/ frame[w].pc \in {"collided", "conflict"} /\ pc = "raised" /\ entry'.phase = "conflict" /\ entry'.state = "conflict"

\* The last write of a transaction.
Finalizing(w) ==
    /\ UNCHANGED <<owner, item, place, slot, faults, tampers>> /\ Holding(w) /\ Alone(w) /\ At(w, "finalize")
    /\ entry' \in EntryType /\ SameAttempt
    /\ \/ Kept(w) /\ frame'[w].pc = "done" /\ frame[w].via = "plan"
       \/ Kept(w) /\ frame'[w].pc = "settle"
       \/ frame'[w] = Idle
    /\ \/ Doing(w, "quarantine") /\ entry'.state = "active" /\ entry'.phase = "active"
       \/ Doing(w, "restore") /\ entry'.state = "restored" /\ entry'.phase = "restored"

LEMMA NotesStep ==
    ASSUME TypeOK, NEW w \in Worker, Notes(w)
    PROVE  Noting(w) \/ Finalizing(w)
<1> USE GoStep, Raised, StopStep, PcNames DEF TypeOK, disk, env, At, Doing
<1>0. /\ entry \in EntryType /\ entry.state \in EntryState /\ entry.phase \in Phase
      /\ {"restoring", "active", "restored", "conflict"} \subseteq EntryState
      /\ {"preparing", "active", "restored", "conflict"} \subseteq Phase
      /\ entry = [entry EXCEPT !.state = entry.state, !.phase = entry.phase]
      /\ \A op \in Op : Published(op) \in Phase /\ Authorized(op) \in Phase
      /\ frame[w].op \in Op
  BY FrameFields DEF EntryType, EntryState, Phase
<1>1. CASE NotePublished(w) \/ NoteRestorePublished(w)
  <2>1. PICK op \in Op : NotePhase(w, op)
    BY <1>1 DEF NotePublished, NoteRestorePublished, Op
  <2>2. PICK s \in EntryState, ph \in Phase :
           /\ s = (IF op = "restore" THEN "restoring" ELSE entry.state) /\ ph = Published(op)
           /\ entry' = [entry EXCEPT !.state = s, !.phase = ph]
    BY <1>0, <2>1 DEF NotePhase
  <2>3. entry' \in EntryType /\ entry'.state = s /\ entry'.phase = ph /\ SameAttempt
    BY <1>0, <2>2, EntryFields
  <2> QED BY <2>1, <2>2, <2>3 DEF NotePhase, Noting, Kept
<1>2. CASE AuthorizeUnlink(w) \/ AuthorizeRetire(w)
  <2>1. PICK op \in Op : AuthorizePhase(w, op)
    BY <1>2 DEF AuthorizeUnlink, AuthorizeRetire, Op
  <2>2. PICK s \in EntryState, ph \in Phase :
           /\ s = (IF op = "restore" THEN "restoring" ELSE entry.state) /\ ph = Authorized(op)
           /\ entry' = [entry EXCEPT !.state = s, !.phase = ph]
    BY <1>0, <2>1 DEF AuthorizePhase
  <2>3. entry' \in EntryType /\ entry'.state = s /\ entry'.phase = ph /\ SameAttempt
    BY <1>0, <2>2, EntryFields
  <2> QED BY <2>1, <2>2, <2>3 DEF AuthorizePhase, Noting, Kept
<1>3. CASE FinalizeActive(w) \/ FinalizeRestored(w)
  <2>1. /\ entry' \in EntryType /\ SameAttempt
        /\ \/ Doing(w, "quarantine") /\ entry'.state = "active" /\ entry'.phase = "active"
           \/ Doing(w, "restore") /\ entry'.state = "restored" /\ entry'.phase = "restored"
    <3>1. CASE FinalizeActive(w)
      BY <1>0, <3>1, EntryFields DEF FinalizeActive
    <3>2. CASE FinalizeRestored(w)
      BY <1>0, <3>2, EntryFields DEF FinalizeRestored
    <3> QED BY <1>3, <3>1, <3>2
  <2>2. /\ UNCHANGED <<owner, item, place, slot, faults, tampers>> /\ Holding(w) /\ At(w, "finalize") /\ Finished(w)
    BY <1>3 DEF FinalizeActive, FinalizeRestored
  <2>3. frame[w].via \in {"plan", "recovery", "service"}
    BY FrameFields DEF Via
  <2>4. CASE Go(w, "done") /\ frame[w].via = "plan"
    BY <2>1, <2>2, <2>4 DEF Finalizing, Kept
  <2>5. CASE Go(w, "settle")
    BY <2>1, <2>2, <2>5 DEF Finalizing, Kept
  <2>6. CASE Stop(w)
    BY <2>1, <2>2, <2>6 DEF Finalizing
  <2> QED BY <2>2, <2>3, <2>4, <2>5, <2>6 DEF Finished
<1>4. CASE Collided(w) \/ ReconcileConflict(w)
  <2>1. entry' \in EntryType /\ entry'.state = "conflict" /\ entry'.phase = "conflict" /\ SameAttempt
    BY <1>0, <1>4, EntryFields, ZenonT(40) DEF Collided, ReconcileConflict, MarkConflict
  <2> QED BY <1>4, <2>1 DEF Collided, ReconcileConflict, MarkConflict, Noting, Kept
<1>5. CASE ResetQuarantine(w)
  <2>1. CASE Go(w, "conflict") /\ UNCHANGED entry
    BY <1>0, <1>5, <2>1 DEF ResetQuarantine, Noting, Kept, SameAttempt
  <2>2. CASE Go(w, "open") /\ entry' = [entry EXCEPT !.phase = "preparing"]
    <3>1. entry' = [entry EXCEPT !.state = entry.state, !.phase = "preparing"]
      BY <1>0, <2>2 DEF EntryType
    <3>2. entry' \in EntryType /\ entry'.state = entry.state /\ entry'.phase = "preparing" /\ SameAttempt
      BY <1>0, <3>1, EntryFields
    <3> QED BY <1>5, <2>2, <3>2 DEF ResetQuarantine, Noting, Kept
  <2> QED BY <1>5, <2>1, <2>2 DEF ResetQuarantine
<1>6. CASE ResetRestore(w)
  <2>1. entry' \in EntryType /\ entry'.state = "active" /\ entry'.phase = "active" /\ SameAttempt
    BY <1>0, <1>6, EntryFields DEF ResetRestore
  <2> QED BY <1>6, <2>1 DEF ResetRestore, Noting, Kept
<1> QED BY <1>1, <1>2, <1>3, <1>4, <1>5, <1>6 DEF Notes

Ending(w) ==
    /\ UNCHANGED <<owner, place, slot, faults, tampers>> /\ Holding(w) /\ Alone(w) /\ frame'[w] = Idle
    /\ item' \in [Op -> ItemState] /\ entry' \in EntryType /\ SameAttempt
    /\ \/ /\ At(w, "raised") /\ Doing(w, "quarantine")
          /\ item' = [item EXCEPT !["quarantine"] = "failed"] /\ entry'.phase \in {entry.phase, "conflict"}
          /\ entry'.state \in {entry.state, "abandoned", "conflict"}
          /\ entry'.phase = entry.phase \/ entry'.state = "conflict"
       \/ /\ At(w, "raised") /\ Doing(w, "restore")
          /\ item' = [item EXCEPT !["restore"] = "failed"] /\ entry'.phase = "conflict" /\ entry'.state = "conflict"
       \/ /\ At(w, "done")
          /\ \/ /\ place["home"] = None
                /\ item' = [item EXCEPT !["quarantine"] = "completed"] /\ entry'.phase = "active" /\ entry'.state = "active"
             \/ item' = [item EXCEPT !["quarantine"] = "failed"] /\ entry'.phase = "conflict" /\ entry'.state = "conflict"
       \/ /\ At(w, "settle") /\ Doing(w, "quarantine")
          /\ \/ /\ entry.phase = "none" /\ entry'.phase = "none" /\ entry'.state = "abandoned"
                /\ item' = [item EXCEPT !["quarantine"] = "planned"]
             \/ /\ entry' = entry /\ entry.state \in {"active", "restored"}
                /\ item' = [item EXCEPT !["quarantine"] = "completed"]
             \/ entry' = entry /\ item' = [item EXCEPT !["quarantine"] = "failed"]
             \/ /\ entry' = entry /\ entry.phase /= "none" /\ entry.state = "preparing"
                /\ item' = [item EXCEPT !["quarantine"] = "planned"]

LEMMA EndsStep ==
    ASSUME TypeOK, NEW w \in Worker, Ends(w)
    PROVE  Ending(w)
<1> USE StopStep DEF TypeOK, disk, env, At, Doing, Ending
<1>0. /\ entry \in EntryType /\ entry.state \in EntryState /\ entry.phase \in Phase
      /\ {"active", "conflict", "abandoned"} \subseteq EntryState /\ {"active", "conflict"} \subseteq Phase
      /\ \A s \in EntryState : [entry EXCEPT !.state = s] = [entry EXCEPT !.state = s, !.phase = entry.phase]
      /\ \A op \in Op, s \in ItemState : [item EXCEPT ![op] = s] \in [Op -> ItemState]
      /\ {"planned", "completed", "failed"} \subseteq ItemState /\ {"quarantine", "restore"} \subseteq Op
  BY DEF EntryType, EntryState, Phase, ItemState, Op
<1>1. entry' = entry => entry' \in EntryType /\ SameAttempt
  BY <1>0 DEF SameAttempt
<1>2. ASSUME NEW s \in EntryState, entry' = [entry EXCEPT !.state = s]
      PROVE  entry' \in EntryType /\ SameAttempt /\ entry'.phase = entry.phase /\ entry'.state = s
  BY <1>0, <1>2, EntryFields
<1>3. ASSUME NEW s \in {"active", "conflict"}, entry' = [entry EXCEPT !.state = s, !.phase = s]
      PROVE  entry' \in EntryType /\ SameAttempt /\ entry'.phase = s /\ entry'.state = s
  BY <1>0, <1>3, EntryFields
<1>4. CASE QuarantineFailed(w)
  <2>1. \/ entry' = [entry EXCEPT !.state = "conflict", !.phase = "conflict"]
        \/ entry' = entry
        \/ entry' = [entry EXCEPT !.state = "abandoned"]
    BY <1>4 DEF QuarantineFailed
  <2>2. entry' \in EntryType /\ SameAttempt /\ entry'.phase \in {entry.phase, "conflict"}
        /\ (entry'.phase = entry.phase \/ entry'.state = "conflict")
        /\ entry'.state \in {entry.state, "abandoned", "conflict"}
    BY <1>0, <1>1, <1>2, <1>3, <2>1
  <2> QED BY <1>0, <1>4, <2>2 DEF QuarantineFailed
<1>5. CASE RestoreFailed(w)
  BY <1>0, <1>3, <1>5 DEF RestoreFailed
<1>6. CASE ItemResult(w)
  <2>1. CASE place["home"] = None /\ place["public"] /= None
    <3>1. /\ entry' = [entry EXCEPT !.state = "active", !.phase = "active"]
          /\ item' = [item EXCEPT !["quarantine"] = "completed"]
          /\ Holding(w) /\ At(w, "done") /\ Stop(w) /\ UNCHANGED <<owner, disk, env>>
      BY <1>6, <2>1 DEF ItemResult
    <3>2. entry' \in EntryType /\ SameAttempt /\ entry'.phase = "active" /\ entry'.state = "active"
      BY <1>3, <3>1
    <3> QED BY <1>0, <2>1, <3>1, <3>2
  <2>2. CASE ~(place["home"] = None /\ place["public"] /= None)
    <3>1. /\ entry' = [entry EXCEPT !.state = "conflict", !.phase = "conflict"]
          /\ item' = [item EXCEPT !["quarantine"] = "failed"]
          /\ Holding(w) /\ At(w, "done") /\ Stop(w) /\ UNCHANGED <<owner, disk, env>>
      BY <1>6, <2>2 DEF ItemResult
    <3>2. entry' \in EntryType /\ SameAttempt /\ entry'.phase = "conflict" /\ entry'.state = "conflict"
      BY <1>3, <3>1
    <3> QED BY <1>0, <2>2, <3>1, <3>2
  <2> QED BY <2>1, <2>2
<1>7. CASE SettleQuarantine(w)
  <2>1. CASE entry.phase = "none" /\ item' = [item EXCEPT !["quarantine"] = "planned"]
    BY <1>0, <1>2, <1>7, <2>1 DEF SettleQuarantine
  <2>2. CASE entry' = entry /\ item' = [item EXCEPT !["quarantine"] = "failed"]
    BY <1>0, <1>1, <1>7, <2>2 DEF SettleQuarantine
  <2>3. CASE entry.phase /= "none"
    <3>1. entry' = entry
      BY <1>7, <2>3 DEF SettleQuarantine
    <3>2. CASE entry.state \in {"active", "restored"}
      <4>1. item' = [item EXCEPT !["quarantine"] = "completed"]
        BY <1>7, <2>3, <3>2 DEF SettleQuarantine
      <4> QED BY <1>0, <1>1, <1>7, <3>1, <3>2, <4>1 DEF SettleQuarantine
    <3>3. CASE entry.state = "preparing"
      BY <1>0, <1>1, <1>7, <2>3, <3>1, <3>3 DEF SettleQuarantine
    <3>4. CASE entry.state \notin {"active", "restored", "preparing"}
      BY <1>0, <1>1, <1>7, <2>3, <3>1, <3>4 DEF SettleQuarantine
    <3> QED BY <3>2, <3>3, <3>4
  <2> QED BY <1>7, <2>1, <2>2, <2>3 DEF SettleQuarantine
<1> QED BY <1>4, <1>5, <1>6, <1>7 DEF Ends

Leaving(w) ==
    /\ UNCHANGED <<owner, entry, item, place, slot, tampers>> /\ Alone(w) /\ frame'[w] = Idle
    /\ faults' \in 0..MaxFaults

LEMMA LeavesStep ==
    ASSUME TypeOK, NEW w \in Worker, Leaves(w)
    PROVE  Leaving(w)
<1> USE StopStep DEF Leaving, TypeOK, db, disk, env
<1>1. CASE Propagate(w) \/ Abandon(w)
  BY <1>1 DEF Propagate, Abandon
<1>2. CASE Crash(w)
  BY <1>2, CrossStorageAssumption DEF Crash
<1> QED BY <1>1, <1>2 DEF Leaves

\* A worker that begins has a frame that says nothing yet of an attempt.
Begun(w, op, via, pc) ==
    /\ Alone(w)
    /\ frame'[w].op = op /\ frame'[w].via = via /\ frame'[w].pc = pc
    /\ frame'[w].gen = 0 /\ frame'[w].src = Original /\ frame'[w].copy = 0

Beginning(w) ==
    /\ UNCHANGED <<owner, place, slot, faults, tampers>> /\ Holding(w) /\ At(w, "idle")
    /\ item' \in [Op -> ItemState] /\ entry' \in EntryType
    /\ \/ /\ Begun(w, "quarantine", "plan", "open") /\ item["quarantine"] = "planned"
          /\ item' = [item EXCEPT !["quarantine"] = "executing"] /\ entry' = FreshEntry
       \/ /\ Begun(w, "restore", "plan", "open") /\ item["quarantine"] = "completed" /\ entry.phase = "active"
          /\ item' = [item EXCEPT !["restore"] = "executing"]
          /\ SameAttempt /\ entry'.state = "restoring" /\ entry'.phase = "restoring"
       \/ /\ Begun(w, "restore", "service", "open") /\ item["quarantine"] = "completed" /\ UNCHANGED <<entry, item>>
       \/ /\ \E op \in Op : Begun(w, op, "recovery", "look") /\ item[op] = "executing"
          /\ UNCHANGED <<entry, item>>
       \/ /\ \E op \in Op : Begun(w, op, "recovery", "settle") /\ item[op] = "executing"
          /\ entry.phase = "none" \/ entry.state \in {"active", "restored", "conflict"}
          /\ UNCHANGED <<entry, item>>

LEMMA BegunRow ==
    ASSUME frame \in [Worker -> FrameType], NEW w \in Worker, NEW op \in Op, NEW via \in Via, NEW pc \in Pc,
           \/ frame' = [frame EXCEPT ![w] = [Idle EXCEPT !.op = op, !.via = via, !.pc = pc]]
           \/ frame' = [frame EXCEPT ![w] = [Idle EXCEPT !.pc = pc, !.op = op, !.via = via]]
           \/ via = "plan" /\ frame' = [frame EXCEPT ![w] = [Idle EXCEPT !.pc = pc, !.op = op]]
           \/ via = "plan" /\ op = "quarantine" /\ frame' = [frame EXCEPT ![w] = [Idle EXCEPT !.pc = pc]]
    PROVE  Begun(w, op, via, pc)
<1> DEFINE Fits(row) == /\ row \in FrameType /\ row.op = op /\ row.via = via /\ row.pc = pc
                        /\ row.gen = 0 /\ row.src = Original /\ row.copy = 0
<1>1. Fits([Idle EXCEPT !.op = op, !.via = via, !.pc = pc])
  BY IdleRow DEF FrameType, Idle
<1>2. Fits([Idle EXCEPT !.pc = pc, !.op = op, !.via = via])
  BY IdleRow DEF FrameType, Idle
<1>3. via = "plan" => Fits([Idle EXCEPT !.pc = pc, !.op = op])
  BY IdleRow DEF FrameType, Idle
<1>4. via = "plan" /\ op = "quarantine" => Fits([Idle EXCEPT !.pc = pc])
  BY IdleRow DEF FrameType, Idle
<1> HIDE DEF Fits
<1>5. PICK row : Fits(row) /\ frame' = [frame EXCEPT ![w] = row]
  BY <1>1, <1>2, <1>3, <1>4
<1>6. row \in FrameType
  BY <1>5 DEF Fits
<1>7. Alone(w) /\ frame'[w] = row
  BY <1>5, <1>6, RowStep
<1> QED BY <1>5, <1>7 DEF Begun, Fits

LEMMA BeginsStep ==
    ASSUME TypeOK, NEW w \in Worker, Begins(w)
    PROVE  Beginning(w)
<1> USE PcNames DEF TypeOK, disk, env, Beginning
<1>0. /\ entry \in EntryType /\ {"quarantine", "restore"} \subseteq Op /\ {"plan", "recovery", "service"} = Via
      /\ {"open", "look", "settle"} \subseteq Pc
      /\ \A op \in Op : [item EXCEPT ![op] = "executing"] \in [Op -> ItemState]
  BY DEF EntryType, Op, Via, ItemState
<1>1. CASE IntendQuarantine(w)
  <2>1. FreshEntry \in EntryType
    BY CrossStorageAssumption DEF FreshEntry, EntryType, EntryState, Phase
  <2>2. frame' = [frame EXCEPT ![w] = [Idle EXCEPT !.pc = "open"]]
    BY <1>1 DEF IntendQuarantine
  <2>3. Begun(w, "quarantine", "plan", "open")
    BY <1>0, <2>2, BegunRow
  <2> QED BY <1>0, <1>1, <2>1, <2>3 DEF IntendQuarantine
<1>2. CASE IntendRestore(w)
  <2>1. entry' \in EntryType /\ SameAttempt /\ entry'.state = "restoring" /\ entry'.phase = "restoring"
    BY <1>0, <1>2, EntryFields DEF IntendRestore, EntryState, Phase
  <2>2. frame' = [frame EXCEPT ![w] = [Idle EXCEPT !.pc = "open", !.op = "restore"]]
    BY <1>2 DEF IntendRestore
  <2>3. Begun(w, "restore", "plan", "open")
    BY <1>0, <2>2, BegunRow
  <2> QED BY <1>0, <1>2, <2>1, <2>3 DEF IntendRestore
<1>3. CASE CallRestore(w)
  <2>1. frame' = [frame EXCEPT ![w] = [Idle EXCEPT !.pc = "open", !.op = "restore", !.via = "service"]]
    BY <1>3 DEF CallRestore
  <2>2. Begun(w, "restore", "service", "open")
    BY <1>0, <2>1, BegunRow
  <2> QED BY <1>0, <1>3, <2>2 DEF CallRestore
<1>4. ASSUME NEW op \in Op, Recover(w, op)
      PROVE  Beginning(w)
  <2>1. /\ UNCHANGED <<owner, entry, item, place, slot, faults, tampers>> /\ Holding(w) /\ At(w, "idle")
        /\ item[op] = "executing"
    BY <1>4 DEF Recover, db
  <2>2. CASE entry.phase = "none" \/ entry.state \in {"active", "restored", "conflict"}
    <3>1. frame' = [frame EXCEPT ![w] = [Idle EXCEPT !.op = op, !.via = "recovery", !.pc = "settle"]]
      BY <1>4, <2>2 DEF Recover
    <3>2. Begun(w, op, "recovery", "settle")
      BY <1>0, <3>1, BegunRow
    <3> QED BY <1>0, <2>1, <2>2, <3>2
  <2>3. CASE ~(entry.phase = "none" \/ entry.state \in {"active", "restored", "conflict"})
    <3>1. frame' = [frame EXCEPT ![w] = [Idle EXCEPT !.op = op, !.via = "recovery", !.pc = "look"]]
      BY <1>4, <2>3 DEF Recover
    <3>2. Begun(w, op, "recovery", "look")
      BY <1>0, <3>1, BegunRow
    <3> QED BY <1>0, <2>1, <3>2
  <2> QED BY <2>2, <2>3
<1> QED BY <1>1, <1>2, <1>3, <1>4 DEF Begins, RecoverSome

TakingUp(w) ==
    LET next == frame'[w]
        op == frame[w].op
    IN /\ UNCHANGED <<owner, entry, item, place, slot, faults, tampers>> /\ Alone(w)
       /\ At(w, "look")
       /\ next.op = op /\ next.via = frame[w].via
       /\ next.gen = entry.gen /\ next.src = Authority(op) /\ next.copy = Recorded(op)
       /\ \/ next.pc = "clearing" /\ entry.phase \in Interrupted(op)
          \/ next.pc = "resume" /\ entry.phase = Verified(op)
          \/ next.pc = "verify" /\ entry.phase \in {Published(op), Authorized(op)}
          \/ next.pc = "raised"

LEMMA TakesUpStep ==
    ASSUME TypeOK, NEW w \in Worker, TakesUp(w)
    PROVE  TakingUp(w)
<1> USE PcNames DEF TypeOK, db, disk, env, At, Doing
<1>1. PICK op \in Op : LookAt(w, op)
  BY DEF TakesUp, LookAtQuarantine, LookAtRestore, Op
<1> DEFINE Leads(pc) ==
      \/ pc = "clearing" /\ entry.phase \in Interrupted(op)
      \/ pc = "resume" /\ entry.phase = Verified(op)
      \/ pc = "verify" /\ entry.phase \in {Published(op), Authorized(op)}
      \/ pc = "raised"
<1>2. PICK pc \in {"clearing", "resume", "verify", "raised"} :
         /\ Leads(pc)
         /\ frame' = [frame EXCEPT ![w].pc = pc, ![w].body = "reconcile", ![w].gen = entry.gen,
                                 ![w].src = Authority(op), ![w].copy = Recorded(op)]
  <2>1. Interrupted(op) = {Copying(op)} \cup (IF op = "quarantine" THEN {"preparing"} ELSE {})
    BY DEF Interrupted
  <2>0. /\ Interrupted(op) \cap {Verified(op), Published(op), Authorized(op)} = {}
        /\ Verified(op) \notin {Published(op), Authorized(op)}
    BY <2>1, PhaseNames DEF Op
  <2> DEFINE Goes(pc) == frame' = [frame EXCEPT ![w].pc = pc, ![w].body = "reconcile", ![w].gen = entry.gen,
                                            ![w].src = Authority(op), ![w].copy = Recorded(op)]
  <2>2. CASE entry.phase \in Interrupted(op)
    <3>1. Goes("clearing")
      BY <1>1, <2>0, <2>1, <2>2 DEF LookAt
    <3> QED BY <2>2, <3>1
  <2>3. CASE entry.phase \notin Interrupted(op) /\ entry.phase = Verified(op)
    <3>1. Goes("resume")
      BY <1>1, <2>0, <2>1, <2>3 DEF LookAt
    <3> QED BY <2>3, <3>1
  <2>4. CASE /\ entry.phase \notin Interrupted(op) /\ entry.phase /= Verified(op)
             /\ entry.phase \in {Published(op), Authorized(op)}
    <3>1. Goes("verify")
      BY <1>1, <2>1, <2>4 DEF LookAt
    <3> QED BY <2>4, <3>1
  <2>5. CASE entry.phase \notin Interrupted(op) \cup {Verified(op), Published(op), Authorized(op)}
    <3>1. Goes("raised")
      BY <1>1, <2>1, <2>5 DEF LookAt
    <3> QED BY <2>5, <3>1
  <2> QED BY <2>2, <2>3, <2>4, <2>5
<1> DEFINE row == [frame[w] EXCEPT !.pc = pc, !.body = "reconcile", !.gen = entry.gen,
                                   !.src = Authority(op), !.copy = Recorded(op)]
<1>3. /\ Authority(op) \in {Original} \cup 0..MaxGen /\ Recorded(op) \in 0..MaxGen /\ entry.gen \in 0..MaxGen
      /\ frame[w] \in FrameType /\ frame[w].op = op
  BY <1>1, FrameFields DEF Authority, Recorded, LookAt
<1>4. /\ row \in FrameType /\ row.pc = pc /\ row.op = frame[w].op /\ row.via = frame[w].via
      /\ row.gen = entry.gen /\ row.src = Authority(op) /\ row.copy = Recorded(op)
  BY <1>3, ZenonT(40) DEF FrameType
<1>5. frame' = [frame EXCEPT ![w] = row]
  BY <1>2
<1> HIDE DEF row
<1>6. Alone(w) /\ frame'[w] = row
  BY <1>4, <1>5, RowStep
<1> QED BY <1>1, <1>2, <1>3, <1>4, <1>6 DEF LookAt, TakingUp

Taking(w) ==
    /\ UNCHANGED <<entry, item, place, slot, frame, tampers>> /\ At(w, "idle") /\ owner' = w /\ faults' \in 0..MaxFaults

Tampering(p, c) ==
    /\ UNCHANGED <<owner, entry, item, slot, frame, faults>> /\ ~ReliedOn(p)
    /\ place' = [place EXCEPT ![p] = c] /\ tampers' = tampers + 1 /\ tampers' \in 0..MaxTampers

\* Every step is one of these.
LEMMA Steps ==
    ASSUME TypeOK, Numbers, [Next]_vars
    PROVE  \/ \E w \in Worker :
                \/ Looked(w) \/ Staging(w) \/ Moving(w) \/ Opening(w) \/ Noting(w) \/ Finalizing(w)
                \/ Ending(w) \/ Leaving(w) \/ Beginning(w) \/ TakingUp(w) \/ Taking(w)
           \/ \E p \in Place, c \in {None, Alien} : Tampering(p, c)
           \/ UNCHANGED vars
<1>1. ASSUME NEW w \in Worker, TakeOver(w) PROVE Taking(w)
  BY <1>1, CrossStorageAssumption DEF TakeOver, Taking, disk, TypeOK
<1>2. ASSUME NEW p \in Place, NEW c \in {None, Alien}, Tamper(p, c) PROVE Tampering(p, c)
  BY <1>2, CrossStorageAssumption DEF Tamper, Tampering, db, TypeOK
<1> QED BY <1>1, <1>2, WorkerSteps, LooksStep, StagesStep, MovesStep, OpensStep, NotesStep, EndsStep, LeavesStep,
           BeginsStep, TakesUpStep DEF Next

-----------------------------------------------------------------------------
(* The values of the fields.                                               *)

Fields ==
    /\ entry.gen \in 0..MaxGen /\ entry.qid \in 0..MaxGen /\ entry.rid \in 0..MaxGen
    /\ entry.state \in EntryState /\ entry.phase \in Phase
    /\ \A op \in {"quarantine", "restore"} : item[op] \in {"planned", "executing", "completed", "failed"}
    /\ \A p \in {"home", "public"} : place[p] \in Content
    /\ \A w \in Worker : /\ frame[w].op \in {"quarantine", "restore"} /\ frame[w].gen \in 0..MaxGen
                         /\ frame[w].copy \in 0..MaxGen

LEMMA TypedFields ==
    ASSUME TypeOK
    PROVE  Fields
<1>1. \A w \in Worker : /\ frame[w].op \in {"quarantine", "restore"} /\ frame[w].gen \in 0..MaxGen
                         /\ frame[w].copy \in 0..MaxGen
  BY FrameFields DEF TypeOK, Op
<1>2. /\ entry.gen \in 0..MaxGen /\ entry.qid \in 0..MaxGen /\ entry.rid \in 0..MaxGen
      /\ entry.state \in EntryState /\ entry.phase \in Phase
  BY DEF TypeOK
<1>3. /\ \A op \in {"quarantine", "restore"} : item[op] \in {"planned", "executing", "completed", "failed"}
      /\ \A p \in {"home", "public"} : place[p] \in Content
  BY DEF TypeOK, ItemState, Op, Place
<1> QED BY <1>1, <1>2, <1>3 DEF Fields

(* What a step does to the staging files, and so to what is said of them.  *)

LEMMA SlotChange ==
    ASSUME TypeOK, NEW g, NEW s, slot' = [slot EXCEPT ![g] = s]
    PROVE  \A h \in Gen : slot'[h] = IF h = g THEN s ELSE slot[h]
BY DEF TypeOK

\* What a step of w may do to the staging files.
Slots(w) ==
    /\ \A h \in Gen : \/ slot'[h] = slot[h] \/ slot'[h] = "none"
                      \/ slot'[h] = "full" /\ slot[h] /= "none"
                      \/ At(w, "copy") /\ h = frame[w].gen
    /\ frame'[w].pc = "record" => slot'[frame[w].gen] = "full"
    /\ frame'[w].pc = "note" => slot'[frame[w].copy] = "none"

LEMMA StagingSlots ==
    ASSUME TypeOK, Numbers, NEW w \in Worker, Staging(w)
    PROVE  /\ UNCHANGED <<owner, entry, item, place, faults, tampers>> /\ Kept(w) /\ ~At(w, "idle")
           /\ frame'[w].pc \in {"raised", "conflict", "copying", "record", "note", "reset", "fence"}
           /\ Slots(w)
<1>1. /\ UNCHANGED <<owner, entry, item, place, faults, tampers>> /\ Kept(w) /\ ~At(w, "idle")
      /\ frame'[w].pc \in {"raised", "conflict", "copying", "record", "note", "reset", "fence"}
  BY DEF Staging
<1>2. CASE UNCHANGED slot /\ frame'[w].pc \in {"raised", "conflict", "fence"}
  BY <1>1, <1>2 DEF Slots
<1>3. CASE At(w, "copy") /\ frame'[w].pc = "copying" /\ slot' = [slot EXCEPT ![frame[w].gen] = "part"]
  BY <1>1, <1>3, SlotChange DEF Slots
<1>4. CASE /\ At(w, "copying") /\ frame'[w].pc = "record" /\ slot[frame[w].gen] /= "none"
           /\ slot' = [slot EXCEPT ![frame[w].gen] = "full"]
  <2>1. frame[w].gen \in Gen
    BY <1>4 DEF Numbers, At
  <2>2. \A h \in Gen : slot'[h] = IF h = frame[w].gen THEN "full" ELSE slot[h]
    BY <1>4 DEF TypeOK
  <2> QED BY <1>1, <1>4, <2>1, <2>2 DEF Slots
<1>5. CASE frame[w].copy \in Gen /\ frame'[w].pc = "note" /\ slot' = [slot EXCEPT ![frame[w].copy] = "none"]
  <2>1. \A h \in Gen : slot'[h] = IF h = frame[w].copy THEN "none" ELSE slot[h]
    BY <1>5 DEF TypeOK
  <2> QED BY <1>1, <1>5, <2>1 DEF Slots
<1>6. CASE frame'[w].pc = "reset" /\ slot' = [slot EXCEPT ![frame[w].gen] = "none"]
  BY <1>1, <1>6, SlotChange DEF Slots
<1>7. At(w, "unalias") => frame[w].copy \in Gen
  BY DEF Numbers, At
<1> QED BY <1>1, <1>2, <1>3, <1>4, <1>5, <1>6, <1>7 DEF Staging

LEMMA MovingSlots ==
    ASSUME TypeOK, NEW w \in Worker, Moving(w)
    PROVE  /\ UNCHANGED <<owner, entry, item, faults, tampers>> /\ Kept(w)
           /\ frame'[w].pc \in {"note", "unalias", "raised", "visible", "finalize"}
           /\ Slots(w) /\ ~At(w, "copy")
<1>1. /\ UNCHANGED <<owner, entry, item, faults, tampers>> /\ Kept(w) /\ ~At(w, "copy")
      /\ frame'[w].pc \in {"note", "unalias", "raised", "visible", "finalize"}
  BY DEF Moving, At
<1>2. CASE UNCHANGED slot /\ frame'[w].pc /= "note"
  BY <1>1, <1>2 DEF Slots
<1>3. CASE frame[w].copy \in Gen /\ frame'[w].pc = "note" /\ slot' = [slot EXCEPT ![frame[w].copy] = "none"]
  <2>1. \A h \in Gen : slot'[h] = IF h = frame[w].copy THEN "none" ELSE slot[h]
    BY <1>3 DEF TypeOK
  <2> QED BY <1>1, <1>3, <2>1 DEF Slots
<1> QED BY <1>1, <1>2, <1>3 DEF Moving

LEMMA SlotsWhole ==
    ASSUME TypeOK, Numbers, Whole, NEW w \in Worker, Slots(w), UNCHANGED entry, Kept(w)
    PROVE  Whole'
<1> USE CrossStorageAssumption DEF At, Gen
<1>0. Fields
  BY TypedFields
<1>1. \A g \in {entry.qid, entry.rid} \cap Gen : slot'[g] /= "part"
  BY <1>0 DEF Fields, Whole, Numbers, Slots
<1>2. ASSUME NEW v \in Worker PROVE frame'[v].copy \in Gen => slot'[frame'[v].copy] /= "part"
  BY <1>0, <1>2 DEF Fields, Whole, Numbers, Slots, Kept, Alone
<1>3. ASSUME NEW v \in Worker PROVE frame'[v].pc = "record" => slot'[frame'[v].gen] /= "part"
  BY <1>0, <1>3 DEF Fields, Whole, Numbers, Slots, Kept, Alone
<1> QED BY <1>1, <1>2, <1>3 DEF Whole

LEMMA SlotsSpent ==
    ASSUME TypeOK, Numbers, Spent, NEW w \in Worker, Slots(w), UNCHANGED entry, Kept(w)
    PROVE  Spent'
<1> USE CrossStorageAssumption DEF At, Gen
<1>0. Fields
  BY TypedFields
<1>1. ASSUME NEW v \in Worker PROVE frame'[v].pc = "note" => slot'[frame'[v].copy] = "none"
  BY <1>0, <1>1 DEF Fields, Spent, Numbers, Slots, Kept, Alone
<1>2. entry.phase \in Past => entry.qid \in Gen /\ slot'[entry.qid] = "none"
  BY <1>0 DEF Fields, Spent, Numbers, Slots
<1>3. entry'.phase = entry.phase /\ entry'.qid = entry.qid
  OBVIOUS
<1> QED BY <1>1, <1>2, <1>3 DEF Spent, Past, Published, Authorized, Copying, Verified

LEMMA OpeningSpent ==
    ASSUME TypeOK, Numbers, Own, Spent, NEW w \in Worker, Opening(w)
    PROVE  Spent'
<1> USE PhaseNames, CrossStorageAssumption DEF At, Doing, Past, Gen
<1>0. Fields
  BY TypedFields
<1>1. \A v \in Worker : frame'[v].pc = "note" => slot'[frame'[v].copy] = "none"
  BY DEF Spent, Opening, Alone
<1>2. entry'.phase \in Past => entry.phase \in Past /\ entry'.qid = entry.qid
  BY <1>0 DEF Fields, Own, Holding, Opening, SameAttempt
<1>3. UNCHANGED slot
  BY DEF Opening
<1> QED BY <1>1, <1>2, <1>3 DEF Spent

LEMMA LeavingSpent ==
    ASSUME Spent, NEW w \in Worker, Leaving(w)
    PROVE  Spent'
<1>1. \A v \in Worker : frame'[v].pc = "note" => frame[v].pc = "note" /\ frame'[v] = frame[v]
  BY DEF Leaving, Alone, Idle
<1> QED BY <1>1 DEF Spent, Leaving, At, Past, Published, Authorized, Copying, Verified

LEMMA MovingBacked ==
    ASSUME TypeOK, Numbers, Sources, Backed, NEW w \in Worker, Moving(w)
    PROVE  Backed'
<1> USE CrossStorageAssumption DEF At, Doing, Backed, Gen, Moving, Kept, Alone, Doubled
<1>0. Fields
  BY TypedFields
<1>1. CASE UNCHANGED place
  BY <1>0, <1>1 DEF Fields
<1>2. CASE /\ At(w, "publish") /\ place[To(frame[w].op)] = None /\ frame[w].copy \in Gen
           /\ place' = [place EXCEPT ![To(frame[w].op)] = frame[w].copy]
  BY <1>0, <1>2 DEF Fields, TypeOK, Place, To
<1>3. CASE place["home"] = frame[w].src /\ Doing(w, "quarantine") /\ place' = [place EXCEPT !["home"] = None]
  BY <1>0, <1>3, SMTT(30) DEF Fields, Sources, TypeOK, Place
<1>4. CASE At(w, "retire") /\ Doing(w, "restore") /\ place' = [place EXCEPT !["public"] = None]
  <2>1. place["home"] /= Original
    BY <1>4
  <2> QED BY <1>0, <1>4, <2>1 DEF Fields, TypeOK, Place
<1> QED BY <1>1, <1>2, <1>3, <1>4

LEMMA StagingUntouched ==
    ASSUME TypeOK, Numbers, Untouched, NEW w \in Worker, Staging(w)
    PROVE  Untouched'
<1>1. /\ UNCHANGED <<owner, entry, item, place, faults, tampers>> /\ Kept(w)
      /\ frame'[w].pc \notin {"visible", "finalize"} \cup Doubled
  BY StagingSlots DEF Doubled
<1>2. \A v \in Worker : frame'[v].pc \in {"visible", "finalize"} \cup Doubled => frame'[v] = frame[v]
  BY <1>1 DEF Kept, Alone
<1> QED BY <1>1, <1>2 DEF Untouched, At, Holding, Doing

LEMMA LeavingGone ==
    ASSUME Gone, NEW w \in Worker, Leaving(w)
    PROVE  Gone'
<1>1. \A v \in Worker : frame'[v].pc \in {"visible", "finalize"} => frame'[v] = frame[v]
  BY DEF Leaving, Alone, Idle
<1> QED BY <1>1 DEF Gone, Leaving, Doing

LEMMA NotingSpent ==
    ASSUME TypeOK, Numbers, Own, Spent, NEW w \in Worker, Noting(w)
    PROVE  Spent'
<1> USE PhaseNames DEF At, Doing, Holding
<1>0. Fields
  BY TypedFields
<1>1. UNCHANGED slot /\ SameAttempt /\ \A v \in Worker : frame'[v].pc = "note" => frame'[v] = frame[v]
  BY DEF Noting, Kept, Alone
<1>2. CASE At(w, "note")
  <2>1. frame[w].copy \in Gen /\ slot[frame[w].copy] = "none" /\ frame[w].copy = Recorded(frame[w].op)
        /\ entry.phase = Verified(frame[w].op)
    BY <1>2 DEF Numbers, Spent, Own, Noting
  <2>2. entry.qid \in Gen /\ slot[entry.qid] = "none"
    BY <1>0, <2>1 DEF Fields, Recorded, Spent, Past
  <2> QED BY <1>1, <2>2 DEF Spent, SameAttempt
<1>3. CASE ~At(w, "note")
  <2>1. entry'.phase \in Past => entry.phase \in Past
    <3>1. CASE At(w, "authorize")
      BY <1>0, <3>1 DEF Fields, Past, Noting, Own, Doubled
    <3>2. CASE At(w, "reset")
      BY <1>0, <3>2 DEF Fields, Past, Noting, Own, Interrupted
    <3>3. CASE frame[w].pc \in {"collided", "conflict"}
      BY <3>3 DEF Past, Noting
    <3> QED BY <1>3, <3>1, <3>2, <3>3 DEF Noting
  <2> QED BY <1>1, <2>1 DEF Spent, SameAttempt
<1> QED BY <1>2, <1>3

LEMMA MovingUntouched ==
    ASSUME TypeOK, Sources, Backed, Rows, Own, Untouched, NEW w \in Worker, Moving(w)
    PROVE  Untouched'
<1> USE CrossStorageAssumption DEF At, Doing, Holding
<1>0. Fields
  BY TypedFields
<1>1. UNCHANGED <<owner, entry, item, tampers>> /\ Kept(w)
  BY DEF Moving
<1>2. ASSUME tampers = 0, item["quarantine"] /= "completed"
      PROVE  place'["home"] \in {Original, None}
  BY <1>0, <1>2 DEF Fields, Moving, Rows, Untouched, TypeOK, Place, To
<1>3. ASSUME tampers = 0, NEW v \in Worker, Holding(v), Doing(v, "quarantine"),
             frame'[v].pc \in {"visible", "finalize"} \cup Doubled
      PROVE  place'["public"] = entry.qid
  <2>1. frame[v].pc \in {"visible", "finalize"} \cup Doubled
    BY <1>1, <1>3, <1>0 DEF Fields, Moving, Kept, Alone, Doubled
  <2>2. place["public"] = entry.qid /\ entry.qid \in Nat /\ item["quarantine"] /= "completed"
    BY <1>0, <1>3, <2>1 DEF Fields, Untouched, Rows, Doubled
  <2> QED BY <1>0, <2>2 DEF Fields, Moving, Rows, TypeOK, Place, To
<1>4. ASSUME tampers = 0, NEW v \in Worker, Holding(v), Doing(v, "restore"), frame'[v].pc = "finalize"
      PROVE  place'["home"] = entry.rid
  <2>1. place["home"] = entry.rid /\ entry.rid \in Nat
    <3>1. CASE v = w
      <4>1. At(w, "retire")
        BY <1>4, <3>1 DEF Moving
      <4> QED BY <1>0, <1>4, <3>1, <4>1 DEF Fields, Backed, Own, Doubled, Recorded
    <3>2. CASE v /= w
      BY <1>0, <1>1, <1>4, <3>2 DEF Fields, Untouched, Kept, Alone
    <3> QED BY <3>1, <3>2
  <2>2. CASE At(w, "publish")
    BY <1>0, <2>1, <2>2 DEF Fields, Moving, TypeOK, Place, To
  <2>3. CASE At(w, "retire")
    BY <1>0, <2>1, <2>3 DEF Fields, Moving, TypeOK, Place, Sources
  <2> QED BY <2>2, <2>3 DEF Moving
<1> QED BY <1>1, <1>2, <1>3, <1>4 DEF Untouched, Kept, Alone

-----------------------------------------------------------------------------
(* Each part of the invariant is kept by every step.                       *)

LEMMA NextTypeOK ==
    ASSUME TypeOK, Numbers, Own, [Next]_vars
    PROVE  TypeOK'
<1> USE CrossStorageAssumption DEF At, Doing, Holding, TypeOK, EntryType, Place, Content, Gen, Op, To
<1>0. Fields
  BY TypedFields
<1>1. ASSUME NEW w \in Worker, Looked(w) PROVE TypeOK'
  BY <1>0, <1>1 DEF Fields, Looked, Kept, Alone
<1>2. ASSUME NEW w \in Worker, Staging(w) PROVE TypeOK'
  BY <1>0, <1>2 DEF Fields, Staging, Kept, Alone
<1>3. ASSUME NEW w \in Worker, Moving(w) PROVE TypeOK'
  BY <1>0, <1>3 DEF Fields, Moving, Kept, Alone
<1>4. ASSUME NEW w \in Worker, Opening(w) PROVE TypeOK'
  BY <1>0, <1>4 DEF Fields, Opening, Alone, SameAttempt, EntryType
<1>5. ASSUME NEW w \in Worker, Noting(w) PROVE TypeOK'
  BY <1>0, <1>5 DEF Fields, Noting, Kept, Alone, SameAttempt, EntryType
<1>6. ASSUME NEW w \in Worker, Finalizing(w) PROVE TypeOK'
  BY <1>0, <1>6 DEF Fields, Finalizing, Kept, Alone, SameAttempt, EntryType, Idle
<1>7. ASSUME NEW w \in Worker, Ending(w) PROVE TypeOK'
  BY <1>0, <1>7 DEF Fields, Ending, Alone, Idle, SameAttempt, EntryType
<1>8. ASSUME NEW w \in Worker, Leaving(w) PROVE TypeOK'
  BY <1>0, <1>8 DEF Fields, Leaving, Alone, Idle
<1>9. ASSUME NEW w \in Worker, Beginning(w) PROVE TypeOK'
  BY <1>0, <1>9 DEF Fields, Beginning, Alone, Begun, SameAttempt, EntryType, FreshEntry
<1>10. ASSUME NEW w \in Worker, TakingUp(w) PROVE TypeOK'
  BY <1>0, <1>10 DEF Fields, TakingUp, Alone
<1>11. ASSUME NEW w \in Worker, Taking(w) PROVE TypeOK'
  BY <1>0, <1>11 DEF Fields, Taking
<1>12. ASSUME NEW p \in Place, NEW c \in {None, Alien}, Tampering(p, c) PROVE TypeOK'
  BY <1>0, <1>12 DEF Tampering, ReliedOn, Fields
<1>13. CASE UNCHANGED vars
  BY <1>13 DEF vars
<1> QED BY <1>1, <1>2, <1>3, <1>4, <1>5, <1>6, <1>7, <1>8, <1>9, <1>10, <1>11, <1>12, <1>13, Steps

LEMMA NextSources ==
    ASSUME TypeOK, Numbers, Sources, [Next]_vars
    PROVE  Sources'
<1> USE CrossStorageAssumption DEF At, Doing, Holding, Sources, Authority, Doubled
<1>0. Fields
  BY TypedFields
<1>1. ASSUME NEW w \in Worker, Looked(w) PROVE Sources'
  BY <1>0, <1>1 DEF Fields, Looked, Kept, Alone
<1>2. ASSUME NEW w \in Worker, Staging(w) PROVE Sources'
  BY <1>0, <1>2 DEF Fields, Staging, Kept, Alone
<1>3. ASSUME NEW w \in Worker, Moving(w) PROVE Sources'
  BY <1>0, <1>3 DEF Fields, Moving, Kept, Alone
<1>4. ASSUME NEW w \in Worker, Opening(w) PROVE Sources'
  BY <1>0, <1>4 DEF Fields, Opening, Alone, SameAttempt, EntryType
<1>5. ASSUME NEW w \in Worker, Noting(w) PROVE Sources'
  BY <1>0, <1>5 DEF Fields, Noting, Kept, Alone, SameAttempt, EntryType
<1>6. ASSUME NEW w \in Worker, Finalizing(w) PROVE Sources'
  BY <1>0, <1>6 DEF Fields, Finalizing, Kept, Alone, SameAttempt, EntryType, Idle
<1>7. ASSUME NEW w \in Worker, Ending(w) PROVE Sources'
  BY <1>0, <1>7 DEF Fields, Ending, Alone, Idle, SameAttempt, EntryType
<1>8. ASSUME NEW w \in Worker, Leaving(w) PROVE Sources'
  BY <1>0, <1>8 DEF Fields, Leaving, Alone, Idle
<1>9. ASSUME NEW w \in Worker, Beginning(w) PROVE Sources'
  BY <1>0, <1>9 DEF Fields, Beginning, Alone, Begun, SameAttempt, EntryType, FreshEntry
<1>10. ASSUME NEW w \in Worker, TakingUp(w) PROVE Sources'
  BY <1>0, <1>10 DEF Fields, TakingUp, Alone
<1>11. ASSUME NEW w \in Worker, Taking(w) PROVE Sources'
  BY <1>0, <1>11 DEF Fields, Taking
<1>12. ASSUME NEW p \in Place, NEW c \in {None, Alien}, Tampering(p, c) PROVE Sources'
  BY <1>0, <1>12 DEF Tampering, ReliedOn, Fields
<1>13. CASE UNCHANGED vars
  BY <1>13 DEF vars
<1> QED BY <1>1, <1>2, <1>3, <1>4, <1>5, <1>6, <1>7, <1>8, <1>9, <1>10, <1>11, <1>12, <1>13, Steps

LEMMA NextBacked ==
    ASSUME TypeOK, Numbers, Sources, Backed, [Next]_vars
    PROVE  Backed'
<1> USE CrossStorageAssumption DEF At, Doing, Holding, Sources, Backed, Doubled, Place, Op, Gen, Content,
           From, To, TypeOK
<1>0. Fields
  BY TypedFields
<1>1. ASSUME NEW w \in Worker, Looked(w) PROVE Backed'
  BY <1>0, <1>1 DEF Fields, Looked, Kept, Alone
<1>2. ASSUME NEW w \in Worker, Staging(w) PROVE Backed'
  BY <1>0, <1>2, SMTT(30) DEF Fields, Staging, Kept, Alone
<1>3. ASSUME NEW w \in Worker, Moving(w) PROVE Backed'
  BY <1>3, MovingBacked
<1>4. ASSUME NEW w \in Worker, Opening(w) PROVE Backed'
  BY <1>0, <1>4 DEF Fields, Opening, Alone, SameAttempt, EntryType
<1>5. ASSUME NEW w \in Worker, Noting(w) PROVE Backed'
  BY <1>0, <1>5, SMTT(30) DEF Fields, Noting, Kept, Alone, SameAttempt, EntryType
<1>6. ASSUME NEW w \in Worker, Finalizing(w) PROVE Backed'
  BY <1>0, <1>6 DEF Fields, Finalizing, Kept, Alone, SameAttempt, EntryType, Idle
<1>7. ASSUME NEW w \in Worker, Ending(w) PROVE Backed'
  BY <1>0, <1>7 DEF Fields, Ending, Alone, Idle, SameAttempt, EntryType
<1>8. ASSUME NEW w \in Worker, Leaving(w) PROVE Backed'
  BY <1>0, <1>8, SMTT(30) DEF Fields, Leaving, Alone, Idle
<1>9. ASSUME NEW w \in Worker, Beginning(w) PROVE Backed'
  BY <1>0, <1>9, SMTT(30) DEF Fields, Beginning, Alone, Begun, SameAttempt, EntryType, FreshEntry
<1>10. ASSUME NEW w \in Worker, TakingUp(w) PROVE Backed'
  BY <1>0, <1>10 DEF Fields, TakingUp, Alone
<1>11. ASSUME NEW w \in Worker, Taking(w) PROVE Backed'
  BY <1>0, <1>11 DEF Fields, Taking
<1>12. ASSUME NEW p \in Place, NEW c \in {None, Alien}, Tampering(p, c) PROVE Backed'
  BY <1>0, <1>12 DEF Tampering, ReliedOn, Fields
<1>13. CASE UNCHANGED vars
  BY <1>13 DEF vars
<1> QED BY <1>1, <1>2, <1>3, <1>4, <1>5, <1>6, <1>7, <1>8, <1>9, <1>10, <1>11, <1>12, <1>13, Steps

LEMMA NextGone ==
    ASSUME TypeOK, Numbers, Sources, Backed, Gone, [Next]_vars
    PROVE  Gone'
<1> USE CrossStorageAssumption DEF At, Doing, Holding, Sources, Backed, Gone, Doubled, TypeOK, Place, Op,
           Gen, Content, From, To
<1>0. Fields
  BY TypedFields
<1>1. ASSUME NEW w \in Worker, Looked(w) PROVE Gone'
  BY <1>0, <1>1 DEF Fields, Looked, Kept, Alone
<1>2. ASSUME NEW w \in Worker, Staging(w) PROVE Gone'
  BY <1>0, <1>2 DEF Fields, Staging, Kept, Alone
<1>3. ASSUME NEW w \in Worker, Moving(w) PROVE Gone'
  BY <1>0, <1>3 DEF Fields, Moving, Kept, Alone
<1>4. ASSUME NEW w \in Worker, Opening(w) PROVE Gone'
  BY <1>0, <1>4 DEF Fields, Opening, Alone, SameAttempt, EntryType
<1>5. ASSUME NEW w \in Worker, Noting(w) PROVE Gone'
  BY <1>0, <1>5 DEF Fields, Noting, Kept, Alone, SameAttempt, EntryType
<1>6. ASSUME NEW w \in Worker, Finalizing(w) PROVE Gone'
  BY <1>0, <1>6 DEF Fields, Finalizing, Kept, Alone, SameAttempt, EntryType, Idle
<1>7. ASSUME NEW w \in Worker, Ending(w) PROVE Gone'
  BY <1>0, <1>7 DEF Fields, Ending, Alone, Idle, SameAttempt, EntryType
<1>8. ASSUME NEW w \in Worker, Leaving(w) PROVE Gone'
  BY <1>8, LeavingGone
<1>9. ASSUME NEW w \in Worker, Beginning(w) PROVE Gone'
  BY <1>0, <1>9 DEF Fields, Beginning, Alone, Begun, SameAttempt, EntryType, FreshEntry
<1>10. ASSUME NEW w \in Worker, TakingUp(w) PROVE Gone'
  BY <1>0, <1>10 DEF Fields, TakingUp, Alone
<1>11. ASSUME NEW w \in Worker, Taking(w) PROVE Gone'
  BY <1>0, <1>11 DEF Fields, Taking
<1>12. ASSUME NEW p \in Place, NEW c \in {None, Alien}, Tampering(p, c) PROVE Gone'
  BY <1>0, <1>12 DEF Tampering, ReliedOn, Fields
<1>13. CASE UNCHANGED vars
  BY <1>13 DEF vars
<1> QED BY <1>1, <1>2, <1>3, <1>4, <1>5, <1>6, <1>7, <1>8, <1>9, <1>10, <1>11, <1>12, <1>13, Steps

LEMMA NextRows ==
    ASSUME TypeOK, Numbers, Rows, Own, Refused, [Next]_vars
    PROVE  Rows'
<1> USE CrossStorageAssumption DEF At, Doing, Holding, Rows, Own, Refused, TypeOK, Op, Interrupted, Doubled
<1>0. Fields
  BY TypedFields
<1>1. ASSUME NEW w \in Worker, Looked(w) PROVE Rows'
  BY <1>0, <1>1, PhaseNames DEF Fields, Looked, Kept, Alone
<1>2. ASSUME NEW w \in Worker, Staging(w) PROVE Rows'
  BY <1>0, <1>2, PhaseNames DEF Fields, Staging, Kept, Alone
<1>3. ASSUME NEW w \in Worker, Moving(w) PROVE Rows'
  BY <1>0, <1>3, PhaseNames DEF Fields, Moving, Kept, Alone
<1>4. ASSUME NEW w \in Worker, Opening(w) PROVE Rows'
  BY <1>0, <1>4, PhaseNames DEF Fields, Opening, Alone, SameAttempt, EntryType
<1>5. ASSUME NEW w \in Worker, Noting(w) PROVE Rows'
  BY <1>0, <1>5, PhaseNames DEF Fields, Noting, Kept, Alone, SameAttempt, EntryType
<1>6. ASSUME NEW w \in Worker, Finalizing(w) PROVE Rows'
  BY <1>0, <1>6, PhaseNames DEF Fields, Finalizing, Kept, Alone, SameAttempt, EntryType, Idle
<1>7. ASSUME NEW w \in Worker, Ending(w) PROVE Rows'
  BY <1>0, <1>7, PhaseNames DEF Fields, Ending, Alone, Idle, SameAttempt, EntryType
<1>8. ASSUME NEW w \in Worker, Leaving(w) PROVE Rows'
  BY <1>0, <1>8, PhaseNames DEF Fields, Leaving, Alone, Idle
<1>9. ASSUME NEW w \in Worker, Beginning(w) PROVE Rows'
  BY <1>0, <1>9, PhaseNames DEF Fields, Beginning, Alone, Begun, SameAttempt, EntryType, FreshEntry
<1>10. ASSUME NEW w \in Worker, TakingUp(w) PROVE Rows'
  BY <1>0, <1>10, PhaseNames DEF Fields, TakingUp, Alone
<1>11. ASSUME NEW w \in Worker, Taking(w) PROVE Rows'
  BY <1>0, <1>11, PhaseNames DEF Fields, Taking
<1>12. ASSUME NEW p \in Place, NEW c \in {None, Alien}, Tampering(p, c) PROVE Rows'
  BY <1>0, <1>12, PhaseNames DEF Tampering, ReliedOn, Fields
<1>13. CASE UNCHANGED vars
  BY <1>13 DEF vars
<1> QED BY <1>1, <1>2, <1>3, <1>4, <1>5, <1>6, <1>7, <1>8, <1>9, <1>10, <1>11, <1>12, <1>13, Steps

LEMMA NextRefused ==
    ASSUME TypeOK, Numbers, Rows, Own, Refused, [Next]_vars
    PROVE  Refused'
<1> USE CrossStorageAssumption DEF At, Doing, Holding, Refused, Own, Interrupted, Doubled
<1>0. Fields
  BY TypedFields
<1>1. ASSUME NEW w \in Worker, Looked(w) PROVE Refused'
  BY <1>0, <1>1, PhaseNames DEF Fields, Looked, Kept, Alone
<1>2. ASSUME NEW w \in Worker, Staging(w) PROVE Refused'
  BY <1>0, <1>2, PhaseNames DEF Fields, Staging, Kept, Alone
<1>3. ASSUME NEW w \in Worker, Moving(w) PROVE Refused'
  BY <1>0, <1>3, PhaseNames DEF Fields, Moving, Kept, Alone
<1>4. ASSUME NEW w \in Worker, Opening(w) PROVE Refused'
  BY <1>0, <1>4, PhaseNames DEF Fields, Opening, Alone, SameAttempt, EntryType
<1>5. ASSUME NEW w \in Worker, Noting(w) PROVE Refused'
  BY <1>0, <1>5, PhaseNames DEF Fields, Noting, Kept, Alone, SameAttempt, EntryType
<1>6. ASSUME NEW w \in Worker, Finalizing(w) PROVE Refused'
  BY <1>0, <1>6, PhaseNames DEF Fields, Finalizing, Kept, Alone, SameAttempt, EntryType, Idle
<1>7. ASSUME NEW w \in Worker, Ending(w) PROVE Refused'
  BY <1>0, <1>7, PhaseNames DEF Fields, Ending, Alone, Idle, SameAttempt, EntryType
<1>8. ASSUME NEW w \in Worker, Leaving(w) PROVE Refused'
  BY <1>0, <1>8, PhaseNames DEF Fields, Leaving, Alone, Idle
<1>9. ASSUME NEW w \in Worker, Beginning(w) PROVE Refused'
  BY <1>0, <1>9, PhaseNames DEF Fields, Beginning, Alone, Begun, SameAttempt, EntryType, FreshEntry
<1>10. ASSUME NEW w \in Worker, TakingUp(w) PROVE Refused'
  BY <1>0, <1>10, PhaseNames DEF Fields, TakingUp, Alone
<1>11. ASSUME NEW w \in Worker, Taking(w) PROVE Refused'
  BY <1>0, <1>11, PhaseNames DEF Fields, Taking
<1>12. ASSUME NEW p \in Place, NEW c \in {None, Alien}, Tampering(p, c) PROVE Refused'
  BY <1>0, <1>12, PhaseNames DEF Tampering, ReliedOn, Fields
<1>13. CASE UNCHANGED vars
  BY <1>13 DEF vars
<1> QED BY <1>1, <1>2, <1>3, <1>4, <1>5, <1>6, <1>7, <1>8, <1>9, <1>10, <1>11, <1>12, <1>13, Steps

LEMMA NextOwn ==
    ASSUME TypeOK, Numbers, Rows, Own, Refused, [Next]_vars
    PROVE  Own'
<1> USE CrossStorageAssumption DEF At, Doing, Holding, Own, Rows, Refused, Interrupted, Recorded, Doubled
<1>0. Fields
  BY TypedFields
<1>1. ASSUME NEW w \in Worker, Looked(w) PROVE Own'
  BY <1>0, <1>1, PhaseNames DEF Fields, Looked, Kept, Alone
<1>2. ASSUME NEW w \in Worker, Staging(w) PROVE Own'
  BY <1>0, <1>2, PhaseNames DEF Fields, Staging, Kept, Alone
<1>3. ASSUME NEW w \in Worker, Moving(w) PROVE Own'
  BY <1>0, <1>3, PhaseNames DEF Fields, Moving, Kept, Alone
<1>4. ASSUME NEW w \in Worker, Opening(w) PROVE Own'
  BY <1>0, <1>4, PhaseNames DEF Fields, Opening, Alone, SameAttempt, EntryType
<1>5. ASSUME NEW w \in Worker, Noting(w) PROVE Own'
  BY <1>0, <1>5, PhaseNames DEF Fields, Noting, Kept, Alone, SameAttempt, EntryType
<1>6. ASSUME NEW w \in Worker, Finalizing(w) PROVE Own'
  BY <1>0, <1>6, PhaseNames DEF Fields, Finalizing, Kept, Alone, SameAttempt, EntryType, Idle
<1>7. ASSUME NEW w \in Worker, Ending(w) PROVE Own'
  BY <1>0, <1>7, PhaseNames DEF Fields, Ending, Alone, Idle, SameAttempt, EntryType
<1>8. ASSUME NEW w \in Worker, Leaving(w) PROVE Own'
  BY <1>0, <1>8, PhaseNames DEF Fields, Leaving, Alone, Idle
<1>9. ASSUME NEW w \in Worker, Beginning(w) PROVE Own'
  BY <1>0, <1>9, PhaseNames DEF Fields, Beginning, Alone, Begun, SameAttempt, EntryType, FreshEntry
<1>10. ASSUME NEW w \in Worker, TakingUp(w) PROVE Own'
  BY <1>0, <1>10, PhaseNames DEF Fields, TakingUp, Alone
<1>11. ASSUME NEW w \in Worker, Taking(w) PROVE Own'
  BY <1>0, <1>11, PhaseNames DEF Fields, Taking
<1>12. ASSUME NEW p \in Place, NEW c \in {None, Alien}, Tampering(p, c) PROVE Own'
  BY <1>0, <1>12, PhaseNames DEF Tampering, ReliedOn, Fields
<1>13. CASE UNCHANGED vars
  BY <1>13 DEF vars
<1> QED BY <1>1, <1>2, <1>3, <1>4, <1>5, <1>6, <1>7, <1>8, <1>9, <1>10, <1>11, <1>12, <1>13, Steps

LEMMA NextNumbers ==
    ASSUME TypeOK, Numbers, Own, Rows, [Next]_vars
    PROVE  Numbers'
<1> USE CrossStorageAssumption DEF At, Doing, Holding, Numbers, Recorded, Gen, Doubled, Rows
<1>0. Fields
  BY TypedFields
<1>1. ASSUME NEW w \in Worker, Looked(w) PROVE Numbers'
  BY <1>0, <1>1 DEF Fields, Looked, Kept, Alone
<1>2. ASSUME NEW w \in Worker, Staging(w) PROVE Numbers'
  BY <1>0, <1>2 DEF Fields, Staging, Kept, Alone
<1>3. ASSUME NEW w \in Worker, Moving(w) PROVE Numbers'
  BY <1>0, <1>3 DEF Fields, Moving, Kept, Alone
<1>4. ASSUME NEW w \in Worker, Opening(w) PROVE Numbers'
  BY <1>0, <1>4 DEF Fields, Opening, Alone, SameAttempt, EntryType
<1>5. ASSUME NEW w \in Worker, Noting(w) PROVE Numbers'
  BY <1>0, <1>5 DEF Fields, Noting, Kept, Alone, SameAttempt, EntryType
<1>6. ASSUME NEW w \in Worker, Finalizing(w) PROVE Numbers'
  BY <1>0, <1>6 DEF Fields, Finalizing, Kept, Alone, SameAttempt, EntryType, Idle
<1>7. ASSUME NEW w \in Worker, Ending(w) PROVE Numbers'
  BY <1>0, <1>7 DEF Fields, Ending, Alone, Idle, SameAttempt, EntryType
<1>8. ASSUME NEW w \in Worker, Leaving(w) PROVE Numbers'
  BY <1>0, <1>8 DEF Fields, Leaving, Alone, Idle
<1>9. ASSUME NEW w \in Worker, Beginning(w) PROVE Numbers'
  BY <1>0, <1>9 DEF Fields, Beginning, Alone, Begun, SameAttempt, EntryType, FreshEntry
<1>10. ASSUME NEW w \in Worker, TakingUp(w) PROVE Numbers'
  BY <1>0, <1>10 DEF Fields, TakingUp, Alone
<1>11. ASSUME NEW w \in Worker, Taking(w) PROVE Numbers'
  BY <1>0, <1>11 DEF Fields, Taking
<1>12. ASSUME NEW p \in Place, NEW c \in {None, Alien}, Tampering(p, c) PROVE Numbers'
  BY <1>0, <1>12 DEF Tampering, ReliedOn, Fields
<1>13. CASE UNCHANGED vars
  BY <1>13 DEF vars
<1> QED BY <1>1, <1>2, <1>3, <1>4, <1>5, <1>6, <1>7, <1>8, <1>9, <1>10, <1>11, <1>12, <1>13, Steps

LEMMA NextWhole ==
    ASSUME TypeOK, Numbers, Own, Whole, [Next]_vars
    PROVE  Whole'
<1> USE CrossStorageAssumption DEF At, Doing, Holding, Whole, Numbers, Recorded, Gen, Doubled, TypeOK
<1>0. Fields
  BY TypedFields
<1>1. ASSUME NEW w \in Worker, Looked(w) PROVE Whole'
  BY <1>0, <1>1 DEF Fields, Looked, Kept, Alone
<1>2. ASSUME NEW w \in Worker, Staging(w) PROVE Whole'
  BY <1>2, StagingSlots, SlotsWhole
<1>3. ASSUME NEW w \in Worker, Moving(w) PROVE Whole'
  BY <1>3, MovingSlots, SlotsWhole
<1>4. ASSUME NEW w \in Worker, Opening(w) PROVE Whole'
  BY <1>0, <1>4 DEF Fields, Opening, Alone, SameAttempt, EntryType
<1>5. ASSUME NEW w \in Worker, Noting(w) PROVE Whole'
  BY <1>0, <1>5 DEF Fields, Noting, Kept, Alone, SameAttempt, EntryType
<1>6. ASSUME NEW w \in Worker, Finalizing(w) PROVE Whole'
  BY <1>0, <1>6 DEF Fields, Finalizing, Kept, Alone, SameAttempt, EntryType, Idle
<1>7. ASSUME NEW w \in Worker, Ending(w) PROVE Whole'
  BY <1>0, <1>7 DEF Fields, Ending, Alone, Idle, SameAttempt, EntryType
<1>8. ASSUME NEW w \in Worker, Leaving(w) PROVE Whole'
  BY <1>0, <1>8 DEF Fields, Leaving, Alone, Idle
<1>9. ASSUME NEW w \in Worker, Beginning(w) PROVE Whole'
  BY <1>0, <1>9 DEF Fields, Beginning, Alone, Begun, SameAttempt, EntryType, FreshEntry
<1>10. ASSUME NEW w \in Worker, TakingUp(w) PROVE Whole'
  BY <1>0, <1>10 DEF Fields, TakingUp, Alone
<1>11. ASSUME NEW w \in Worker, Taking(w) PROVE Whole'
  BY <1>0, <1>11 DEF Fields, Taking
<1>12. ASSUME NEW p \in Place, NEW c \in {None, Alien}, Tampering(p, c) PROVE Whole'
  BY <1>0, <1>12 DEF Tampering, ReliedOn, Fields
<1>13. CASE UNCHANGED vars
  BY <1>13 DEF vars
<1> QED BY <1>1, <1>2, <1>3, <1>4, <1>5, <1>6, <1>7, <1>8, <1>9, <1>10, <1>11, <1>12, <1>13, Steps

LEMMA NextSpent ==
    ASSUME TypeOK, Numbers, Rows, Own, Refused, Spent, [Next]_vars
    PROVE  Spent'
<1> USE CrossStorageAssumption DEF At, Doing, Holding, TypeOK, Spent, Past, Own, Rows, Refused,
           Interrupted, Numbers, Recorded, Doubled, Gen, Content
<1>0. Fields
  BY TypedFields
<1>1. ASSUME NEW w \in Worker, Looked(w) PROVE Spent'
  BY <1>0, <1>1, PhaseNames DEF Fields, Looked, Kept, Alone
<1>2. ASSUME NEW w \in Worker, Staging(w) PROVE Spent'
  BY <1>2, StagingSlots, SlotsSpent
<1>3. ASSUME NEW w \in Worker, Moving(w) PROVE Spent'
  BY <1>3, MovingSlots, SlotsSpent
<1>4. ASSUME NEW w \in Worker, Opening(w) PROVE Spent'
  BY <1>4, OpeningSpent
<1>5. ASSUME NEW w \in Worker, Noting(w) PROVE Spent'
  BY <1>5, NotingSpent
<1>6. ASSUME NEW w \in Worker, Finalizing(w) PROVE Spent'
  BY <1>0, <1>6, PhaseNames DEF Fields, Finalizing, Kept, Alone, SameAttempt, EntryType, Idle
<1>7. ASSUME NEW w \in Worker, Ending(w) PROVE Spent'
  BY <1>0, <1>7, PhaseNames DEF Fields, Ending, Alone, Idle, SameAttempt, EntryType
<1>8. ASSUME NEW w \in Worker, Leaving(w) PROVE Spent'
  BY <1>8, LeavingSpent
<1>9. ASSUME NEW w \in Worker, Beginning(w) PROVE Spent'
  BY <1>0, <1>9, PhaseNames DEF Fields, Beginning, Alone, Begun, SameAttempt, EntryType, FreshEntry
<1>10. ASSUME NEW w \in Worker, TakingUp(w) PROVE Spent'
  BY <1>0, <1>10, PhaseNames DEF Fields, TakingUp, Alone
<1>11. ASSUME NEW w \in Worker, Taking(w) PROVE Spent'
  BY <1>0, <1>11, PhaseNames DEF Fields, Taking
<1>12. ASSUME NEW p \in Place, NEW c \in {None, Alien}, Tampering(p, c) PROVE Spent'
  BY <1>0, <1>12, PhaseNames DEF Tampering, ReliedOn, Fields
<1>13. CASE UNCHANGED vars
  BY <1>13 DEF vars
<1> QED BY <1>1, <1>2, <1>3, <1>4, <1>5, <1>6, <1>7, <1>8, <1>9, <1>10, <1>11, <1>12, <1>13, Steps

LEMMA NextRetired ==
    ASSUME TypeOK, Numbers, Sources, Rows, Own, Spent, Retired, [Next]_vars
    PROVE  Retired'
<1> USE CrossStorageAssumption DEF At, Doing, Holding, Sources, TypeOK, Retired, Spent, Past, Own,
           Recorded, Doubled, Gen, Content, Place, From, To
<1>0. Fields
  BY TypedFields
<1>1. ASSUME NEW w \in Worker, Looked(w) PROVE Retired'
  BY <1>0, <1>1, PhaseNames DEF Fields, Looked, Kept, Alone
<1>2. ASSUME NEW w \in Worker, Staging(w) PROVE Retired'
  BY <1>0, <1>2, PhaseNames DEF Fields, Staging, Kept, Alone
<1>3. ASSUME NEW w \in Worker, Moving(w) PROVE Retired'
  BY <1>0, <1>3, PhaseNames DEF Fields, Moving, Kept, Alone
<1>4. ASSUME NEW w \in Worker, Opening(w) PROVE Retired'
  BY <1>0, <1>4, PhaseNames DEF Fields, Opening, Alone, SameAttempt, EntryType
<1>5. ASSUME NEW w \in Worker, Noting(w) PROVE Retired'
  BY <1>0, <1>5, PhaseNames DEF Fields, Noting, Kept, Alone, SameAttempt, EntryType
<1>6. ASSUME NEW w \in Worker, Finalizing(w) PROVE Retired'
  BY <1>0, <1>6, PhaseNames DEF Fields, Finalizing, Kept, Alone, SameAttempt, EntryType, Idle
<1>7. ASSUME NEW w \in Worker, Ending(w) PROVE Retired'
  BY <1>0, <1>7, PhaseNames DEF Fields, Ending, Alone, Idle, SameAttempt, EntryType
<1>8. ASSUME NEW w \in Worker, Leaving(w) PROVE Retired'
  BY <1>0, <1>8, PhaseNames DEF Fields, Leaving, Alone, Idle
<1>9. ASSUME NEW w \in Worker, Beginning(w) PROVE Retired'
  BY <1>0, <1>9, PhaseNames DEF Fields, Beginning, Alone, Begun, SameAttempt, EntryType, FreshEntry
<1>10. ASSUME NEW w \in Worker, TakingUp(w) PROVE Retired'
  BY <1>0, <1>10, PhaseNames DEF Fields, TakingUp, Alone
<1>11. ASSUME NEW w \in Worker, Taking(w) PROVE Retired'
  BY <1>0, <1>11, PhaseNames DEF Fields, Taking
<1>12. ASSUME NEW p \in Place, NEW c \in {None, Alien}, Tampering(p, c) PROVE Retired'
  BY <1>0, <1>12, PhaseNames DEF Tampering, ReliedOn, Fields
<1>13. CASE UNCHANGED vars
  BY <1>13 DEF vars
<1> QED BY <1>1, <1>2, <1>3, <1>4, <1>5, <1>6, <1>7, <1>8, <1>9, <1>10, <1>11, <1>12, <1>13, Steps

LEMMA NextUntouched ==
    ASSUME TypeOK, Numbers, Sources, Backed, Rows, Own, Refused, Spent, Untouched, [Next]_vars
    PROVE  Untouched'
<1> USE CrossStorageAssumption DEF At, Doing, Holding, TypeOK, Untouched, Refused, Sources, Backed, Rows,
           Own, Interrupted, Recorded, Doubled, Gen, Content, Place, Op, From, To
<1>0. Fields
  BY TypedFields
<1>1. ASSUME NEW w \in Worker, Looked(w) PROVE Untouched'
  BY <1>0, <1>1 DEF Fields, Looked, Kept, Alone
<1>2. ASSUME NEW w \in Worker, Staging(w) PROVE Untouched'
  BY <1>2, StagingUntouched
<1>3. ASSUME NEW w \in Worker, Moving(w) PROVE Untouched'
  BY <1>3, MovingUntouched
<1>4. ASSUME NEW w \in Worker, Opening(w) PROVE Untouched'
  BY <1>0, <1>4 DEF Fields, Opening, Alone, SameAttempt, EntryType
<1>5. ASSUME NEW w \in Worker, Noting(w) PROVE Untouched'
  BY <1>0, <1>5 DEF Fields, Noting, Kept, Alone, SameAttempt, EntryType
<1>6. ASSUME NEW w \in Worker, Finalizing(w) PROVE Untouched'
  BY <1>0, <1>6 DEF Fields, Finalizing, Kept, Alone, SameAttempt, EntryType, Idle
<1>7. ASSUME NEW w \in Worker, Ending(w) PROVE Untouched'
  BY <1>0, <1>7 DEF Fields, Ending, Alone, Idle, SameAttempt, EntryType
<1>8. ASSUME NEW w \in Worker, Leaving(w) PROVE Untouched'
  BY <1>0, <1>8 DEF Fields, Leaving, Alone, Idle
<1>9. ASSUME NEW w \in Worker, Beginning(w) PROVE Untouched'
  BY <1>0, <1>9 DEF Fields, Beginning, Alone, Begun, SameAttempt, EntryType, FreshEntry
<1>10. ASSUME NEW w \in Worker, TakingUp(w) PROVE Untouched'
  BY <1>0, <1>10 DEF Fields, TakingUp, Alone
<1>11. ASSUME NEW w \in Worker, Taking(w) PROVE Untouched'
  BY <1>0, <1>11 DEF Fields, Taking
<1>12. ASSUME NEW p \in Place, NEW c \in {None, Alien}, Tampering(p, c) PROVE Untouched'
  BY <1>0, <1>12 DEF Tampering, ReliedOn, Fields
<1>13. CASE UNCHANGED vars
  BY <1>13 DEF vars
<1> QED BY <1>1, <1>2, <1>3, <1>4, <1>5, <1>6, <1>7, <1>8, <1>9, <1>10, <1>11, <1>12, <1>13, Steps
-----------------------------------------------------------------------------
(* The theorems.                                                           *)

LEMMA InitIInv ==
    ASSUME Init
    PROVE  IInv
<1> USE CrossStorageAssumption DEF Init, At, Doing, Holding
<1>1. \A w \in Worker : frame[w] = Idle
  OBVIOUS
<1>2. TypeOK
  BY IdleRow DEF TypeOK, EntryState, Phase, FreshEntry, Op, ItemState, Place, Content, Gen
<1>3. Sources /\ Backed /\ Gone
  BY <1>1 DEF Sources, Backed, Gone, Doubled, Idle
<1>4. Rows /\ Refused
  BY <1>1 DEF Rows, Refused, Idle, FreshEntry, Op
<1>5. Own
  BY <1>1 DEF Own, Idle, Doubled
<1>6. Numbers /\ Whole
  BY <1>1 DEF Numbers, Whole, Idle, FreshEntry, Gen
<1>7. Spent /\ Retired /\ Untouched
  BY <1>1, PhaseNames DEF Spent, Retired, Untouched, Idle, FreshEntry, Past, Doubled
<1> QED BY <1>2, <1>3, <1>4, <1>5, <1>6, <1>7 DEF IInv

LEMMA StepIInv ==
    ASSUME IInv, [Next]_vars
    PROVE  IInv'
<1>1. TypeOK' /\ Sources' /\ Backed' /\ Gone'
  BY NextTypeOK, NextSources, NextBacked, NextGone DEF IInv
<1>2. Rows' /\ Refused' /\ Own' /\ Numbers'
  BY NextRows, NextRefused, NextOwn, NextNumbers DEF IInv
<1>3. Whole' /\ Spent' /\ Retired' /\ Untouched'
  BY NextWhole, NextSpent, NextRetired, NextUntouched DEF IInv
<1> QED BY <1>1, <1>2, <1>3 DEF IInv

LEMMA CrossStorageInvariant == Spec => []IInv
BY InitIInv, StepIInv, PTL DEF Spec

(* The entry, the files, the staging and every worker's frame keep the     *)
(* values the code gives them.                                             *)
THEOREM CrossStorageTypeCorrect == Spec => []TypeOK
<1>1. IInv => TypeOK
  BY DEF IInv
<1> QED BY <1>1, CrossStorageInvariant, PTL

LEMMA StepMoves ==
    ASSUME IInv, [Next]_vars
    PROVE  [Move!Next]_<<Holders, tampers>>
<1> USE CrossStorageAssumption DEF At, Doing
<1>0. Fields /\ TypeOK /\ Sources /\ Backed /\ Numbers
  BY TypedFields DEF IInv
<1>1. ASSUME NEW w \in Worker, Moving(w)
      PROVE  [Move!Next]_<<Holders, tampers>>
  <2>1. CASE UNCHANGED place
    BY <1>1, <2>1 DEF Moving, Holders
  <2>2. CASE frame[w].copy \in Gen /\ place' = [place EXCEPT ![To(frame[w].op)] = frame[w].copy]
    <3>1. To(frame[w].op) \in Place
      BY DEF To, Place
    <3>2. Holders' = Holders \cup {To(frame[w].op)}
      BY <1>0, <2>2, <3>1 DEF Holders, TypeOK
    <3> QED BY <1>1, <3>1, <3>2 DEF Moving, Move!Next, Move!Publish
  <2>3. CASE /\ At(w, "retire") /\ Doing(w, "quarantine") /\ place["home"] = frame[w].src
             /\ place' = [place EXCEPT !["home"] = None]
    <3>1. place["home"] = Original /\ place["public"] \in Gen
      BY <1>0, <2>3 DEF Sources, Backed, Doubled
    <3>2. "home" \in Holders /\ "public" \in Holders
      BY <3>1 DEF Holders, Place
    <3>3. Holders' = Holders \ {"home"}
      BY <1>0, <2>3 DEF Holders, TypeOK, Place, Gen
    <3> QED BY <1>1, <3>2, <3>3 DEF Moving, Move!Next, Move!Retire, Place
  <2>4. CASE /\ At(w, "retire") /\ Doing(w, "restore") /\ place["public"] = frame[w].src
             /\ place' = [place EXCEPT !["public"] = None]
    <3>1. place["home"] \in Gen
      BY <1>0, <2>4 DEF Backed, Doubled
    <3>2. place["public"] \in {Original} \cup Gen
      <4>1. frame[w].src \in {Original} \cup 0..MaxGen
        BY <1>0, FrameFields DEF TypeOK
      <4> QED BY <1>0, <2>4, <4>1 DEF Fields, Content, Gen
    <3>3. "home" \in Holders /\ "public" \in Holders
      BY <3>1, <3>2 DEF Holders, Place
    <3>4. Holders' = Holders \ {"public"}
      BY <1>0, <2>4 DEF Holders, TypeOK, Place, Gen
    <3> QED BY <1>1, <3>3, <3>4 DEF Moving, Move!Next, Move!Retire, Place
  <2> QED BY <1>1, <2>1, <2>2, <2>3, <2>4 DEF Moving
<1>2. ASSUME NEW p \in Place, NEW c \in {None, Alien}, Tampering(p, c)
      PROVE  [Move!Next]_<<Holders, tampers>>
  <2>1. Holders' = Holders \ {p}
    BY <1>0, <1>2 DEF Tampering, Holders, TypeOK, Gen
  <2> QED BY <1>2, <2>1 DEF Tampering, Move!Next, Move!Touch
<1>3. ASSUME NEW w \in Worker,
             \/ Looked(w) \/ Staging(w) \/ Opening(w) \/ Noting(w) \/ Finalizing(w) \/ Ending(w)
             \/ Leaving(w) \/ Beginning(w) \/ TakingUp(w) \/ Taking(w)
      PROVE  UNCHANGED <<place, tampers>>
  BY <1>3 DEF Looked, Staging, Opening, Noting, Finalizing, Ending, Leaving, Beginning, TakingUp, Taking
<1>4. UNCHANGED <<place, tampers>> => [Move!Next]_<<Holders, tampers>>
  BY DEF Holders
<1>5. UNCHANGED vars => UNCHANGED <<place, tampers>>
  BY DEF vars
<1> QED BY <1>0, <1>1, <1>2, <1>3, <1>4, <1>5, Steps

(* A worker, the owner of the lease or a slow former one, never gives up   *)
(* the payload at one place unless the other has it (_retire_public_       *)
(* quarantine, _verify_and_unlink_source): every step is one of SafeMove.  *)
THEOREM CrossStorageMovesSafely == Spec => KeepsPayload
<1>1. Init => Move!Init
  <2> SUFFICES ASSUME Init PROVE Move!Init
    OBVIOUS
  <2>1. Holders = {"home"}
    BY CrossStorageAssumption DEF Init, Holders, Place, Gen
  <2> QED BY <2>1 DEF Init, Move!Init, Place
<1>2. IInv /\ [Next]_vars => [Move!Next]_<<Holders, tampers>>
  BY StepMoves
<1> QED BY <1>1, <1>2, CrossStorageInvariant, PTL DEF Spec, KeepsPayload, Move!Spec

\* What TruthfulEntry says of a step.
Truthful ==
    /\ entry.state = "preparing" /\ entry'.state = "active" =>
           /\ place["home"] /= Original
           /\ tampers = 0 => place["home"] = None /\ place["public"] = entry.qid
    /\ entry.state /= "restored" /\ entry'.state = "restored" =>
           /\ place["public"] /= entry.qid
           /\ tampers = 0 => place["home"] = entry.rid

LEMMA StepTruthful ==
    ASSUME IInv, [Next]_vars
    PROVE  Truthful \/ UNCHANGED vars
<1> USE DEF At, Doing, Holding, Truthful
<1>0. Fields /\ TypeOK /\ Gone /\ Rows /\ Own /\ Retired /\ Untouched
  BY TypedFields DEF IInv
<1>1. ASSUME NEW w \in Worker,
             Looked(w) \/ Staging(w) \/ Moving(w) \/ Leaving(w) \/ TakingUp(w) \/ Taking(w)
      PROVE  UNCHANGED entry
  BY <1>1 DEF Looked, Staging, Moving, Leaving, TakingUp, Taking
<1>2. ASSUME NEW w \in Worker, Opening(w) \/ Beginning(w)
      PROVE  entry'.state \in {entry.state, "preparing", "restoring"}
  BY <1>2 DEF Opening, Beginning, SameAttempt, FreshEntry
<1>3. ASSUME NEW w \in Worker, Noting(w)
      PROVE  Truthful
  <2>1. CASE At(w, "reset") /\ Doing(w, "restore")
    BY <1>0, <1>3, <2>1 DEF Rows, Noting
  <2>2. CASE ~(At(w, "reset") /\ Doing(w, "restore"))
    BY <1>3, <2>2 DEF Noting
  <2> QED BY <2>1, <2>2
<1>4. ASSUME NEW w \in Worker, Finalizing(w)
      PROVE  Truthful
  <2>1. CASE Doing(w, "quarantine")
    <3>1. place["home"] /= Original /\ item["quarantine"] /= "completed"
      BY <1>0, <1>4, <2>1 DEF Finalizing, Gone, Rows
    <3>2. tampers = 0 => place["home"] = None /\ place["public"] = entry.qid
      BY <1>0, <1>4, <2>1, <3>1 DEF Finalizing, Untouched
    <3> QED BY <1>4, <2>1, <3>1, <3>2 DEF Finalizing
  <2>2. CASE Doing(w, "restore")
    BY <1>0, <1>4, <2>2 DEF Finalizing, Retired, Untouched
  <2> QED BY <1>0, <2>1, <2>2 DEF Fields
<1>5. ASSUME NEW w \in Worker, Ending(w)
      PROVE  Truthful
  BY <1>0, <1>5 DEF Ending, Own
<1>6. ASSUME NEW p \in Place, NEW c \in {None, Alien}, Tampering(p, c)
      PROVE  UNCHANGED entry
  BY <1>6 DEF Tampering
<1>7. UNCHANGED entry \/ entry'.state \in {entry.state, "preparing", "restoring"} => Truthful
  OBVIOUS
<1> HIDE DEF Truthful
<1>8. TypeOK /\ Numbers
  BY DEF IInv
<1>9. ASSUME NEW w \in Worker,
             \/ Looked(w) \/ Staging(w) \/ Moving(w) \/ Opening(w) \/ Noting(w) \/ Finalizing(w)
             \/ Ending(w) \/ Leaving(w) \/ Beginning(w) \/ TakingUp(w) \/ Taking(w)
      PROVE  Truthful
  BY <1>1, <1>2, <1>3, <1>4, <1>5, <1>7, <1>9
<1> QED BY <1>6, <1>7, <1>8, <1>9, Steps

(* An entry becomes active only once the original is gone and, if nobody   *)
(* meddled, the recorded copy is public; restored only once that copy is   *)
(* gone again and the restored one is home (_finalize of both directions). *)
THEOREM CrossStorageTruthful == Spec => TruthfulEntry
<1>1. IInv /\ [Next]_vars => Truthful \/ UNCHANGED vars
  BY StepTruthful
<1>2. Spec => [][Truthful]_vars
  BY <1>1, CrossStorageInvariant, PTL DEF Spec
<1> QED BY <1>2 DEF Truthful, TruthfulEntry

LEMMA StepWhole ==
    ASSUME IInv, [Next]_vars, NEW p \in Place, place'[p] /= place[p], place'[p] \in Gen
    PROVE  slot[place'[p]] = "full"
<1> USE CrossStorageAssumption
<1>0. TypeOK /\ Numbers /\ Whole
  BY DEF IInv
<1>1. ASSUME NEW w \in Worker, Moving(w)
      PROVE  slot[place'[p]] = "full"
  <2>1. place'[p] = frame[w].copy /\ frame[w].copy \in Gen /\ slot[frame[w].copy] /= "none"
    BY <1>0, <1>1 DEF Moving, TypeOK, Gen
  <2>2. slot[frame[w].copy] \in {"none", "part", "full"} /\ slot[frame[w].copy] /= "part"
    BY <1>0, <2>1 DEF TypeOK, Whole
  <2> QED BY <2>1, <2>2
<1>2. ASSUME NEW w \in Worker,
             \/ Looked(w) \/ Staging(w) \/ Opening(w) \/ Noting(w) \/ Finalizing(w) \/ Ending(w)
             \/ Leaving(w) \/ Beginning(w) \/ TakingUp(w) \/ Taking(w)
      PROVE  UNCHANGED place
  BY <1>2 DEF Looked, Staging, Opening, Noting, Finalizing, Ending, Leaving, Beginning, TakingUp, Taking
<1>3. ASSUME NEW q \in Place, NEW c \in {None, Alien}, Tampering(q, c)
      PROVE  FALSE
  BY <1>0, <1>3 DEF Tampering, TypeOK, Gen
<1>4. UNCHANGED vars => UNCHANGED place
  BY DEF vars
<1> QED BY <1>0, <1>1, <1>2, <1>3, <1>4, Steps

(* What becomes visible at either name is a recorded, whole copy, whoever  *)
(* renames it there (_publish_verified_staging_noreplace).                 *)
THEOREM CrossStoragePublishesWhole == Spec => OnlyWholeCopies
<1>1. IInv /\ [Next]_vars => (\A p \in Place : place'[p] /= place[p] /\ place'[p] \in Gen => slot[place'[p]] = "full")
  BY StepWhole
<1> QED BY <1>1, CrossStorageInvariant, PTL DEF Spec, OnlyWholeCopies

=============================================================================
