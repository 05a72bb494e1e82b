--------------------------- MODULE PermanentDelete ---------------------------
(***************************************************************************)
(* The two journalled deletions: the unlink_v1 purge of a quarantine entry *)
(* (app/quarantine/unlink_purge.py, single_unlink_purge.py) and the delete *)
(* of a media file found corrupt (app/media/corrupt_delete.py).  Both      *)
(* commit an intent for each exact name before they unlink it, take an     *)
(* absent name for deleted only with that intent, and record the end once. *)
(*                                                                         *)
(* A plan's item has either executed by a worker that holds the task lock; *)
(* an entry can also be cleared by a thread of the API (a clerk), which    *)
(* holds no lease.  Every transaction is BEGIN IMMEDIATE, hence one step;  *)
(* so is a stat and the unlink through the same directory descriptor.      *)
(***************************************************************************)
EXTENDS Naturals, Sequences, FiniteSets

CONSTANTS
    Worker, Clerk,
    MaxFaults,     \* bound on crashes and takeovers of the lease
    MaxTampers,    \* bound on the changes users make
    Original, Alien, None

ASSUME PermanentDeleteAssumption ==
    /\ Worker /= {} /\ Worker \cap Clerk = {}
    /\ MaxFaults \in Nat /\ MaxTampers \in Nat
    /\ Original /= Alien /\ Original /= None /\ Alien /= None

VARIABLES
    kind,       \* what is deleted: a quarantine entry or a media file
    owner,      \* the owner of the task lock
    entry,      \* state of the quarantine_entries row, with its tx_phase
    item,       \* state of the batch_plan_items row
    evidence,   \* the index row and the verdict "corrupt" on the media file
    file,       \* what each frozen name leads to
    intents, marks, terminals,   \* the operation_journal
    audits,     \* the terminal audit events, of the plan and of the clear
    frame,      \* what each actor is in the middle of
    faults, tampers

vars == <<kind, owner, entry, item, evidence, file, intents, marks, terminals, audits, frame, faults, tampers>>

-----------------------------------------------------------------------------
Actor == Worker \cup Clerk
Role == {"anchor", "captured", "public", "media"}

\* The frozen names in the order they are unlinked.
Owned == IF kind = "entry" THEN <<"anchor", "captured", "public">> ELSE <<"media">>
Names == {Owned[n] : n \in DOMAIN Owned}

LeasePc == {"fence", "m_open", "m_intend", "m_fence", "m_final", "done", "failed"}
FreePc == {"enter", "authorize", "frozen", "lookup", "probe", "intend", "unlink", "mark", "terminal", "audit",
           "m_hash", "m_rehash", "m_unlink"}
Idle == [pc |-> "idle", at |-> 1, seen |-> FALSE]

At(a, pc) == frame[a].pc = pc
Holding(w) == owner = w
RoleOf(a) == Owned[frame[a].at]
Go(a, pc) == frame' = [frame EXCEPT ![a].pc = pc]
Stop(a) == frame' = [frame EXCEPT ![a] = Idle]

\* An exception: the item of a worker fails, the request of a clerk is answered with an error.
Raise(a) == frame' = [frame EXCEPT ![a] = IF a \in Worker THEN [Idle EXCEPT !.pc = "failed"] ELSE Idle]

journal == <<intents, marks, terminals>>
rows == <<entry, item, evidence, audits>>
env == <<kind, owner, faults, tampers>>

Init ==
    /\ kind \in {"entry", "media"}
    /\ owner = CHOOSE w \in Worker : TRUE
    /\ entry = "active" /\ item = "planned" /\ evidence = "current"
    /\ file = [r \in Role |-> IF r \in Names THEN Original ELSE None]
    /\ intents = {} /\ marks = {} /\ terminals = 0
    /\ audits = [plan |-> 0, clear |-> 0]
    /\ frame = [a \in Actor |-> Idle]
    /\ faults = 0 /\ tampers = 0

-----------------------------------------------------------------------------
(* The plan's handler, and the start of a single Clear                     *)

\* Mutant of Execute: only a planned item is executed.
ExecutePlanned(w) ==
    /\ Holding(w) /\ At(w, "idle") /\ item = "planned"
    /\ IF kind = "entry" \/ file["media"] = Original
       THEN item' = "executing" /\ Go(w, IF kind = "entry" THEN "enter" ELSE "m_open")
       ELSE item' = "failed" /\ UNCHANGED frame
    /\ UNCHANGED <<env, entry, evidence, audits, file, journal>>

\* Phase 1, and again for an item of an entry found executing; media items are checked for freshness before.
Execute(w) ==
    /\ Holding(w) /\ At(w, "idle")
    /\ item = "planned" \/ (item = "executing" /\ kind = "entry")
    /\ IF kind = "entry" \/ file["media"] = Original
       THEN item' = "executing" /\ Go(w, IF kind = "entry" THEN "enter" ELSE "m_open")
       ELSE item' = "failed" /\ UNCHANGED frame
    /\ UNCHANGED <<env, entry, evidence, audits, file, journal>>

\* Phase 3 of an item that completed; the media engine has recorded its audit itself.
ItemDone(w) ==
    /\ Holding(w) /\ At(w, "done")
    /\ item' = "completed"
    /\ audits' = IF kind = "entry" THEN [audits EXCEPT !.plan = @ + 1] ELSE audits
    /\ Stop(w)
    /\ UNCHANGED <<env, entry, evidence, file, journal>>

ItemFailed(w) ==
    /\ Holding(w) /\ At(w, "failed")
    /\ item' = "failed" /\ Stop(w)
    /\ UNCHANGED <<env, entry, evidence, audits, file, journal>>

\* Another plan's item takes the entry for a restore, which is not modelled further here.
BeginRestore(w) ==
    /\ Holding(w) /\ At(w, "idle") /\ kind = "entry" /\ entry = "active"
    /\ entry' = "restoring"
    /\ UNCHANGED <<env, item, evidence, audits, file, journal, frame>>

Proven == terminals = 1 /\ intents = Names

(* purge_single_transactional_entry: a clear begins with a manifest built  *)
(* from what is there, or with the proof that the purge is complete.       *)
Clear(c) ==
    /\ At(c, "idle") /\ kind = "entry"
    /\ (entry = "active" /\ \A r \in Names : file[r] = Original) \/ (entry = "purged" /\ Proven)
    /\ Go(c, "enter")
    /\ UNCHANGED <<env, rows, file, journal>>

-----------------------------------------------------------------------------
(* execute_journaled_unlink_purge                                          *)

\* Both manifests list the same frozen names, so a purge in progress may be joined.
Enter(a) ==
    /\ At(a, "enter")
    /\ CASE entry = "active"  -> Go(a, "authorize")
         [] entry = "purging" -> Go(a, "frozen")
         [] entry = "purged"  -> Go(a, IF a \in Worker THEN "done" ELSE "audit")
         [] OTHER             -> Raise(a)
    /\ UNCHANGED <<env, rows, file, journal>>

\* _persist_initial_authority: the transaction that makes the purge irreversible.
Authorize(a) ==
    /\ At(a, "authorize")
    /\ IF entry = "active" /\ \A r \in Names : file[r] = Original
       THEN entry' = "purging" /\ Go(a, "frozen")
       ELSE UNCHANGED entry /\ Raise(a)
    /\ UNCHANGED <<env, item, evidence, audits, file, journal>>

Frozen(a) ==
    /\ At(a, "frozen")
    /\ IF entry = "purging" THEN Go(a, "lookup") ELSE Raise(a)
    /\ UNCHANGED <<env, rows, file, journal>>

Lookup(a) ==
    /\ At(a, "lookup")
    /\ frame' = [frame EXCEPT ![a].seen = RoleOf(a) \in intents, ![a].pc = "probe"]
    /\ UNCHANGED <<env, rows, file, journal>>

NextName(a) ==
    frame' = [frame EXCEPT ![a] = IF frame[a].at < Len(Owned)
                                  THEN [pc |-> "lookup", at |-> frame[a].at + 1, seen |-> FALSE]
                                  ELSE [Idle EXCEPT !.pc = "terminal"]]

\* An absent name counts as deleted only if its intent had been found before the look.
Probe(a) ==
    /\ At(a, "probe")
    /\ CASE file[RoleOf(a)] = None /\ frame[a].seen  -> NextName(a)
         [] file[RoleOf(a)] = Original               -> frame' = [frame EXCEPT ![a].pc = "intend", ![a].seen = FALSE]
         [] OTHER                                    -> Raise(a)
    /\ UNCHANGED <<env, rows, file, journal>>

\* Mutant of Intend: the intent is written when the file is gone.
IntendLater(a) ==
    /\ At(a, "intend")
    /\ Go(a, IF a \in Worker THEN "fence" ELSE "unlink")
    /\ UNCHANGED <<env, rows, file, journal>>

\* _persist_path_intent
Intend(a) ==
    /\ At(a, "intend")
    /\ IF entry = "purging"
       THEN intents' = intents \cup {RoleOf(a)} /\ Go(a, IF a \in Worker THEN "fence" ELSE "unlink")
       ELSE UNCHANGED intents /\ Raise(a)
    /\ UNCHANGED <<env, rows, file, marks, terminals>>

Fence(w) ==
    /\ Holding(w) /\ At(w, "fence") /\ Go(w, "unlink")
    /\ UNCHANGED <<env, rows, file, journal>>

\* _descriptor_unlink_frozen_path: whatever has another identity is left alone.
Unlink(a) ==
    /\ At(a, "unlink")
    /\ CASE file[RoleOf(a)] = Original -> file' = [file EXCEPT ![RoleOf(a)] = None] /\ Go(a, "mark")
         [] file[RoleOf(a)] = None     -> UNCHANGED file /\ NextName(a)
         [] OTHER                      -> UNCHANGED file /\ Raise(a)
    /\ UNCHANGED <<env, rows, journal>>

Mark(a) ==
    /\ At(a, "mark")
    /\ marks' = marks \cup {RoleOf(a)} /\ NextName(a)
    /\ UNCHANGED <<env, rows, file, intents, terminals>>

Absent == \A r \in Names : file[r] = None

\* Mutant of Terminal: the purge is recorded without looking at the entry once more.
TerminalAgain(a) ==
    /\ At(a, "terminal") /\ (a \in Worker => Holding(a))
    /\ IF Absent /\ intents = Names
       THEN entry' = "purged" /\ terminals' = terminals + 1 /\ Go(a, IF a \in Worker THEN "done" ELSE "audit")
       ELSE UNCHANGED <<entry, terminals>> /\ Raise(a)
    /\ UNCHANGED <<env, item, evidence, audits, file, intents, marks>>

(* _commit_terminal_purged: of two that purge the same entry the second    *)
(* finds it purged already, which is an error to it.                       *)
Terminal(a) ==
    /\ At(a, "terminal") /\ (a \in Worker => Holding(a))
    /\ IF entry = "purging" /\ Absent /\ intents = Names
       THEN entry' = "purged" /\ terminals' = terminals + 1 /\ Go(a, IF a \in Worker THEN "done" ELSE "audit")
       ELSE UNCHANGED <<entry, terminals>> /\ Raise(a)
    /\ UNCHANGED <<env, item, evidence, audits, file, intents, marks>>

\* _persist_single_terminal_audit repairs a missing event and adds no second one.
Audit(c) ==
    /\ At(c, "audit")
    /\ audits' = IF entry = "purged" /\ Proven THEN [audits EXCEPT !.clear = 1] ELSE audits
    /\ Stop(c)
    /\ UNCHANGED <<env, entry, item, evidence, file, journal>>

-----------------------------------------------------------------------------
(* execute_corrupt_media_delete                                            *)

Qualified == evidence = "current" /\ file["media"] = Original

\* The transaction that looks for what an earlier attempt has left in the journal.
OpenMedia(w) ==
    /\ Holding(w) /\ At(w, "m_open")
    /\ IF terminals > 0
       THEN item' = "completed" /\ audits' = [audits EXCEPT !.plan = 1] /\ Go(w, "done")
       ELSE /\ Go(w, CASE intents /= {}                -> "m_rehash"
                       [] intents = {} /\ Qualified    -> "m_hash"
                       [] OTHER                        -> "failed")
            /\ UNCHANGED <<item, audits>>
    /\ UNCHANGED <<env, entry, evidence, file, journal>>

Hash(w) ==
    /\ At(w, "m_hash") /\ Go(w, IF file["media"] = Original THEN "m_intend" ELSE "failed")
    /\ UNCHANGED <<env, rows, file, journal>>

IntendMedia(w) ==
    /\ Holding(w) /\ At(w, "m_intend")
    /\ IF terminals = 0 /\ (intents /= {} \/ Qualified)
       THEN intents' = {"media"} /\ Go(w, "m_rehash")
       ELSE UNCHANGED intents /\ Go(w, "failed")
    /\ UNCHANGED <<env, rows, file, marks, terminals>>

Unlinking(w, found) ==
    CASE file["media"] = Original -> found
      [] file["media"] = None     -> "m_final"
      [] OTHER                    -> "failed"

Rehash(w) ==
    /\ At(w, "m_rehash") /\ Go(w, Unlinking(w, "m_fence"))
    /\ UNCHANGED <<env, rows, file, journal>>

FenceMedia(w) ==
    /\ Holding(w) /\ At(w, "m_fence") /\ Go(w, "m_unlink")
    /\ UNCHANGED <<env, rows, file, journal>>

\* Mutant of UnlinkMedia: the name is unlinked whatever it leads to by now.
UnlinkMediaByName(w) ==
    /\ At(w, "m_unlink") /\ Go(w, "m_final")
    /\ file' = [file EXCEPT !["media"] = None]
    /\ UNCHANGED <<env, rows, journal>>

UnlinkMedia(w) ==
    /\ At(w, "m_unlink") /\ Go(w, Unlinking(w, "m_final"))
    /\ file' = IF file["media"] = Original THEN [file EXCEPT !["media"] = None] ELSE file
    /\ UNCHANGED <<env, rows, journal>>

\* _finalize_terminal: the journal, the index row if it still speaks of the file, the audit and the item.
Finalized ==
    /\ terminals' = 1
    /\ evidence' = IF evidence = "current" THEN "gone" ELSE evidence
    /\ audits' = [audits EXCEPT !.plan = 1]
    /\ item' = "completed"

FinalizeMedia(w) ==
    /\ Holding(w) /\ At(w, "m_final") /\ intents /= {}
    /\ Finalized /\ Go(w, "done")
    /\ UNCHANGED <<env, entry, file, intents, marks>>

\* reconcile_corrupt_media_delete, for an item found executing.
ReconcileMedia(w) ==
    /\ Holding(w) /\ At(w, "idle") /\ kind = "media" /\ item = "executing"
    /\ IF terminals > 0 \/ (intents /= {} /\ file["media"] = None)
       THEN Finalized
       ELSE /\ item' = IF file["media"] = Original /\ (intents /= {} \/ evidence = "current") THEN "planned" ELSE "failed"
            /\ UNCHANGED <<evidence, audits, terminals>>
    /\ UNCHANGED <<env, entry, file, intents, marks, frame>>

-----------------------------------------------------------------------------
(* The environment                                                         *)

\* A worker that is not the owner any more stops at its next lease assertion.
Abandon(w) ==
    /\ ~Holding(w) /\ frame[w].pc \in LeasePc \cup {"terminal"} /\ Stop(w)
    /\ UNCHANGED <<env, rows, file, journal>>

Crash(a) ==
    /\ faults < MaxFaults /\ ~At(a, "idle")
    /\ Stop(a) /\ faults' = faults + 1
    /\ UNCHANGED <<kind, owner, tampers, rows, file, journal>>

TakeOver(w) ==
    /\ faults < MaxFaults /\ ~Holding(w) /\ At(w, "idle")
    /\ owner' = w /\ faults' = faults + 1
    /\ UNCHANGED <<kind, tampers, rows, file, journal, frame>>

\* A user removes a file, or puts one of theirs in its place.
Tamper(r, c) ==
    /\ tampers < MaxTampers /\ file[r] /= c
    /\ file' = [file EXCEPT ![r] = c] /\ tampers' = tampers + 1
    /\ UNCHANGED <<kind, owner, faults, rows, journal, frame>>

\* The media file is verified or scanned again, and what was known of it replaced.
Reprobe ==
    /\ kind = "media" /\ evidence = "current" /\ tampers < MaxTampers
    /\ evidence' = "changed" /\ tampers' = tampers + 1
    /\ UNCHANGED <<kind, owner, faults, entry, item, audits, file, journal, frame>>

-----------------------------------------------------------------------------
Purge(a) ==
    \/ Enter(a) \/ Authorize(a) \/ Frozen(a) \/ Lookup(a) \/ Probe(a) \/ Intend(a) \/ Unlink(a) \/ Mark(a) \/ Terminal(a)

DeleteMedia(w) ==
    \/ OpenMedia(w) \/ Hash(w) \/ IntendMedia(w) \/ Rehash(w) \/ FenceMedia(w) \/ UnlinkMedia(w) \/ FinalizeMedia(w)

\* What a worker process does about an item it has or finds executing.
Work(w) ==
    \/ Purge(w) \/ Fence(w) \/ DeleteMedia(w) \/ ReconcileMedia(w) \/ ItemDone(w) \/ ItemFailed(w) \/ Abandon(w)
    \/ (item = "executing" /\ Execute(w))

Next ==
    \/ \E w \in Worker : Work(w) \/ Execute(w) \/ BeginRestore(w) \/ TakeOver(w)
    \/ \E c \in Clerk : Clear(c) \/ Purge(c) \/ Audit(c)
    \/ \E a \in Actor : Crash(a)
    \/ \E r \in Names, c \in {None, Alien} : Tamper(r, c)
    \/ Reprobe

Spec == Init /\ [][Next]_vars

\* A worker process keeps executing what it has begun, and recovery is retried.
FairSpec == Spec /\ \A w \in Worker : WF_vars(Work(w))
-----------------------------------------------------------------------------
(* Properties                                                              *)

\* Every variable has the values the code gives it.
TypeOK ==
    /\ kind \in {"entry", "media"}
    /\ owner \in Worker
    /\ entry \in {"active", "restoring", "purging", "purged"}
    /\ item \in {"planned", "executing", "completed", "failed"}
    /\ evidence \in {"current", "changed", "gone"}
    /\ file \in [Role -> {None, Original, Alien}]
    /\ intents \subseteq Names /\ marks \subseteq Names /\ terminals \in Nat
    /\ audits \in [plan : Nat, clear : Nat]
    /\ frame \in [Actor -> [pc : {"idle"} \cup LeasePc \cup FreePc, at : 1..3, seen : BOOLEAN]]
    /\ faults \in 0..MaxFaults /\ tampers \in 0..MaxTampers

(* No actor, not even a worker that lost its lease, removes a file other   *)
(* than the frozen one, or removes anything of an entry that a restore has *)
(* taken: unlink only ever follows the authority and the intent.           *)
OnlyTheFrozenFile ==
    [][\A r \in Role : file'[r] /= file[r] /\ tampers' = tampers =>
          file[r] = Original /\ r \in intents /\ entry /= "restoring" /\ (kind = "entry" => entry /= "active")]_vars

(* However many actors purge the same thing and are interrupted, one       *)
(* terminal record and one audit event of each kind come of it, and a      *)
(* completed item or a purged entry has its whole journal behind it and    *)
(* none of the frozen names before it.                                     *)
RecordedOnce ==
    /\ terminals <= 1 /\ audits.plan <= 1 /\ audits.clear <= 1
    /\ terminals = 1 => \A r \in Names : file[r] /= Original
    /\ marks \subseteq intents
    /\ entry = "purged" => Proven
    /\ item = "completed" => Proven /\ (kind = "media" => evidence /= "current")
    /\ audits.plan + audits.clear > 0 => Proven

\* An interrupted purge or delete of a plan is taken up again and settled.
DeletionSettles == (item = "executing") ~> (item /= "executing")

Delete == INSTANCE WriteAheadDelete WITH
    names <- Names, present <- {r \in Names : file[r] = Original}, intended <- intents,
    closed <- terminals > 0, touched <- tampers

\* Both engines implement the write-ahead deletion.
WriteAhead == Delete!Spec
=============================================================================
