------------------------- MODULE QuarantineTx_proofs -------------------------
(***************************************************************************)
(* Theorems of QuarantineTx, for any set of workers and any number of      *)
(* attempts, crashes, takeovers and changes by users: no worker takes away *)
(* the last name of a file, and an entry only says what the files and the  *)
(* names a user sees bear out.                                             *)
(***************************************************************************)
EXTENDS QuarantineTx, TLAPS, NaturalsInduction, WellFoundedInduction

(***************************************************************************)
(* The attempts                                                            *)
(***************************************************************************)

\* The steps at which a worker uses the anchor of the entry.
AnchoredPc == {"classify_public", "fence_public", "publish", "note_published", "scan",
               "verify", "scan_views", "destination", "fence_home", "put_home",
               "allocate_view", "fence_view", "view", "check_view"}

\* No attempt is in use before its number was handed out.
Numbered ==
    /\ entry.since <= entry.gen /\ entry.anchor <= entry.gen
    /\ \A w \in Worker : frame[w].gen <= entry.gen /\ frame[w].anchor <= entry.gen
    /\ \A w \in Worker : frame[w].pc \in AnchoredPc => frame[w].anchor \in Gen
    /\ \A g \in Gen, s \in Slot : entry.gen < g => slot[g][s] = None

AnchorPc == {"fence_anchor", "anchor"}
CapturePc == {"capture"}
ViewPc == {"fence_view", "view"}

\* Workers at these steps have different attempts, in which the slot is empty.
Exclusive(pcs, s) ==
    \A w \in Worker : frame[w].pc \in pcs =>
        /\ frame[w].gen \in Gen /\ slot[frame[w].gen][s] = None
        /\ \A v \in Worker : v /= w /\ frame[v].pc \in pcs => frame[v].gen /= frame[w].gen

Slots == Exclusive(AnchorPc, "anchor") /\ Exclusive(CapturePc, "source") /\ Exclusive(ViewPc, "view")

\* Nobody else can be about to capture the source into the attempt.
Unclaimed(w, g) ==
    /\ g \in Attempts /\ slot[g]["source"] = None
    /\ \A v \in Worker : v /= w /\ At(v, "capture") => frame[v].gen /= g

EarlyPhase == {"none", "preparing", "candidate_anchored", "authoritative_anchored"}

\* Before the public name is noted nothing of this entry has been captured.
NotCaptured ==
    entry.phase \in EarlyPhase =>
        \A g \in Gen : entry.since < g =>
            slot[g]["source"] = None /\ \A v \in Worker : At(v, "capture") => frame[v].gen /= g

\* The owner of the lease comes to the capture with an attempt for itself.
ReadyToCapture ==
    \A w \in Worker : Holding(w) =>
        /\ At(w, "fence_capture") => Unclaimed(w, frame[w].gen)
        /\ At(w, "scan") /\ frame[w].seen /= "public_published" => Unclaimed(w, frame[w].anchor)

(***************************************************************************)
(* The entry, and where its owner stands                                   *)
(***************************************************************************)

PhaseOf(pc) ==
    CASE pc = "open" -> {"none"}
      [] pc \in {"allocate", "fence_anchor", "anchor", "note_anchored"} -> {"preparing"}
      [] pc = "qualify" -> {"candidate_anchored"}
      [] pc = "promote" -> {"preparing", "candidate_anchored"}
      [] pc \in {"classify_public", "fence_public", "publish", "note_published"} -> {"authoritative_anchored"}
      [] pc \in {"scan", "allocate_capture", "fence_capture", "capture", "note_captured"} -> {"public_published"}
      [] pc \in {"check_captured", "finalize"} -> {"public_published", "source_captured"}
      [] OTHER -> Phase

\* The steps at which a worker's attempt belongs to the entry.
AttemptPc == {"fence_anchor", "anchor", "note_anchored", "qualify", "promote", "fence_capture", "capture",
              "note_captured", "check_captured", "fence_view", "view", "check_view"}

CapturedSource == \E g \in Attempts : slot[g]["source"] = Original
CapturedView == \E g \in Attempts : slot[g]["view"] = Original

\* The item is executing, the phase fits the step, and the worker speaks of the entry's attempts.
Stands(w) ==
    /\ item[frame[w].op] = "executing"
    /\ Doing(w, "quarantine") => entry.phase \in PhaseOf(frame[w].pc)
    /\ frame[w].pc \in AttemptPc => frame[w].gen \in Attempts
    /\ frame[w].pc \in AnchoredPc => frame[w].anchor = entry.anchor
    /\ ~Recovering(w) /\ frame[w].pc \in {"fence_public", "publish", "note_published"} => frame[w].gen = entry.anchor
    /\ frame[w].pc \in {"look", "classify_public"} => Recovering(w)
    /\ At(w, "promote") => slot[frame[w].gen]["anchor"] = Original
    /\ At(w, "finalize") /\ Doing(w, "quarantine") => CapturedSource

OwnerInPhase == \A w \in Worker : Holding(w) /\ ~At(w, "idle") => Stands(w)

AnchoredPhase == {"authoritative_anchored", "public_published", "source_captured", "active", "restoring", "restored"}

\* From its promotion on the entry has a qualified anchor.
Anchored ==
    /\ entry.phase \in AnchoredPhase => entry.anchor \in Attempts /\ slot[entry.anchor]["anchor"] = Original
    /\ entry.state = "active" => entry.phase = "active"

(***************************************************************************)
(* The restore                                                             *)
(***************************************************************************)

QuarantinePc == {"open", "allocate", "fence_anchor", "anchor", "note_anchored", "qualify", "promote", "fence_public",
                 "publish", "note_published", "fence_capture", "capture", "note_captured", "check_captured",
                 "classify_public", "scan", "allocate_capture", "reallocate"}
RestorePc == {"open_restore", "verify", "scan_views", "destination", "fence_home", "put_home", "allocate_view",
              "fence_view", "view", "check_view"}
BeforeView == RestorePc \ {"check_view"}
NoView == \A g \in Gen : slot[g]["view"] = None

RestoreIsSecond ==
    /\ \A w \in Worker : /\ frame[w].pc \in RestorePc => Doing(w, "restore")
                         /\ frame[w].pc \in QuarantinePc => Doing(w, "quarantine")
    /\ IF item["restore"] = "planned"
       THEN NoView /\ \A w \in Worker : Doing(w, "quarantine")
       ELSE /\ item["quarantine"] = "completed" /\ entry.anchor \in Gen
            /\ entry.phase \in {"restoring", "restored", "conflict"} /\ entry.state = entry.phase

\* The only run of a restore starts without a captured view, and ends with one.
Restores(w) ==
    /\ ~Recovering(w) => \A v \in Worker : v /= w => Doing(v, "quarantine")
    /\ ~Recovering(w) /\ frame[w].pc \in BeforeView => NoView
    /\ Recovering(w) /\ frame[w].pc \in {"destination", "fence_home", "put_home"} => CapturedView
    /\ At(w, "finalize") => CapturedView
    /\ frame[w].pc \in RestorePc \cup {"look", "finalize"} => entry.phase = "restoring"

RestoringOwner == \A w \in Worker : Holding(w) /\ ~At(w, "idle") /\ Doing(w, "restore") => Restores(w)

(***************************************************************************)
(* The names a user sees                                                   *)
(***************************************************************************)

UncapturedHome == IF \E g \in Attempts : slot[g]["source"] /= None THEN None ELSE Original

Visible ==
    Undisturbed =>
        /\ \A p \in Place : place[p] /= Alien
        /\ \A g \in Gen, s \in Slot : slot[g][s] /= Alien
        /\ entry.phase \in EarlyPhase \cup {"public_published", "source_captured"} => place["home"] = UncapturedHome
        /\ entry.phase \in {"public_published", "source_captured"} => place["public"] = Original
        /\ entry.phase = "restoring" /\ (\E g \in Attempts : slot[g]["view"] /= None) => place["public"] = None
        /\ \A w \in Worker : Holding(w) =>
               /\ At(w, "note_published") => place["public"] = Original
               /\ At(w, "finalize") /\ Doing(w, "restore") => place["home"] = Original

IInv ==
    /\ TypeOK /\ Numbered /\ Slots /\ NotCaptured /\ ReadyToCapture /\ OwnerInPhase /\ Anchored
    /\ RestoreIsSecond /\ RestoringOwner /\ Visible

-----------------------------------------------------------------------------
(* Frames and rows.                                                        *)

\* A step of w leaves the frames of the others as they are.
Alone(w) == frame' \in [Worker -> FrameType] /\ \A v \in Worker \ {w} : frame'[v] = frame[v]

\* And of its own only changes where it is.
Moved(w) ==
    /\ Alone(w)
    /\ frame'[w].op = frame[w].op /\ frame'[w].via = frame[w].via /\ frame'[w].gen = frame[w].gen
    /\ frame'[w].anchor = frame[w].anchor /\ frame'[w].seen = frame[w].seen

\* The steps, one by one.
LEMMA PcNames ==
    Pc = {"idle", "open", "open_restore", "allocate", "fence_anchor", "note_anchored", "promote", "fence_public",
          "note_published", "fence_capture", "note_captured", "reallocate", "allocate_capture", "fence_home",
          "allocate_view", "fence_view", "finalize", "done", "failed", "conflict", "settle",
          "anchor", "qualify", "publish", "capture", "check_captured", "look", "classify_public", "scan",
          "verify", "scan_views", "destination", "put_home", "view", "check_view"}
BY DEF Pc, LeasePc, FilePc

\* Replacing a worker's row leaves the others' alone.
LEMMA RowStep ==
    ASSUME frame \in [Worker -> FrameType], NEW w \in Worker, NEW row \in FrameType,
           frame' = [frame EXCEPT ![w] = row]
    PROVE  Alone(w) /\ frame'[w] = row
BY DEF Alone

\* A row is a record of these fields.
LEMMA FrameFields ==
    ASSUME frame \in [Worker -> FrameType], NEW w \in Worker
    PROVE  /\ frame[w] \in FrameType /\ frame[w].pc \in Pc /\ frame[w].op \in Op /\ frame[w].via \in {"plan", "recovery"}
           /\ frame[w].gen \in 0..MaxGen /\ frame[w].anchor \in 0..MaxGen /\ frame[w].seen \in Phase \cup EntryState
<1>1. frame[w] \in FrameType
  OBVIOUS
<1> QED BY <1>1 DEF FrameType

\* Go only moves the worker.
LEMMA GoStep ==
    ASSUME frame \in [Worker -> FrameType], NEW w \in Worker, NEW pc \in Pc, Go(w, pc)
    PROVE  Moved(w) /\ frame'[w].pc = pc
<1> DEFINE row == [frame[w] EXCEPT !.pc = pc]
<1>1. row \in FrameType /\ row.pc = pc /\ row.op = frame[w].op /\ row.via = frame[w].via /\ row.gen = frame[w].gen
      /\ row.anchor = frame[w].anchor /\ row.seen = frame[w].seen
  BY FrameFields DEF FrameType
<1>2. frame' = [frame EXCEPT ![w] = row]
  BY DEF Go
<1> HIDE DEF row
<1>3. Alone(w) /\ frame'[w] = row
  BY <1>1, <1>2, RowStep
<1> QED BY <1>1, <1>3 DEF Moved

\* The idle row is a row.
LEMMA IdleRow == Idle \in FrameType
BY PcNames, QuarantineTxAssumption DEF Idle, FrameType, Op, Phase

\* Stop makes the worker idle.
LEMMA StopStep ==
    ASSUME frame \in [Worker -> FrameType], NEW w \in Worker, Stop(w)
    PROVE  Alone(w) /\ frame'[w] = Idle
BY IdleRow, RowStep DEF Stop

EntryType == [state : EntryState, phase : Phase, gen : 0..MaxGen, since : 0..MaxGen, anchor : 0..MaxGen]

\* Only the state and the phase of the entry change.
SameAttempts == entry'.gen = entry.gen /\ entry'.since = entry.since /\ entry'.anchor = entry.anchor

\* The state and the phase of the entry change together ...
LEMMA EntryFields ==
    ASSUME entry \in EntryType, NEW s \in EntryState, NEW ph \in Phase, entry' = [entry EXCEPT !.state = s, !.phase = ph]
    PROVE  entry' \in EntryType /\ entry'.state = s /\ entry'.phase = ph /\ SameAttempts
BY DEF EntryType, SameAttempts

\* ... or the phase alone.
LEMMA PhaseChange ==
    ASSUME entry \in EntryType, NEW ph \in Phase, entry' = [entry EXCEPT !.phase = ph]
    PROVE  entry' \in EntryType /\ entry'.state = entry.state /\ entry'.phase = ph /\ SameAttempts
BY DEF EntryType, SameAttempts

\* The values of the fields.
Fields ==
    /\ entry \in EntryType
    /\ entry.gen \in 0..MaxGen /\ entry.since \in 0..MaxGen /\ entry.anchor \in 0..MaxGen
    /\ entry.state \in EntryState /\ entry.phase \in Phase
    /\ item["quarantine"] \in ItemState /\ item["restore"] \in ItemState
    /\ place["home"] \in Content /\ place["public"] \in Content
    /\ \A g \in Gen, s \in Slot : slot[g][s] \in Content
    /\ \A w \in Worker : /\ frame[w].pc \in Pc /\ frame[w].op \in Op /\ frame[w].via \in {"plan", "recovery"}
                         /\ frame[w].gen \in 0..MaxGen /\ frame[w].anchor \in 0..MaxGen
                         /\ frame[w].seen \in Phase \cup EntryState

\* The types, field by field.
LEMMA TypedFields ==
    ASSUME TypeOK
    PROVE  Fields
<1>1. \A w \in Worker : /\ frame[w].pc \in Pc /\ frame[w].op \in Op /\ frame[w].via \in {"plan", "recovery"}
                         /\ frame[w].gen \in 0..MaxGen /\ frame[w].anchor \in 0..MaxGen
                         /\ frame[w].seen \in Phase \cup EntryState
  BY FrameFields DEF TypeOK
<1>2. /\ entry \in EntryType /\ entry.gen \in 0..MaxGen /\ entry.since \in 0..MaxGen /\ entry.anchor \in 0..MaxGen
      /\ entry.state \in EntryState /\ entry.phase \in Phase
  BY DEF TypeOK, EntryType
<1>3. /\ item["quarantine"] \in ItemState /\ item["restore"] \in ItemState
      /\ place["home"] \in Content /\ place["public"] \in Content
  BY DEF TypeOK, Op, Place
<1>4. \A g \in Gen, s \in Slot : slot[g][s] \in Content
  BY DEF TypeOK
<1> QED BY <1>1, <1>2, <1>3, <1>4 DEF Fields

-----------------------------------------------------------------------------
(* Steps, by what they write.                                              *)

\* A look, or an assertion of the lease.
Looks(w) ==
    \/ FenceAnchor(w) \/ Qualify(w) \/ FencePublic(w) \/ FenceCapture(w) \/ CheckCaptured(w) \/ VerifyAnchor(w)
    \/ ScanViews(w) \/ Destination(w) \/ FenceHome(w) \/ FenceView(w) \/ CheckView(w) \/ ClassifyPublic(w)
\* A call on the files.
Calls(w) == LinkAnchor(w) \/ LinkPublic(w) \/ CaptureSource(w) \/ LinkHome(w) \/ CaptureView(w)
\* The entry is written under the lease.
Notes(w) ==
    \/ Open(w) \/ NoteAnchored(w) \/ NotePublished(w) \/ NoteCaptured(w) \/ FinalizeActive(w) \/ MarkConflict(w)
    \/ FinalizeRestored(w)
Numbers(w) == Allocate(w) \/ Reallocate(w) \/ AllocateCapture(w) \/ AllocateView(w)
\* The worker takes over what the entry says.
Adopts(w) == LookPreparing(w) \/ LookRestoring(w) \/ ScanSources(w) \/ OpenRestore(w) \/ Promote(w)
Begins(w) == IntendQuarantine(w) \/ IntendRestore(w) \/ Recover(w)
Ends(w) == ItemFailed(w) \/ ItemDone(w) \/ Settle(w)
Leaves(w) == Abandon(w) \/ Crash(w)

\* Every step of a worker is of one of nine kinds.
LEMMA WorkerSteps ==
    ASSUME NEW w \in Worker, Run(w) \/ IntendQuarantine(w) \/ IntendRestore(w) \/ Crash(w) \/ TakeOver(w)
    PROVE  \/ Looks(w) \/ Calls(w) \/ Notes(w) \/ Numbers(w) \/ Adopts(w) \/ Begins(w) \/ Ends(w) \/ Leaves(w)
           \/ TakeOver(w)
BY DEF Run, Quarantine, Restore, Reconcile, Looks, Calls, Notes, Numbers, Adopts, Begins, Ends, Leaves

Looked(w) ==
    LET f == frame[w]
        pc == frame'[w].pc
    IN  /\ UNCHANGED <<owner, entry, item, place, slot, faults, tampers, late>> /\ Moved(w)
        /\ \/ At(w, "fence_anchor") /\ pc = "anchor"
           \/ At(w, "qualify") /\ pc = "promote" /\ slot[f.gen]["anchor"] = Original
           \/ At(w, "fence_public") /\ pc = "publish"
           \/ At(w, "fence_capture") /\ pc = "capture" /\ Holding(w)
           \/ At(w, "check_captured") /\ pc = "finalize" /\ slot[f.gen]["source"] = Original
           \/ At(w, "verify") /\ pc = "scan_views"
           \/ /\ At(w, "scan_views") /\ pc = "destination"
              /\ Filled("view") /= {} /\ slot[First(Filled("view"))]["view"] = Original
           \/ At(w, "scan_views") /\ pc = "destination" /\ ~Recovering(w) /\ Filled("view") = {}
           \/ At(w, "scan_views") /\ pc = "allocate_view" /\ Recovering(w)
           \/ At(w, "destination") /\ pc = "fence_home"
           \/ At(w, "destination") /\ pc = AfterHome(w) /\ place["home"] = Original
           \/ At(w, "fence_home") /\ pc = "put_home"
           \/ At(w, "fence_view") /\ pc = "view"
           \/ At(w, "check_view") /\ pc = "destination" /\ slot[f.gen]["view"] = Original /\ Recovering(w)
           \/ At(w, "check_view") /\ pc = "finalize" /\ slot[f.gen]["view"] = Original /\ ~Recovering(w) /\ place["home"] /= None
           \/ At(w, "check_view") /\ pc = "failed"
           \/ At(w, "classify_public") /\ pc = "fence_public"
           \/ At(w, "classify_public") /\ pc = "note_published" /\ place["public"] = Original
           \/ frame[w].pc \in FilePc /\ pc = "conflict"

\* What a look leads to, and what was seen.
LEMMA LooksStep ==
    ASSUME TypeOK, NEW w \in Worker, Looks(w)
    PROVE  Looked(w)
<1> USE GoStep, PcNames DEF TypeOK, db, disk, env, Looked, At, Doing, FilePc
<1>1. CASE FenceAnchor(w) \/ FencePublic(w) \/ FenceCapture(w) \/ FenceHome(w) \/ FenceView(w)
  BY <1>1 DEF FenceAnchor, FencePublic, FenceCapture, FenceHome, FenceView, Transact
<1>2. CASE Qualify(w) \/ CheckCaptured(w) \/ VerifyAnchor(w)
  BY <1>2 DEF Qualify, CheckCaptured, VerifyAnchor, Decide
<1>3. CASE ScanViews(w)
  BY <1>3 DEF ScanViews, Decide
<1>4. CASE Destination(w)
  BY <1>4 DEF Destination, Decide, AfterHome
<1>5. CASE CheckView(w)
  BY <1>5 DEF CheckView, Decide
<1>6. CASE ClassifyPublic(w)
  BY <1>6 DEF ClassifyPublic, Decide
<1> QED BY <1>1, <1>2, <1>3, <1>4, <1>5, <1>6 DEF Looks

\* One name leads to something else.
SetSlot(g, s, c) ==
    /\ slot' \in [Gen -> [Slot -> Content]]
    /\ \A h \in Gen, t \in Slot : slot'[h][t] = IF h = g /\ t = s THEN c ELSE slot[h][t]
SetPlace(p, c) ==
    /\ place' \in [Place -> Content]
    /\ place'[p] = c /\ \A q \in Place \ {p} : place'[q] = place[q]

\* Writing one private name.
LEMMA SlotStep ==
    ASSUME TypeOK, NEW g \in Gen, NEW s \in Slot, NEW c \in Content, slot' = [slot EXCEPT ![g][s] = c]
    PROVE  SetSlot(g, s, c)
BY DEF TypeOK, SetSlot

\* Writing one public name.
LEMMA PlaceStep ==
    ASSUME TypeOK, NEW p \in Place, NEW c \in Content, place' = [place EXCEPT ![p] = c]
    PROVE  SetPlace(p, c)
BY DEF TypeOK, SetPlace

\* The steps at which a worker's number is that of an attempt.
Filing(w, p, pc, s) ==
    /\ At(w, pc) /\ place[p] /= None /\ SetSlot(frame[w].gen, s, place[p]) /\ SetPlace(p, None)
    /\ frame[w].gen \in Gen

Called(w) ==
    LET f == frame[w]
        pc == frame'[w].pc
    IN  /\ UNCHANGED <<owner, entry, item, faults, tampers>> /\ Moved(w) /\ late' = (late \/ ~Holding(w))
        /\ \/ /\ frame[w].pc \in {"anchor", "publish", "capture", "put_home", "view"}
              /\ pc \in {"failed", "conflict"} /\ UNCHANGED <<place, slot>>
           \/ /\ At(w, "anchor") /\ pc = "note_anchored" /\ f.gen \in Gen /\ place["home"] /= None
              /\ SetSlot(f.gen, "anchor", place["home"]) /\ UNCHANGED place
           \/ /\ At(w, "publish") /\ pc = "note_published" /\ place["public"] = None
              /\ place' = [place EXCEPT !["public"] = slot[f.anchor]["anchor"]] /\ UNCHANGED slot
           \/ /\ At(w, "put_home") /\ pc = AfterHome(w) /\ place["home"] = None
              /\ place' = [place EXCEPT !["home"] = slot[f.anchor]["anchor"]] /\ UNCHANGED slot
           \/ Filing(w, "home", "capture", "source") /\ pc \in {"check_captured", "note_captured"}
              /\ (pc = "check_captured" <=> Recovering(w))
           \/ Filing(w, "public", "view", "view") /\ pc = "check_view"

\* What a call on the files does, or that it fails.
LEMMA CallsStep ==
    ASSUME TypeOK, Slots, NEW w \in Worker, Calls(w)
    PROVE  Called(w)
<1>s. \A g \in Gen, s \in Slot, c \in Content : slot' = [slot EXCEPT ![g][s] = c] => SetSlot(g, s, c)
  BY SlotStep
<1>p. \A p \in Place, c \in Content : place' = [place EXCEPT ![p] = c] => SetPlace(p, c)
  BY PlaceStep
<1> USE GoStep, PcNames DEF TypeOK, db, disk, env, Called, At, Mutate
<1>0. /\ {"home", "public"} \subseteq Place /\ {"anchor", "source", "view"} \subseteq Slot /\ None \in Content
      /\ place["home"] \in Content /\ place["public"] \in Content
      /\ frame[w].pc \in {"anchor", "capture", "view"} => frame[w].gen \in Gen
  BY TypedFields DEF Place, Slot, Content, Fields, Slots, Exclusive, AnchorPc, CapturePc, ViewPc
<1>1. CASE LinkAnchor(w)
  <2>1. CASE place["home"] = None
    BY <1>1, <2>1 DEF LinkAnchor
  <2>2. CASE place["home"] /= None
    <3>1. SetSlot(frame[w].gen, "anchor", place["home"])
      BY <1>0, <1>1, <2>2, SlotStep DEF LinkAnchor
    <3> QED BY <1>0, <1>1, <2>2, <3>1 DEF LinkAnchor
  <2> QED BY <2>1, <2>2
<1>2. CASE LinkPublic(w)
  BY <1>2 DEF LinkPublic
<1>3. CASE LinkHome(w)
  BY <1>3 DEF LinkHome, AfterHome, Error
<1>4. ASSUME NEW p \in Place, NEW s \in {"source", "view"}, NEW next \in {"check_captured", "note_captured", "check_view"},
             NEW pc \in {"capture", "view"}, At(w, pc), Capture(w, p, s, next)
      PROVE  /\ UNCHANGED <<owner, entry, item, faults, tampers>> /\ Moved(w) /\ late' = (late \/ ~Holding(w))
             /\ \/ frame'[w].pc \in {"failed", "conflict"} /\ UNCHANGED <<place, slot>>
                \/ Filing(w, p, pc, s) /\ frame'[w].pc = next
  <2>1. CASE place[p] = None
    BY <1>4, <2>1 DEF Capture, Error
  <2>2. CASE place[p] /= None
    <3>1. place[p] \in Content /\ frame[w].gen \in Gen
      BY <1>0, <1>4
    <3>2. SetSlot(frame[w].gen, s, place[p]) /\ SetPlace(p, None)
      <4>1. slot' = [slot EXCEPT ![frame[w].gen][s] = place[p]] /\ place' = [place EXCEPT ![p] = None]
        BY <1>4, <2>2 DEF Capture
      <4>2. s \in Slot
        BY <1>0
      <4> QED BY <1>0, <1>s, <1>p, <3>1, <4>1, <4>2
    <3> QED BY <1>4, <2>2, <3>1, <3>2 DEF Capture, Filing
  <2> QED BY <2>1, <2>2
<1>5. CASE CaptureSource(w)
  <2>1. \/ Capture(w, "home", "source", "check_captured") /\ Recovering(w)
        \/ Capture(w, "home", "source", "note_captured") /\ ~Recovering(w)
    BY <1>5 DEF CaptureSource
  <2> QED BY <1>0, <1>4, <1>5, <2>1 DEF CaptureSource
<1>6. CASE CaptureView(w)
  BY <1>0, <1>4, <1>6 DEF CaptureView
<1> QED BY <1>1, <1>2, <1>3, <1>5, <1>6 DEF Calls

Noted(w) ==
    LET pc == frame'[w].pc
    IN  /\ UNCHANGED <<owner, item, place, slot, faults, tampers, late>> /\ Moved(w) /\ Holding(w)
        /\ entry' \in EntryType /\ SameAttempts
        /\ \/ At(w, "open") /\ pc = "allocate" /\ entry'.phase = "preparing" /\ entry'.state = entry.state
           \/ At(w, "note_anchored") /\ pc = "qualify" /\ entry'.phase = "candidate_anchored" /\ entry'.state = entry.state
           \/ /\ At(w, "note_published") /\ pc = (IF Recovering(w) THEN "scan" ELSE "fence_capture")
              /\ entry'.phase = "public_published" /\ entry'.state = entry.state
           \/ /\ At(w, "note_captured") /\ pc = "check_captured"
              /\ entry'.phase = "source_captured" /\ entry'.state = entry.state
           \/ /\ At(w, "finalize") /\ pc \in {"settle", "done"} /\ Doing(w, "quarantine")
              /\ entry'.state = "active" /\ entry'.phase = "active"
           \/ /\ At(w, "finalize") /\ pc \in {"settle", "done"} /\ Doing(w, "restore")
              /\ entry'.state = "restored" /\ entry'.phase = "restored"
           \/ At(w, "conflict") /\ pc \in {"settle", "failed"} /\ entry'.state = "conflict" /\ entry'.phase = "conflict"

\* What is written about the entry, and from which step.
LEMMA NotesStep ==
    ASSUME TypeOK, NEW w \in Worker, Notes(w)
    PROVE  Noted(w)
<1> USE GoStep, PcNames DEF TypeOK, disk, env, Noted, At, Doing, Transact
<1>0. /\ entry \in EntryType
      /\ {"active", "restored", "conflict"} \subseteq EntryState
      /\ {"preparing", "candidate_anchored", "public_published", "source_captured", "active", "restored", "conflict"}
            \subseteq Phase
  BY DEF EntryType, EntryState, Phase
<1>1. CASE Open(w)
  BY <1>0, <1>1, PhaseChange DEF Open
<1>2. CASE NoteAnchored(w)
  BY <1>0, <1>2, PhaseChange DEF NoteAnchored
<1>3. CASE NotePublished(w)
  BY <1>0, <1>3, PhaseChange DEF NotePublished
<1>4. CASE NoteCaptured(w)
  BY <1>0, <1>4, PhaseChange DEF NoteCaptured
<1>5. CASE FinalizeActive(w)
  BY <1>0, <1>5, EntryFields DEF FinalizeActive, Finished
<1>6. CASE FinalizeRestored(w)
  BY <1>0, <1>6, EntryFields DEF FinalizeRestored, Finished
<1>7. CASE MarkConflict(w)
  BY <1>0, <1>7, EntryFields DEF MarkConflict
<1> QED BY <1>1, <1>2, <1>3, <1>4, <1>5, <1>6, <1>7 DEF Notes

Numbering(w) ==
    LET next == frame'[w]
        f == frame[w]
    IN  /\ UNCHANGED <<owner, item, place, slot, faults, tampers, late>> /\ Alone(w) /\ Holding(w)
        /\ next.op = f.op /\ next.via = f.via /\ next.anchor = f.anchor /\ next.seen = f.seen
        /\ entry.gen < MaxGen /\ next.gen = entry.gen + 1 /\ entry' \in EntryType
        /\ entry'.gen = entry.gen + 1 /\ entry'.since = entry.since /\ entry'.anchor = entry.anchor
        /\ entry'.state = entry.state /\ entry'.phase = entry.phase
        /\ \/ At(w, "allocate") /\ next.pc = "fence_anchor"
           \/ At(w, "reallocate") /\ next.pc = "settle"
           \/ At(w, "allocate_capture") /\ next.pc = "fence_capture"
           \/ At(w, "allocate_view") /\ next.pc = "fence_view"

\* A new attempt has a number above all others.
LEMMA NumbersStep ==
    ASSUME TypeOK, NEW w \in Worker, Numbers(w)
    PROVE  Numbering(w)
<1>1. PICK pc \in {"allocate", "reallocate", "allocate_capture", "allocate_view"},
           next \in {"fence_anchor", "settle", "fence_capture", "fence_view"} :
        /\ Allocated(w, pc, next)
        /\ \/ pc = "allocate" /\ next = "fence_anchor"
           \/ pc = "reallocate" /\ next = "settle"
           \/ pc = "allocate_capture" /\ next = "fence_capture"
           \/ pc = "allocate_view" /\ next = "fence_view"
  BY DEF Numbers, Allocate, Reallocate, AllocateCapture, AllocateView
<1> DEFINE row == [frame[w] EXCEPT !.pc = next, !.gen = entry.gen + 1]
<1>2. entry.gen + 1 \in 0..MaxGen /\ entry \in EntryType /\ frame[w] \in FrameType /\ next \in Pc
  BY <1>1, PcNames, QuarantineTxAssumption DEF Allocated, TypeOK, EntryType
<1>3. /\ row \in FrameType /\ row.pc = next /\ row.gen = entry.gen + 1 /\ row.op = frame[w].op
      /\ row.via = frame[w].via /\ row.anchor = frame[w].anchor /\ row.seen = frame[w].seen
  BY <1>2 DEF FrameType
<1>4. frame' = [frame EXCEPT ![w] = row]
  BY <1>1 DEF Allocated
<1> HIDE DEF row
<1>5. Alone(w) /\ frame'[w] = row
  BY <1>3, <1>4, RowStep DEF TypeOK
<1>6. entry' = [entry EXCEPT !.gen = entry.gen + 1]
  BY <1>1 DEF Allocated
<1>7. /\ entry' \in EntryType /\ entry'.state = entry.state /\ entry'.phase = entry.phase
      /\ entry'.gen = entry.gen + 1 /\ entry'.since = entry.since /\ entry'.anchor = entry.anchor
  BY <1>2, <1>6 DEF EntryType
<1> QED BY <1>1, <1>3, <1>5, <1>7 DEF Allocated, Numbering, disk, env

\* The candidate of the row that recovery looks at.
Candidate == IF entry.gen > entry.since THEN slot[entry.gen]["anchor"] ELSE None

Adopted(w) ==
    LET next == frame'[w]
        f == frame[w]
        pc == frame'[w].pc
    IN  /\ UNCHANGED <<owner, item, place, slot, faults, tampers, late>> /\ Alone(w)
        /\ next.op = f.op /\ next.via = f.via
        /\ \/ /\ At(w, "look") /\ Doing(w, "quarantine") /\ UNCHANGED entry
              /\ next.gen = entry.gen /\ next.anchor = entry.anchor /\ next.seen = entry.phase
              /\ \/ /\ pc = "promote" /\ entry.phase \in {"preparing", "candidate_anchored"}
                    /\ Candidate = Original
                 \/ pc = "classify_public" /\ entry.phase = "authoritative_anchored"
                 \/ pc = "scan" /\ entry.phase = "public_published"
                 \/ pc \in {"reallocate", "conflict", "settle"}
           \/ /\ At(w, "look") /\ Doing(w, "restore") /\ UNCHANGED entry
              /\ next.gen = f.gen /\ next.anchor = entry.anchor /\ next.pc = "verify"
           \/ /\ At(w, "scan") /\ UNCHANGED entry
              /\ next.gen = f.anchor /\ next.anchor = f.anchor /\ next.seen = f.seen
              /\ \/ /\ pc = "finalize" /\ Filled("source") /= {}
                    /\ slot[First(Filled("source"))]["source"] = Original
                 \/ pc = "allocate_capture"
                 \/ pc = "fence_capture" /\ f.seen /= "public_published"
                 \/ pc = "conflict"
           \/ /\ At(w, "open_restore") /\ Holding(w) /\ next.gen = f.gen /\ next.anchor = entry.anchor /\ pc = "verify"
              /\ entry' \in EntryType /\ SameAttempts /\ entry'.state = "restoring" /\ entry'.phase = "restoring"
           \/ /\ At(w, "promote") /\ Holding(w) /\ next.gen = f.gen /\ next.anchor = f.gen /\ next.seen = f.seen
              /\ pc = (IF Recovering(w) THEN "classify_public" ELSE "fence_public")
              /\ entry' \in EntryType /\ entry'.state = entry.state /\ entry'.phase = "authoritative_anchored"
              /\ entry'.gen = entry.gen /\ entry'.since = entry.since /\ entry'.anchor = f.gen

\* A row with the four fields an adoption may change.
Row(w, pc, g, a, s) == [frame[w] EXCEPT !.pc = pc, !.gen = g, !.anchor = a, !.seen = s]

\* What a worker takes over from the entry.
LEMMA AdoptsStep ==
    ASSUME TypeOK, NEW w \in Worker, Adopts(w)
    PROVE  Adopted(w)
<1> USE DEF At, Doing, disk, env, db
<1>0. /\ Fields /\ frame[w] \in FrameType /\ frame \in [Worker -> FrameType]
      /\ {"restoring"} \subseteq EntryState /\ {"restoring", "authoritative_anchored"} \subseteq Phase
  BY TypedFields, FrameFields DEF TypeOK, EntryState, Phase
<1>00. /\ entry.gen \in 0..MaxGen /\ entry.anchor \in 0..MaxGen /\ entry.phase \in Phase \cup EntryState
      /\ entry.state \in Phase \cup EntryState /\ frame[w].gen \in 0..MaxGen /\ frame[w].anchor \in 0..MaxGen
      /\ frame[w].seen \in Phase \cup EntryState
      /\ {"verify", "finalize", "conflict", "allocate_capture", "fence_capture", "classify_public", "fence_public"} \subseteq Pc
  BY <1>0, PcNames DEF Fields
<1>1. CASE LookPreparing(w)
  <2> DEFINE pc == CASE entry.phase \in {"preparing", "candidate_anchored"} ->
                                 (CASE Candidate = Original -> "promote"
                                    [] Candidate = None /\ place["home"] /= None -> "reallocate"
                                    [] OTHER -> "conflict")
                          [] entry.phase = "authoritative_anchored" -> "classify_public"
                          [] entry.phase = "public_published" -> "scan"
                          [] OTHER -> "settle"
  <2>0. /\ \/ /\ pc = "promote" /\ entry.phase \in {"preparing", "candidate_anchored"}
              /\ Candidate = Original
           \/ pc = "classify_public" /\ entry.phase = "authoritative_anchored"
           \/ pc = "scan" /\ entry.phase = "public_published"
           \/ pc \in {"reallocate", "conflict", "settle"}
        /\ pc \in Pc
    BY PcNames
  <2>1. frame' = [frame EXCEPT ![w].gen = entry.gen, ![w].anchor = entry.anchor, ![w].seen = entry.phase, ![w].pc = pc]
    BY <1>1 DEF LookPreparing, Candidate
  <2> HIDE DEF pc
  <2> DEFINE row == Row(w, pc, entry.gen, entry.anchor, entry.phase)
  <2>2. frame' = [frame EXCEPT ![w] = row]
    BY <1>0, <2>1 DEF FrameType, Row
  <2>5. /\ row \in FrameType /\ row.pc = pc /\ row.gen = entry.gen /\ row.anchor = entry.anchor /\ row.seen = entry.phase
        /\ row.op = frame[w].op /\ row.via = frame[w].via
    BY <1>0, <1>00, <2>0, FrameFields DEF FrameType, Row
  <2> HIDE DEF row
  <2>6. Alone(w) /\ frame'[w] = row
    BY <1>0, <2>2, <2>5, RowStep
  <2>3. /\ Alone(w) /\ frame'[w].pc = pc /\ frame'[w].gen = entry.gen /\ frame'[w].anchor = entry.anchor
        /\ frame'[w].seen = entry.phase /\ frame'[w].op = frame[w].op /\ frame'[w].via = frame[w].via
    BY <2>5, <2>6
  <2> QED BY <1>1, <2>0, <2>3 DEF LookPreparing, Adopted
<1>2. CASE LookRestoring(w)
  <2> DEFINE row == Row(w, "verify", frame[w].gen, entry.anchor, entry.state)
  <2>1. frame' = [frame EXCEPT ![w] = row]
    BY <1>0, <1>2 DEF LookRestoring, FrameType, Row
  <2>5. /\ row \in FrameType /\ row.pc = "verify" /\ row.gen = frame[w].gen /\ row.anchor = entry.anchor /\ row.seen = entry.state
        /\ row.op = frame[w].op /\ row.via = frame[w].via
    BY <1>0, <1>00, FrameFields DEF FrameType, Row
  <2> HIDE DEF row
  <2>6. Alone(w) /\ frame'[w] = row
    BY <1>0, <2>1, <2>5, RowStep
  <2>2. /\ Alone(w) /\ frame'[w].pc = "verify" /\ frame'[w].gen = frame[w].gen /\ frame'[w].anchor = entry.anchor
        /\ frame'[w].op = frame[w].op /\ frame'[w].via = frame[w].via
    BY <2>5, <2>6
  <2> QED BY <1>2, <2>2 DEF LookRestoring, Adopted
<1>3. CASE ScanSources(w)
  <2>1. PICK pc \in {"finalize", "conflict", "allocate_capture", "fence_capture"} :
          /\ pc = (IF Filled("source") /= {}
                   THEN IF slot[First(Filled("source"))]["source"] = Original THEN "finalize" ELSE "conflict"
                   ELSE IF place["home"] = Original THEN CaptureSlot(w) ELSE "conflict")
          /\ frame' = [frame EXCEPT ![w].gen = frame[w].anchor, ![w].pc = pc]
    BY <1>3 DEF ScanSources, CaptureSlot
  <2> DEFINE row == Row(w, pc, frame[w].anchor, frame[w].anchor, frame[w].seen)
  <2>2. frame' = [frame EXCEPT ![w] = row]
    BY <1>0, <2>1 DEF FrameType, Row
  <2>5. /\ row \in FrameType /\ row.pc = pc /\ row.gen = frame[w].anchor /\ row.anchor = frame[w].anchor /\ row.seen = frame[w].seen
        /\ row.op = frame[w].op /\ row.via = frame[w].via
    BY <1>0, <1>00, <2>1, FrameFields DEF FrameType, Row
  <2> HIDE DEF row
  <2>6. Alone(w) /\ frame'[w] = row
    BY <1>0, <2>2, <2>5, RowStep
  <2>3. /\ Alone(w) /\ frame'[w].pc = pc /\ frame'[w].gen = frame[w].anchor /\ frame'[w].anchor = frame[w].anchor
        /\ frame'[w].seen = frame[w].seen /\ frame'[w].op = frame[w].op /\ frame'[w].via = frame[w].via
    BY <2>5, <2>6
  <2> QED BY <1>3, <2>1, <2>3 DEF ScanSources, Adopted, CaptureSlot
<1>4. CASE OpenRestore(w)
  <2> DEFINE row == Row(w, "verify", frame[w].gen, entry.anchor, entry.state)
  <2>1. frame' = [frame EXCEPT ![w] = row]
    BY <1>0, <1>4 DEF OpenRestore, FrameType, Row
  <2>5. /\ row \in FrameType /\ row.pc = "verify" /\ row.gen = frame[w].gen /\ row.anchor = entry.anchor /\ row.seen = entry.state
        /\ row.op = frame[w].op /\ row.via = frame[w].via
    BY <1>0, <1>00, FrameFields DEF FrameType, Row
  <2> HIDE DEF row
  <2>6. Alone(w) /\ frame'[w] = row
    BY <1>0, <2>1, <2>5, RowStep
  <2>2. /\ Alone(w) /\ frame'[w].pc = "verify" /\ frame'[w].gen = frame[w].gen /\ frame'[w].anchor = entry.anchor
        /\ frame'[w].op = frame[w].op /\ frame'[w].via = frame[w].via
    BY <2>5, <2>6
  <2>3. entry' \in EntryType /\ entry'.state = "restoring" /\ entry'.phase = "restoring" /\ SameAttempts
    BY <1>0, <1>4, EntryFields DEF OpenRestore, Fields
  <2> QED BY <1>4, <2>2, <2>3 DEF OpenRestore, Adopted
<1>5. CASE Promote(w)
  <2>1. PICK pc \in {"classify_public", "fence_public"} :
          /\ pc = (IF Recovering(w) THEN "classify_public" ELSE "fence_public")
          /\ frame' = [frame EXCEPT ![w].pc = pc, ![w].anchor = frame[w].gen]
    BY <1>5 DEF Promote
  <2> DEFINE row == Row(w, pc, frame[w].gen, frame[w].gen, frame[w].seen)
  <2>2. frame' = [frame EXCEPT ![w] = row]
    BY <1>0, <2>1 DEF FrameType, Row
  <2>5. /\ row \in FrameType /\ row.pc = pc /\ row.gen = frame[w].gen /\ row.anchor = frame[w].gen /\ row.seen = frame[w].seen
        /\ row.op = frame[w].op /\ row.via = frame[w].via
    BY <1>0, <1>00, <2>1, FrameFields DEF FrameType, Row
  <2> HIDE DEF row
  <2>6. Alone(w) /\ frame'[w] = row
    BY <1>0, <2>2, <2>5, RowStep
  <2>3. /\ Alone(w) /\ frame'[w].pc = pc /\ frame'[w].gen = frame[w].gen /\ frame'[w].anchor = frame[w].gen
        /\ frame'[w].seen = frame[w].seen /\ frame'[w].op = frame[w].op /\ frame'[w].via = frame[w].via
    BY <2>5, <2>6
  <2>4. /\ entry' \in EntryType /\ entry'.state = entry.state /\ entry'.phase = "authoritative_anchored"
        /\ entry'.gen = entry.gen /\ entry'.since = entry.since /\ entry'.anchor = frame[w].gen
    BY <1>0, <1>5 DEF Promote, Fields, EntryType
  <2> QED BY <1>5, <2>1, <2>3, <2>4 DEF Promote, Adopted
<1> QED BY <1>1, <1>2, <1>3, <1>4, <1>5 DEF Adopts

Fresh(e) == e.state = "preparing" /\ e.phase = "none" /\ e.gen = entry.gen /\ e.since = entry.gen /\ e.anchor = 0

\* A worker that was idle begins a run or takes up an interrupted one.
Beginning(w) ==
    LET next == frame'[w]
    IN  /\ UNCHANGED <<owner, place, slot, faults, tampers, late>> /\ Alone(w) /\ Holding(w) /\ At(w, "idle")
        /\ item' \in [Op -> ItemState] /\ entry' \in EntryType
        /\ \/ /\ item["quarantine"] = "planned" /\ place["home"] = Original
              /\ item'["quarantine"] = "executing" /\ item'["restore"] = item["restore"] /\ Fresh(entry')
              /\ next.pc = "open" /\ next.op = "quarantine" /\ next.via = "plan" /\ next.gen = 0 /\ next.anchor = 0
           \/ /\ item["quarantine"] = "planned" /\ UNCHANGED <<entry, frame>>
              /\ item'["quarantine"] = "failed" /\ item'["restore"] = item["restore"]
           \/ /\ item["quarantine"] = "completed" /\ item["restore"] = "planned" /\ entry.state = "active"
              /\ item'["quarantine"] = item["quarantine"] /\ item'["restore"] = "executing"
              /\ SameAttempts /\ entry'.state = "restoring" /\ entry'.phase = "restoring"
              /\ next.pc = "open_restore" /\ next.op = "restore" /\ next.via = "plan" /\ next.gen = 0 /\ next.anchor = 0
           \/ /\ UNCHANGED <<item, entry>> /\ item[next.op] = "executing" /\ next.via = "recovery"
              /\ next.gen = 0 /\ next.anchor = 0
              /\ \/ next.pc = "settle"
                 \/ next.pc = "look" /\ entry.phase /= "none" /\ entry.state \in {"preparing", "restoring"}

\* How a worker begins.
LEMMA BeginsStep ==
    ASSUME TypeOK, NEW w \in Worker, Begins(w)
    PROVE  Beginning(w)
<1> USE DEF disk, env, db, At, Beginning
<1>0. /\ Fields /\ frame \in [Worker -> FrameType] /\ item \in [Op -> ItemState] /\ MaxGen \in Nat /\ 0 \in 0..MaxGen
      /\ {"preparing", "restoring"} \subseteq EntryState /\ {"none", "restoring"} \subseteq Phase
      /\ {"open", "open_restore", "look", "settle"} \subseteq Pc /\ {"quarantine", "restore"} = Op
      /\ {"planned", "executing", "completed", "failed"} = ItemState
  BY TypedFields, PcNames, QuarantineTxAssumption DEF TypeOK, EntryState, Phase, Op, ItemState
<1>1. CASE IntendQuarantine(w)
  <2>1. CASE place["home"] = Original
    <3> DEFINE row == [Idle EXCEPT !.pc = "open"]
    <3>1. /\ row \in FrameType /\ row.pc = "open" /\ row.op = "quarantine" /\ row.via = "plan"
          /\ row.gen = 0 /\ row.anchor = 0
      BY <1>0 DEF Idle, FrameType
    <3>2. frame' = [frame EXCEPT ![w] = row]
      BY <1>1, <2>1 DEF IntendQuarantine
    <3> HIDE DEF row
    <3>3. Alone(w) /\ frame'[w] = row
      BY <1>0, <3>1, <3>2, RowStep
    <3>4. entry' \in EntryType /\ Fresh(entry')
      BY <1>0, <1>1, <2>1 DEF IntendQuarantine, FreshEntry, Fresh, EntryType, Fields
    <3>5. item' \in [Op -> ItemState] /\ item'["quarantine"] = "executing" /\ item'["restore"] = item["restore"]
      BY <1>0, <1>1, <2>1 DEF IntendQuarantine
    <3> QED BY <1>1, <2>1, <3>1, <3>3, <3>4, <3>5 DEF IntendQuarantine
  <2>2. CASE place["home"] /= Original
    <3>1. item' \in [Op -> ItemState] /\ item'["quarantine"] = "failed" /\ item'["restore"] = item["restore"]
      BY <1>0, <1>1, <2>2 DEF IntendQuarantine
    <3> QED BY <1>0, <1>1, <2>2, <3>1 DEF IntendQuarantine, Fields, Alone
  <2> QED BY <2>1, <2>2
<1>2. CASE IntendRestore(w)
  <2> DEFINE row == [Idle EXCEPT !.pc = "open_restore", !.op = "restore"]
  <2>1. /\ row \in FrameType /\ row.pc = "open_restore" /\ row.op = "restore" /\ row.via = "plan"
        /\ row.gen = 0 /\ row.anchor = 0
    BY <1>0 DEF Idle, FrameType
  <2>2. frame' = [frame EXCEPT ![w] = row]
    BY <1>2 DEF IntendRestore
  <2> HIDE DEF row
  <2>3. Alone(w) /\ frame'[w] = row
    BY <1>0, <2>1, <2>2, RowStep
  <2>4. entry' \in EntryType /\ entry'.state = "restoring" /\ entry'.phase = "restoring" /\ SameAttempts
    BY <1>0, <1>2, EntryFields DEF IntendRestore, Fields
  <2>5. item' \in [Op -> ItemState] /\ item'["restore"] = "executing" /\ item'["quarantine"] = item["quarantine"]
    BY <1>0, <1>2 DEF IntendRestore
  <2> QED BY <1>2, <2>1, <2>3, <2>4, <2>5 DEF IntendRestore
<1>3. CASE Recover(w)
  <2>1. PICK op \in Op : /\ Holding(w) /\ At(w, "idle") /\ item[op] = "executing"
                         /\ frame' = [frame EXCEPT ![w] = [Idle EXCEPT !.op = op, !.via = "recovery",
                                !.pc = IF entry.phase = "none" \/ entry.state \notin {"preparing", "restoring"}
                                       THEN "settle" ELSE "look"]]
                         /\ UNCHANGED <<db, disk, env>>
    BY <1>3 DEF Recover
  <2> DEFINE row == [Idle EXCEPT !.op = op, !.via = "recovery",
               !.pc = IF entry.phase = "none" \/ entry.state \notin {"preparing", "restoring"}
                      THEN "settle" ELSE "look"]
  <2>2. /\ row \in FrameType /\ row.op = op /\ row.via = "recovery" /\ row.gen = 0 /\ row.anchor = 0
        /\ \/ row.pc = "settle"
           \/ row.pc = "look" /\ entry.phase /= "none" /\ entry.state \in {"preparing", "restoring"}
    BY <1>0 DEF Idle, FrameType
  <2>3. frame' = [frame EXCEPT ![w] = row]
    BY <2>1
  <2> HIDE DEF row
  <2>4. Alone(w) /\ frame'[w] = row
    BY <1>0, <2>2, <2>3, RowStep
  <2> QED BY <1>0, <2>1, <2>2, <2>4 DEF Fields
<1> QED BY <1>1, <1>2, <1>3 DEF Begins

\* What a worker was doing is over, and so is its item's execution.
Ending(w) ==
    LET op == frame[w].op
    IN  /\ UNCHANGED <<owner, place, slot, faults, tampers, late>> /\ Alone(w) /\ frame'[w] = Idle /\ Holding(w)
        /\ frame[w].pc \in {"failed", "done", "settle"}
        /\ item' \in [Op -> ItemState] /\ entry' \in EntryType /\ SameAttempts
        /\ \/ /\ \A o \in Op \ {op} : item'[o] = item[o]
              /\ item'[op] = "failed"
              /\ \/ entry'.phase = "conflict" /\ entry'.state = "conflict" /\ entry.state /= "conflict"
                 \/ entry' = entry /\ (entry.state = "conflict" \/ At(w, "settle"))
                 \/ entry'.phase = entry.phase /\ entry'.state = "abandoned" /\ op = "quarantine"
           \/ /\ \A o \in Op \ {op} : item'[o] = item[o]
              /\ item'[op] = "completed" /\ entry' = entry
           \/ /\ \A o \in Op \ {op} : item'[o] = item[o]
              /\ item'[op] = "planned" /\ entry' = entry /\ entry.phase /= "none"
              /\ entry.state = "preparing" \/ (entry.state = "active" /\ op = "restore")
           \/ /\ At(w, "settle") /\ entry.phase = "none" /\ entry'.phase = "none"
              /\ entry' = entry \/ entry'.state = "abandoned"
              /\ item'["restore"] = item["restore"]
           \/ /\ At(w, "done") /\ op = "quarantine" /\ item'["restore"] = item["restore"]
              /\ item'["quarantine"] = "failed" /\ entry'.phase = "conflict" /\ entry'.state = "conflict"

\* How the item and the entry are left.
LEMMA EndsStep ==
    ASSUME TypeOK, NEW w \in Worker, Ends(w)
    PROVE  Ending(w)
<1> USE DEF disk, env, At, Doing
<1>0. /\ Fields /\ frame[w].op \in Op /\ frame \in [Worker -> FrameType] /\ item \in [Op -> ItemState]
      /\ {"conflict", "abandoned"} \subseteq EntryState /\ "conflict" \in Phase
      /\ {"planned", "executing", "completed", "failed"} = ItemState /\ {"quarantine", "restore"} = Op
      /\ entry \in EntryType
  BY TypedFields DEF TypeOK, EntryState, Phase, Op, ItemState, Fields
<1>1. entry' = entry => entry' \in EntryType /\ SameAttempts
  BY <1>0 DEF SameAttempts
<1>2. entry' = [entry EXCEPT !.state = "abandoned"] =>
        entry' \in EntryType /\ SameAttempts /\ entry'.phase = entry.phase /\ entry'.state = "abandoned"
  BY <1>0 DEF EntryType, SameAttempts
<1>3. entry' = [entry EXCEPT !.state = "conflict", !.phase = "conflict"] =>
        entry' \in EntryType /\ SameAttempts /\ entry'.phase = "conflict" /\ entry'.state = "conflict"
  BY <1>0, EntryFields
<1>4. \A op \in Op, s \in ItemState : item' = [item EXCEPT ![op] = s] =>
        item' \in [Op -> ItemState] /\ item'[op] = s /\ \A o \in Op \ {op} : item'[o] = item[o]
  BY <1>0
<1>5. CASE ItemFailed(w)
  <2>1. /\ item' = [item EXCEPT ![frame[w].op] = "failed"] /\ At(w, "failed")
        /\ \/ entry' = entry /\ entry.state = "conflict"
           \/ entry' = [entry EXCEPT !.state = "abandoned"] /\ frame[w].op = "quarantine"
           \/ entry' = [entry EXCEPT !.state = "conflict", !.phase = "conflict"] /\ entry.state /= "conflict"
    BY <1>0, <1>5 DEF ItemFailed
  <2>2. Alone(w) /\ frame'[w] = Idle
    BY <1>0, <1>5, StopStep DEF ItemFailed
  <2> QED BY <1>0, <1>1, <1>2, <1>3, <1>4, <1>5, <2>1, <2>2 DEF ItemFailed, Ending
<1>6. CASE ItemDone(w)
  <2>1. /\ At(w, "done")
        /\ \/ item' = [item EXCEPT ![frame[w].op] = "completed"] /\ entry' = entry
           \/ /\ item' = [item EXCEPT !["quarantine"] = "failed"] /\ frame[w].op = "quarantine"
              /\ entry' = [entry EXCEPT !.state = "conflict", !.phase = "conflict"]
    BY <1>0, <1>6 DEF ItemDone
  <2>2. Alone(w) /\ frame'[w] = Idle
    BY <1>0, <1>6, StopStep DEF ItemDone
  <2> QED BY <1>0, <1>1, <1>3, <1>4, <1>6, <2>1, <2>2 DEF ItemDone, Ending
<1>7. CASE Settle(w)
  <2>1. Alone(w) /\ frame'[w] = Idle
    BY <1>0, <1>7, StopStep DEF Settle
  <2>2. CASE entry.phase = "none"
    <3>1. /\ item' = [item EXCEPT !["quarantine"] = "planned"] \/ item' = [item EXCEPT !["quarantine"] = "failed"]
          /\ entry' = entry \/ entry' = [entry EXCEPT !.state = "abandoned"]
      BY <1>7, <2>2 DEF Settle
    <3> QED BY <1>0, <1>1, <1>2, <1>4, <1>7, <2>1, <2>2, <3>1 DEF Settle, Ending
  <2>3. CASE entry.phase /= "none"
    <3>1. /\ entry' = entry
          /\ \/ item' = [item EXCEPT ![frame[w].op] = "completed"]
             \/ /\ item' = [item EXCEPT ![frame[w].op] = "planned"]
                /\ entry.state = "preparing" \/ (entry.state = "active" /\ frame[w].op = "restore")
             \/ item' = [item EXCEPT ![frame[w].op] = "failed"]
      BY <1>7, <2>3 DEF Settle
    <3> QED BY <1>0, <1>1, <1>4, <1>7, <2>1, <2>3, <3>1 DEF Settle, Ending
  <2> QED BY <2>2, <2>3
<1> QED BY <1>5, <1>6, <1>7 DEF Ends

\* A worker gives up what it was in the middle of.
Leaving(w) ==
    /\ UNCHANGED <<owner, entry, item, place, slot, tampers, late>> /\ Alone(w) /\ frame'[w] = Idle
    /\ faults' \in 0..MaxFaults

\* A lost lease and a crash lose only what the worker was doing.
LEMMA LeavesStep ==
    ASSUME TypeOK, NEW w \in Worker, Leaves(w)
    PROVE  Leaving(w)
BY StopStep, QuarantineTxAssumption DEF Leaves, Abandon, Crash, Leaving, TypeOK, db, disk, env

\* The lease moves on.
Taking(w) ==
    /\ UNCHANGED <<entry, item, place, slot, frame, tampers, late>> /\ At(w, "idle") /\ owner' = w
    /\ faults' \in 0..MaxFaults

\* A user changes what a path leads to.
Tampering(p, c) ==
    /\ UNCHANGED <<owner, entry, item, slot, frame, faults, late>> /\ SetPlace(p, c)
    /\ tampers' = tampers + 1 /\ tampers' \in 0..MaxTampers

\* Every step, by what it writes.
LEMMA Steps ==
    ASSUME TypeOK, Slots, [Next]_vars
    PROVE  \/ \E w \in Worker :
                \/ Looked(w) \/ Called(w) \/ Noted(w) \/ Numbering(w) \/ Adopted(w) \/ Beginning(w)
                \/ Ending(w) \/ Leaving(w) \/ Taking(w)
           \/ \E p \in Place, c \in {None, Alien} : Tampering(p, c)
           \/ UNCHANGED vars
<1>1. ASSUME NEW w \in Worker, TakeOver(w) PROVE Taking(w)
  BY <1>1, QuarantineTxAssumption DEF TakeOver, Taking, disk, TypeOK
<1>2. ASSUME NEW p \in Place, NEW c \in {None, Alien}, Tamper(p, c) PROVE Tampering(p, c)
  <2>1. SetPlace(p, c)
    BY <1>2, PlaceStep DEF Tamper, Content
  <2> QED BY <1>2, <2>1, QuarantineTxAssumption DEF Tamper, Tampering, db, TypeOK
<1> QED BY <1>1, <1>2, WorkerSteps, LooksStep, CallsStep, NotesStep, NumbersStep, AdoptsStep, BeginsStep, EndsStep, LeavesStep
        DEF Next

-----------------------------------------------------------------------------
(* Types and attempts.                                                     *)

\* The invariant holds before the first plan is executed.
LEMMA InitIInv == Init => IInv
<1> SUFFICES ASSUME Init PROVE IInv
  OBVIOUS
<1>1. TypeOK
  <2>1. entry \in EntryType /\ owner \in Worker /\ faults \in 0..MaxFaults /\ tampers \in 0..MaxTampers /\ late \in BOOLEAN
    <3>1. entry = FreshEntry(0) /\ owner \in Worker /\ faults = 0 /\ tampers = 0 /\ late = FALSE
      BY DEF Init
    <3>2. 0 \in 0..MaxGen /\ 0 \in 0..MaxFaults /\ 0 \in 0..MaxTampers
      BY QuarantineTxAssumption
    <3> QED BY <3>1, <3>2 DEF FreshEntry, EntryType, EntryState, Phase
  <2>2. item \in [Op -> ItemState] /\ frame \in [Worker -> FrameType]
    BY IdleRow DEF Init, ItemState
  <2>3. place \in [Place -> Content] /\ slot \in [Gen -> [Slot -> Content]]
    BY DEF Init, Place, Content
  <2> QED BY <2>1, <2>2, <2>3 DEF TypeOK, EntryType
<1>2. \A w \in Worker : frame[w] = Idle
  BY DEF Init
<1>3. /\ entry.gen = 0 /\ entry.since = 0 /\ entry.anchor = 0 /\ entry.phase = "none" /\ entry.state = "preparing"
      /\ item["quarantine"] = "planned" /\ item["restore"] = "planned" /\ place["home"] = Original /\ place["public"] = None
      /\ \A g \in Gen, s \in Slot : slot[g][s] = None
  BY DEF Init, FreshEntry, Op, Place
<1>4. Attempts = {}
  BY <1>3, QuarantineTxAssumption DEF Attempts, Gen
<1>5. Numbered /\ Slots /\ NotCaptured /\ ReadyToCapture
  BY <1>2, <1>3 DEF Numbered, Slots, Exclusive, NotCaptured, ReadyToCapture, Idle, AnchoredPc, AnchorPc, CapturePc,
     ViewPc, At, Slot
<1>6. OwnerInPhase /\ Anchored /\ RestoreIsSecond /\ RestoringOwner
  BY <1>2, <1>3 DEF OwnerInPhase, Stands, Anchored, AnchoredPhase, RestoreIsSecond, RestoringOwner, Restores, Idle, At, Doing,
     RestorePc, QuarantinePc, NoView, Slot
<1>7. Visible
  BY <1>2, <1>3, <1>4, QuarantineTxAssumption DEF Visible, UncapturedHome, Idle, At, Doing, Place, Slot
<1> QED BY <1>1, <1>5, <1>6, <1>7 DEF IInv

\* Every step keeps the types.
LEMMA NextTypeOK ==
    ASSUME TypeOK, Numbered, Slots, [Next]_vars
    PROVE  TypeOK'
<1> USE DEF TypeOK
<1>0. late' \in BOOLEAN => (late \/ late') \in BOOLEAN
  OBVIOUS
<1>1. ASSUME NEW w \in Worker, Looked(w) PROVE TypeOK'
  BY <1>1 DEF Looked, Moved, Alone
<1>2. ASSUME NEW w \in Worker, Called(w) PROVE TypeOK'
  <2>1. /\ owner' \in Worker /\ entry' \in EntryType /\ item' \in [Op -> ItemState] /\ frame' \in [Worker -> FrameType]
        /\ faults' \in 0..MaxFaults /\ tampers' \in 0..MaxTampers /\ late' \in BOOLEAN
    BY <1>2 DEF Called, Moved, Alone, EntryType
  <2>2. slot' \in [Gen -> [Slot -> Content]]
    BY <1>2 DEF Called, SetSlot, Filing
  <2>3. frame[w].pc \in {"publish", "put_home"} => slot[frame[w].anchor]["anchor"] \in Content
    BY DEF Numbered, AnchoredPc, Slot
  <2>4. place' \in [Place -> Content]
    BY <1>2, <2>3 DEF Called, SetPlace, Filing, At
  <2> QED BY <2>1, <2>2, <2>4 DEF EntryType
<1>3. ASSUME NEW w \in Worker, Noted(w) PROVE TypeOK'
  BY <1>3 DEF Noted, Moved, Alone, EntryType
<1>4. ASSUME NEW w \in Worker, Numbering(w) PROVE TypeOK'
  BY <1>4 DEF Numbering, Alone, EntryType
<1>5. ASSUME NEW w \in Worker, Adopted(w) PROVE TypeOK'
  BY <1>5 DEF Adopted, Alone, EntryType
<1>6. ASSUME NEW w \in Worker, Beginning(w) PROVE TypeOK'
  BY <1>6 DEF Beginning, Alone, EntryType
<1>7. ASSUME NEW w \in Worker, Ending(w) PROVE TypeOK'
  BY <1>7 DEF Ending, Alone, EntryType
<1>8. ASSUME NEW w \in Worker, Leaving(w) PROVE TypeOK'
  BY <1>8 DEF Leaving, Alone
<1>9. ASSUME NEW w \in Worker, Taking(w) PROVE TypeOK'
  BY <1>9 DEF Taking
<1>10. ASSUME NEW p \in Place, NEW c \in {None, Alien}, Tampering(p, c) PROVE TypeOK'
  BY <1>10 DEF Tampering, SetPlace
<1>11. CASE UNCHANGED vars
  BY <1>11 DEF vars
<1> QED BY <1>1, <1>2, <1>3, <1>4, <1>5, <1>6, <1>7, <1>8, <1>9, <1>10, <1>11, Steps

\* Every step keeps to numbers that were handed out.
LEMMA NextNumbered ==
    ASSUME TypeOK, Numbered, Slots, OwnerInPhase, Anchored, RestoreIsSecond, [Next]_vars
    PROVE  Numbered'
<1> USE QuarantineTxAssumption DEF At, Doing, Holding, Numbered, AnchoredPc, Gen
<1>0. Fields
  BY TypedFields
<1>1. ASSUME NEW w \in Worker, Looked(w) PROVE Numbered'
  BY <1>0, <1>1 DEF Fields, Looked, Moved, Alone, AfterHome
<1>2. ASSUME NEW w \in Worker, Called(w) PROVE Numbered'
  BY <1>0, <1>2, SMTT(30) DEF Fields, Called, Moved, Alone, AfterHome, Filing, SetSlot, SetPlace
<1>3. ASSUME NEW w \in Worker, Noted(w) PROVE Numbered'
  BY <1>0, <1>3 DEF Fields, Noted, Moved, Alone, SameAttempts, EntryType
<1>4. ASSUME NEW w \in Worker, Numbering(w) PROVE Numbered'
  BY <1>0, <1>4 DEF Fields, Numbering, Alone, EntryType
<1>5. ASSUME NEW w \in Worker, Adopted(w) PROVE Numbered'
  <2>1. \A v \in Worker : frame'[v].gen <= entry'.gen /\ frame'[v].anchor <= entry'.gen
    BY <1>0, <1>5 DEF Fields, Adopted, Alone, SameAttempts, EntryType
  <2>2. /\ entry'.since <= entry'.gen /\ entry'.anchor <= entry'.gen /\ entry'.gen = entry.gen /\ slot' = slot
    BY <1>0, <1>5 DEF Fields, Adopted, SameAttempts
  <2>3. frame'[w].pc \in AnchoredPc => frame'[w].anchor \in Gen
    <3>1. entry.phase \in AnchoredPhase \/ item["restore"] /= "planned" => entry.anchor \in Gen
      BY DEF Anchored, Attempts, RestoreIsSecond
    <3>2. Doing(w, "restore") \/ At(w, "open_restore") => item["restore"] /= "planned"
      BY DEF RestoreIsSecond, RestorePc
    <3>3. At(w, "promote") /\ Holding(w) => frame[w].gen \in Gen
      BY DEF OwnerInPhase, Stands, AttemptPc, Attempts
    <3> QED BY <1>5, <3>1, <3>2, <3>3 DEF Adopted, AnchoredPhase
  <2> QED BY <1>5, <2>1, <2>2, <2>3 DEF Adopted, Alone
<1>6. ASSUME NEW w \in Worker, Beginning(w) PROVE Numbered'
  BY <1>0, <1>6 DEF Fields, Beginning, Alone, SameAttempts, Fresh, EntryType
<1>7. ASSUME NEW w \in Worker, Ending(w) PROVE Numbered'
  BY <1>0, <1>7 DEF Fields, Ending, Alone, Idle, SameAttempts, EntryType
<1>8. ASSUME NEW w \in Worker, Leaving(w) PROVE Numbered'
  BY <1>0, <1>8 DEF Fields, Leaving, Alone, Idle
<1>9. ASSUME NEW w \in Worker, Taking(w) PROVE Numbered'
  BY <1>0, <1>9 DEF Fields, Taking
<1>10. ASSUME NEW p \in Place, NEW c \in {None, Alien}, Tampering(p, c) PROVE Numbered'
  BY <1>0, <1>10 DEF Fields, Tampering, SetPlace
<1>11. CASE UNCHANGED vars
  BY <1>11 DEF vars
<1> QED BY <1>1, <1>2, <1>3, <1>4, <1>5, <1>6, <1>7, <1>8, <1>9, <1>10, <1>11, Steps

\* Workers never link an anchor into the same attempt, ...
LEMMA NextAnchoring ==
    ASSUME TypeOK, Numbered, Slots, ReadyToCapture, [Next]_vars
    PROVE  Exclusive(AnchorPc, "anchor")'
<1> USE QuarantineTxAssumption DEF At, Doing, Holding, Slots, Exclusive, AnchorPc, CapturePc, ViewPc, Numbered, Gen, Slot
<1>0. Fields
  BY TypedFields
<1>1. ASSUME NEW w \in Worker, Looked(w) PROVE Exclusive(AnchorPc, "anchor")'
  BY <1>0, <1>1 DEF Fields, Looked, Moved, Alone, AfterHome
<1>2. ASSUME NEW w \in Worker, Called(w) PROVE Exclusive(AnchorPc, "anchor")'
  BY <1>0, <1>2, SMTT(30) DEF Fields, Called, Moved, Alone, AfterHome, Filing, SetSlot, SetPlace
<1>3. ASSUME NEW w \in Worker, Noted(w) PROVE Exclusive(AnchorPc, "anchor")'
  BY <1>0, <1>3 DEF Fields, Noted, Moved, Alone, SameAttempts, EntryType
<1>4. ASSUME NEW w \in Worker, Numbering(w) PROVE Exclusive(AnchorPc, "anchor")'
  BY <1>0, <1>4 DEF Fields, Numbering, Alone, EntryType
<1>5. ASSUME NEW w \in Worker, Adopted(w) PROVE Exclusive(AnchorPc, "anchor")'
  BY <1>0, <1>5 DEF Fields, Adopted, Alone, SameAttempts, EntryType
<1>6. ASSUME NEW w \in Worker, Beginning(w) PROVE Exclusive(AnchorPc, "anchor")'
  BY <1>0, <1>6 DEF Fields, Beginning, Alone, SameAttempts, Fresh, EntryType
<1>7. ASSUME NEW w \in Worker, Ending(w) PROVE Exclusive(AnchorPc, "anchor")'
  BY <1>0, <1>7 DEF Fields, Ending, Alone, Idle, SameAttempts, EntryType
<1>8. ASSUME NEW w \in Worker, Leaving(w) PROVE Exclusive(AnchorPc, "anchor")'
  BY <1>0, <1>8 DEF Fields, Leaving, Alone, Idle
<1>9. ASSUME NEW w \in Worker, Taking(w) PROVE Exclusive(AnchorPc, "anchor")'
  BY <1>0, <1>9 DEF Fields, Taking
<1>10. ASSUME NEW p \in Place, NEW c \in {None, Alien}, Tampering(p, c) PROVE Exclusive(AnchorPc, "anchor")'
  BY <1>0, <1>10 DEF Fields, Tampering, SetPlace
<1>11. CASE UNCHANGED vars
  BY <1>11 DEF vars
<1> QED BY <1>1, <1>2, <1>3, <1>4, <1>5, <1>6, <1>7, <1>8, <1>9, <1>10, <1>11, Steps

\* ... never capture a source into the same one, ...
LEMMA NextCapturing ==
    ASSUME TypeOK, Numbered, Slots, ReadyToCapture, [Next]_vars
    PROVE  Exclusive(CapturePc, "source")'
<1> USE QuarantineTxAssumption DEF At, Doing, Holding, Slots, Exclusive, AnchorPc, CapturePc, ViewPc, Numbered, Gen, Slot, ReadyToCapture, Unclaimed, Attempts
<1>0. Fields
  BY TypedFields
<1>1. ASSUME NEW w \in Worker, Looked(w) PROVE Exclusive(CapturePc, "source")'
  BY <1>0, <1>1 DEF Fields, Looked, Moved, Alone, AfterHome
<1>2. ASSUME NEW w \in Worker, Called(w) PROVE Exclusive(CapturePc, "source")'
  BY <1>0, <1>2, SMTT(60) DEF Fields, Called, Moved, Alone, AfterHome, Filing, SetSlot, SetPlace
<1>3. ASSUME NEW w \in Worker, Noted(w) PROVE Exclusive(CapturePc, "source")'
  BY <1>0, <1>3 DEF Fields, Noted, Moved, Alone, SameAttempts, EntryType
<1>4. ASSUME NEW w \in Worker, Numbering(w) PROVE Exclusive(CapturePc, "source")'
  BY <1>0, <1>4 DEF Fields, Numbering, Alone, EntryType
<1>5. ASSUME NEW w \in Worker, Adopted(w) PROVE Exclusive(CapturePc, "source")'
  BY <1>0, <1>5 DEF Fields, Adopted, Alone, SameAttempts, EntryType
<1>6. ASSUME NEW w \in Worker, Beginning(w) PROVE Exclusive(CapturePc, "source")'
  BY <1>0, <1>6 DEF Fields, Beginning, Alone, SameAttempts, Fresh, EntryType
<1>7. ASSUME NEW w \in Worker, Ending(w) PROVE Exclusive(CapturePc, "source")'
  BY <1>0, <1>7 DEF Fields, Ending, Alone, Idle, SameAttempts, EntryType
<1>8. ASSUME NEW w \in Worker, Leaving(w) PROVE Exclusive(CapturePc, "source")'
  BY <1>0, <1>8 DEF Fields, Leaving, Alone, Idle
<1>9. ASSUME NEW w \in Worker, Taking(w) PROVE Exclusive(CapturePc, "source")'
  BY <1>0, <1>9 DEF Fields, Taking
<1>10. ASSUME NEW p \in Place, NEW c \in {None, Alien}, Tampering(p, c) PROVE Exclusive(CapturePc, "source")'
  BY <1>0, <1>10 DEF Fields, Tampering, SetPlace
<1>11. CASE UNCHANGED vars
  BY <1>11 DEF vars
<1> QED BY <1>1, <1>2, <1>3, <1>4, <1>5, <1>6, <1>7, <1>8, <1>9, <1>10, <1>11, Steps

\* ... and never a view.
LEMMA NextViewing ==
    ASSUME TypeOK, Numbered, Slots, ReadyToCapture, [Next]_vars
    PROVE  Exclusive(ViewPc, "view")'
<1> USE QuarantineTxAssumption DEF At, Doing, Holding, Slots, Exclusive, AnchorPc, CapturePc, ViewPc, Numbered, Gen, Slot
<1>0. Fields
  BY TypedFields
<1>1. ASSUME NEW w \in Worker, Looked(w) PROVE Exclusive(ViewPc, "view")'
  BY <1>0, <1>1 DEF Fields, Looked, Moved, Alone, AfterHome
<1>2. ASSUME NEW w \in Worker, Called(w) PROVE Exclusive(ViewPc, "view")'
  BY <1>0, <1>2, SMTT(30) DEF Fields, Called, Moved, Alone, AfterHome, Filing, SetSlot, SetPlace
<1>3. ASSUME NEW w \in Worker, Noted(w) PROVE Exclusive(ViewPc, "view")'
  BY <1>0, <1>3 DEF Fields, Noted, Moved, Alone, SameAttempts, EntryType
<1>4. ASSUME NEW w \in Worker, Numbering(w) PROVE Exclusive(ViewPc, "view")'
  BY <1>0, <1>4 DEF Fields, Numbering, Alone, EntryType
<1>5. ASSUME NEW w \in Worker, Adopted(w) PROVE Exclusive(ViewPc, "view")'
  BY <1>0, <1>5 DEF Fields, Adopted, Alone, SameAttempts, EntryType
<1>6. ASSUME NEW w \in Worker, Beginning(w) PROVE Exclusive(ViewPc, "view")'
  BY <1>0, <1>6 DEF Fields, Beginning, Alone, SameAttempts, Fresh, EntryType
<1>7. ASSUME NEW w \in Worker, Ending(w) PROVE Exclusive(ViewPc, "view")'
  BY <1>0, <1>7 DEF Fields, Ending, Alone, Idle, SameAttempts, EntryType
<1>8. ASSUME NEW w \in Worker, Leaving(w) PROVE Exclusive(ViewPc, "view")'
  BY <1>0, <1>8 DEF Fields, Leaving, Alone, Idle
<1>9. ASSUME NEW w \in Worker, Taking(w) PROVE Exclusive(ViewPc, "view")'
  BY <1>0, <1>9 DEF Fields, Taking
<1>10. ASSUME NEW p \in Place, NEW c \in {None, Alien}, Tampering(p, c) PROVE Exclusive(ViewPc, "view")'
  BY <1>0, <1>10 DEF Fields, Tampering, SetPlace
<1>11. CASE UNCHANGED vars
  BY <1>11 DEF vars
<1> QED BY <1>1, <1>2, <1>3, <1>4, <1>5, <1>6, <1>7, <1>8, <1>9, <1>10, <1>11, Steps

\* So links and renames always find empty slots.
LEMMA NextSlots ==
    ASSUME TypeOK, Numbered, Slots, ReadyToCapture, [Next]_vars
    PROVE  Slots'
BY NextAnchoring, NextCapturing, NextViewing DEF Slots

-----------------------------------------------------------------------------
(* The capture of the source.                                              *)

\* Nothing is captured before the public name is noted.
LEMMA NextNotCaptured ==
    ASSUME TypeOK, Numbered, Slots, NotCaptured, OwnerInPhase, RestoreIsSecond, [Next]_vars
    PROVE  NotCaptured'
<1> USE QuarantineTxAssumption DEF At, Doing, Holding, NotCaptured, EarlyPhase, Numbered, Gen, Slot, OwnerInPhase, Stands, PhaseOf, RestoreIsSecond, QuarantinePc
<1>0. Fields
  BY TypedFields
<1>1. ASSUME NEW w \in Worker, Looked(w) PROVE NotCaptured'
  BY <1>0, <1>1 DEF Fields, Looked, Moved, Alone, AfterHome
<1>2. ASSUME NEW w \in Worker, Called(w) PROVE NotCaptured'
  BY <1>0, <1>2 DEF Fields, Called, Moved, Alone, AfterHome, Filing, SetSlot, SetPlace
<1>3. ASSUME NEW w \in Worker, Noted(w) PROVE NotCaptured'
  BY <1>0, <1>3 DEF Fields, Noted, Moved, Alone, SameAttempts, EntryType
<1>4. ASSUME NEW w \in Worker, Numbering(w) PROVE NotCaptured'
  BY <1>0, <1>4 DEF Fields, Numbering, Alone, EntryType
<1>5. ASSUME NEW w \in Worker, Adopted(w) PROVE NotCaptured'
  BY <1>0, <1>5 DEF Fields, Adopted, Alone, SameAttempts, EntryType
<1>6. ASSUME NEW w \in Worker, Beginning(w) PROVE NotCaptured'
  BY <1>0, <1>6 DEF Fields, Beginning, Alone, SameAttempts, Fresh, EntryType
<1>7. ASSUME NEW w \in Worker, Ending(w) PROVE NotCaptured'
  BY <1>0, <1>7 DEF Fields, Ending, Alone, Idle, SameAttempts, EntryType
<1>8. ASSUME NEW w \in Worker, Leaving(w) PROVE NotCaptured'
  BY <1>0, <1>8 DEF Fields, Leaving, Alone, Idle
<1>9. ASSUME NEW w \in Worker, Taking(w) PROVE NotCaptured'
  BY <1>0, <1>9 DEF Fields, Taking
<1>10. ASSUME NEW p \in Place, NEW c \in {None, Alien}, Tampering(p, c) PROVE NotCaptured'
  BY <1>0, <1>10 DEF Fields, Tampering, SetPlace
<1>11. CASE UNCHANGED vars
  BY <1>11 DEF vars
<1> QED BY <1>1, <1>2, <1>3, <1>4, <1>5, <1>6, <1>7, <1>8, <1>9, <1>10, <1>11, Steps

\* Only the owner comes to the capture, with an attempt for itself.
LEMMA NextReady ==
    ASSUME TypeOK, Numbered, Slots, NotCaptured, ReadyToCapture, OwnerInPhase, Anchored, RestoreIsSecond, [Next]_vars
    PROVE  ReadyToCapture'
<1> USE QuarantineTxAssumption DEF At, Doing, Holding, ReadyToCapture, Unclaimed, Attempts, NotCaptured, EarlyPhase, Numbered, Gen, Slot, OwnerInPhase, Stands, AnchoredPc, Anchored, AnchoredPhase, PhaseOf, RestoreIsSecond, QuarantinePc
<1>0. Fields
  BY TypedFields
<1>1. ASSUME NEW w \in Worker, Looked(w) PROVE ReadyToCapture'
  BY <1>0, <1>1 DEF Fields, Looked, Moved, Alone, AfterHome
<1>2. ASSUME NEW w \in Worker, Called(w) PROVE ReadyToCapture'
  <2>1. entry' = entry /\ owner' = owner /\ Alone(w) /\ frame'[w].pc \notin {"capture", "fence_capture", "scan"}
    BY <1>2 DEF Called, Moved, AfterHome
  <2>2. \A g \in Gen : slot'[g]["source"] = slot[g]["source"] \/ (At(w, "capture") /\ frame[w].gen = g)
    BY <1>2 DEF Called, SetSlot, Filing
  <2>3. ASSUME NEW v \in Worker, v /= w, NEW g \in Gen, Unclaimed(v, g) PROVE Unclaimed(v, g)'
    BY <2>1, <2>2, <2>3 DEF Alone
  <2>4. ASSUME NEW v \in Worker, owner' = v, frame'[v].pc \in {"fence_capture", "scan"} PROVE v /= w /\ frame'[v] = frame[v]
    BY <2>1, <2>4 DEF Alone
  <2> QED BY <1>0, <2>1, <2>3, <2>4 DEF Fields
<1>3. ASSUME NEW w \in Worker, Noted(w) PROVE ReadyToCapture'
  BY <1>0, <1>3 DEF Fields, Noted, Moved, Alone, SameAttempts, EntryType
<1>4. ASSUME NEW w \in Worker, Numbering(w) PROVE ReadyToCapture'
  BY <1>0, <1>4 DEF Fields, Numbering, Alone, EntryType
<1>5. ASSUME NEW w \in Worker, Adopted(w) PROVE ReadyToCapture'
  BY <1>0, <1>5 DEF Fields, Adopted, Alone, SameAttempts, EntryType
<1>6. ASSUME NEW w \in Worker, Beginning(w) PROVE ReadyToCapture'
  BY <1>0, <1>6 DEF Fields, Beginning, Alone, SameAttempts, Fresh, EntryType
<1>7. ASSUME NEW w \in Worker, Ending(w) PROVE ReadyToCapture'
  BY <1>0, <1>7 DEF Fields, Ending, Alone, Idle, SameAttempts, EntryType
<1>8. ASSUME NEW w \in Worker, Leaving(w) PROVE ReadyToCapture'
  BY <1>0, <1>8 DEF Fields, Leaving, Alone, Idle
<1>9. ASSUME NEW w \in Worker, Taking(w) PROVE ReadyToCapture'
  BY <1>0, <1>9 DEF Fields, Taking
<1>10. ASSUME NEW p \in Place, NEW c \in {None, Alien}, Tampering(p, c) PROVE ReadyToCapture'
  BY <1>0, <1>10 DEF Fields, Tampering, SetPlace
<1>11. CASE UNCHANGED vars
  BY <1>11 DEF vars
<1> QED BY <1>1, <1>2, <1>3, <1>4, <1>5, <1>6, <1>7, <1>8, <1>9, <1>10, <1>11, Steps

-----------------------------------------------------------------------------
(* What leads to a file.                                                   *)

\* What a private name leads to stays: links and captures find their slots empty.
LEMMA FilledStays ==
    ASSUME TypeOK, Numbered, Slots, [Next]_vars
    PROVE  \A g \in Gen, s \in Slot : slot[g][s] /= None => slot'[g][s] = slot[g][s]
<1>1. ASSUME NEW w \in Worker, Called(w) PROVE \A g \in Gen, s \in Slot : slot[g][s] /= None => slot'[g][s] = slot[g][s]
  BY <1>1 DEF Called, Filing, SetSlot, Slots, Exclusive, AnchorPc, CapturePc, ViewPc, At, Slot
<1>2. UNCHANGED slot => \A g \in Gen, s \in Slot : slot[g][s] /= None => slot'[g][s] = slot[g][s]
  OBVIOUS
<1>3. \/ UNCHANGED slot
      \/ \E w \in Worker : Called(w)
  BY Steps DEF Looked, Noted, Numbering, Adopted, Beginning, Ending, Leaving, Taking, Tampering, vars
<1> QED BY <1>1, <1>2, <1>3

\* And a public name is given up only for a private one.
LEMMA PlaceStays ==
    ASSUME TypeOK, Numbered, Slots, [Next]_vars, tampers' = tampers, NEW p \in Place, place[p] /= None
    PROVE  place'[p] = place[p] \/ \E g \in Gen, s \in Slot : slot'[g][s] = place[p]
<1>1. ASSUME NEW w \in Worker, Called(w) PROVE place'[p] = place[p] \/ \E g \in Gen, s \in Slot : slot'[g][s] = place[p]
  <2>1. CASE UNCHANGED place
    BY <2>1
  <2>2. CASE \E q \in Place, c \in Content : place[q] = None /\ place' = [place EXCEPT ![q] = c]
    BY <2>2 DEF TypeOK
  <2>3. CASE \E q \in Place, pc \in Pc, s \in Slot : Filing(w, q, pc, s)
    BY <2>3 DEF Filing, SetSlot, SetPlace
  <2>4. At(w, "publish") \/ At(w, "put_home") => slot[frame[w].anchor]["anchor"] \in Content
    BY DEF At, Numbered, AnchoredPc, TypeOK, Slot
  <2> QED BY <1>1, <2>1, <2>2, <2>3, <2>4, PcNames DEF Called, Place, Slot
<1>2. UNCHANGED place => place'[p] = place[p] \/ \E g \in Gen, s \in Slot : slot'[g][s] = place[p]
  OBVIOUS
<1>3. \/ UNCHANGED place
      \/ \E w \in Worker : Called(w)
  <2>1. tampers' /= tampers + 1
    BY DEF TypeOK
  <2> QED BY <2>1, Steps DEF Looked, Noted, Numbering, Adopted, Beginning, Ending, Leaving, Taking, Tampering, vars
<1> QED BY <1>1, <1>2, <1>3

\* So a file that has a name keeps one, unless a user takes it.
LEMMA NextLinked ==
    ASSUME TypeOK, Numbered, Slots, [Next]_vars, tampers' = tampers, NEW c \in {Original, Alien}, Linked(c)
    PROVE  Linked(c)'
<1>1. c /= None
  BY QuarantineTxAssumption
<1>2. ASSUME NEW p \in Place, place[p] = c PROVE Linked(c)'
  BY <1>1, <1>2, PlaceStays DEF Linked
<1>3. ASSUME NEW g \in Gen, NEW s \in Slot, slot[g][s] = c PROVE Linked(c)'
  BY <1>1, <1>3, FilledStays DEF Linked
<1> QED BY <1>2, <1>3 DEF Linked

(* The first attempt is one of them.                                       *)
LEMMA FirstIsOne == ASSUME NEW S \in SUBSET Gen, S /= {} PROVE First(S) \in S
<1>1. S \subseteq Nat
  BY QuarantineTxAssumption DEF Gen
<1>2. PICK g \in S : \A h \in S : ~(<<h, g>> \in OpToRel(<, Nat))
  BY <1>1, NatLessThanWellFounded, WFMin
<1>3. ASSUME NEW h \in S PROVE g <= h
  <2>1. h \in Nat /\ g \in Nat
    BY <1>1
  <2>2. h < g => <<h, g>> \in OpToRel(<, Nat)
    BY <2>1 DEF OpToRel
  <2>3. ~(h < g)
    BY <1>2, <2>2
  <2> QED BY <2>1, <2>3
<1> QED BY <1>3 DEF First

\* The first that is filled is one of the entry's attempts.
LEMMA FirstFilled == ASSUME NEW s \in Slot, Filled(s) /= {} PROVE First(Filled(s)) \in Attempts
BY FirstIsOne DEF Filled, Attempts

\* A view that is found to be the original was captured.
LEMMA ViewsFound ==
    /\ Filled("view") /= {} /\ slot[First(Filled("view"))]["view"] = Original => CapturedView
    /\ NoView => Filled("view") = {}
BY FirstFilled DEF CapturedView, NoView, Filled, Slot, Attempts

\* A captured name remains one of the entry's.
LEMMA CapturedStays ==
    ASSUME TypeOK, Numbered, Slots, [Next]_vars, entry'.since = entry.since, entry'.gen \in Nat, entry.gen <= entry'.gen
    PROVE  /\ CapturedSource => CapturedSource'
           /\ CapturedView => CapturedView'
           /\ \A g \in Attempts : g \in Attempts' /\ (slot[g]["anchor"] = Original => slot'[g]["anchor"] = Original)
<1>1. \A g \in Attempts : g \in Gen /\ g \in Attempts'
  BY TypedFields, QuarantineTxAssumption DEF Attempts, Fields, Gen
<1>2. \A g \in Attempts, s \in Slot : slot[g][s] = Original => slot'[g][s] = Original
  BY <1>1, FilledStays, QuarantineTxAssumption
<1> QED BY <1>1, <1>2 DEF CapturedSource, CapturedView, Slot

-----------------------------------------------------------------------------
(* The entry, and where its owner stands.                                  *)

\* The owner's step fits the phase, whatever slow workers do.
LEMMA NextOwnerInPhase ==
    ASSUME TypeOK, Numbered, Slots, OwnerInPhase, Anchored, RestoreIsSecond, RestoringOwner, [Next]_vars
    PROVE  OwnerInPhase'
<1> USE QuarantineTxAssumption DEF At, Doing, Holding, OwnerInPhase, Stands, PhaseOf, AttemptPc, Attempts, AnchoredPc, CapturedSource, Recovering, Numbered, Gen, Slot, Anchored, AnchoredPhase, RestoreIsSecond, QuarantinePc, RestorePc, RestoringOwner
<1>0. Fields
  BY TypedFields
<1>1. ASSUME NEW w \in Worker, Looked(w) PROVE OwnerInPhase'
  <2>1. ASSUME NEW v \in Worker, v /= w, Holding(v), ~At(v, "idle") PROVE Stands(v)'
    BY <1>0, <1>1, <2>1 DEF Fields, Looked, Moved, Alone, AfterHome
  <2>2. ASSUME Holding(w), frame'[w].pc /= "idle" PROVE Stands(w)'
    <3>1. frame[w].pc /= "idle" /\ Stands(w)
      BY <1>1, <2>2 DEF Looked, Moved, Alone, AfterHome, FilePc
    <3>2. item'[frame'[w].op] = "executing" /\ (frame'[w].pc \in AnchoredPc => frame'[w].anchor = entry'.anchor)
      BY <1>0, <1>1, <2>2, <3>1 DEF Fields, Looked, Moved, Alone, AfterHome
    <3>3. frame'[w].op = "quarantine" => entry'.phase \in PhaseOf(frame'[w].pc)
      BY <1>0, <1>1, <2>2, <3>1 DEF Fields, Looked, Moved, Alone, AfterHome
    <3>4. frame'[w].pc \in AttemptPc => frame'[w].gen \in Attempts'
      BY <1>0, <1>1, <2>2, <3>1 DEF Fields, Looked, Moved, Alone, AfterHome
    <3>5. /\ frame'[w].via /= "recovery" /\ frame'[w].pc \in {"fence_public", "publish", "note_published"}
                => frame'[w].gen = entry'.anchor
      BY <1>0, <1>1, <2>2, <3>1 DEF Fields, Looked, Moved, Alone, AfterHome
    <3>6. frame'[w].pc \in {"look", "classify_public"} => frame'[w].via = "recovery"
      BY <1>0, <1>1, <2>2, <3>1 DEF Fields, Looked, Moved, Alone, AfterHome
    <3>7. frame'[w].pc = "promote" => slot'[frame'[w].gen]["anchor"] = Original
      BY <1>0, <1>1, <2>2, <3>1 DEF Fields, Looked, Moved, Alone, AfterHome
    <3>8. frame'[w].pc = "finalize" /\ frame'[w].op = "quarantine" => CapturedSource'
      BY <1>0, <1>1, <2>2, <3>1, FirstFilled DEF Fields, Looked, Moved, Alone, AfterHome
    <3> QED BY <3>2, <3>3, <3>4, <3>5, <3>6, <3>7, <3>8
  <2> QED BY <1>1, <2>1, <2>2 DEF Looked, Moved, Alone
<1>2. ASSUME NEW w \in Worker, Called(w) PROVE OwnerInPhase'
  <2>1. ASSUME NEW v \in Worker, v /= w, Holding(v), ~At(v, "idle") PROVE Stands(v)'
    BY <1>0, <1>2, <2>1, CapturedStays DEF Fields, Called, Moved, Alone, AfterHome, Filing, SetSlot, SetPlace
  <2>2. ASSUME Holding(w), frame'[w].pc /= "idle" PROVE Stands(w)'
    <3>1. frame[w].pc /= "idle" /\ Stands(w)
      BY <1>2, <2>2 DEF Called, Moved, Alone, AfterHome, Filing, SetSlot, SetPlace, FilePc
    <3>2. item'[frame'[w].op] = "executing" /\ (frame'[w].pc \in AnchoredPc => frame'[w].anchor = entry'.anchor)
      BY <1>0, <1>2, <2>2, <3>1 DEF Fields, Called, Moved, Alone, AfterHome, Filing, SetSlot, SetPlace
    <3>3. frame'[w].op = "quarantine" => entry'.phase \in PhaseOf(frame'[w].pc)
      BY <1>0, <1>2, <2>2, <3>1 DEF Fields, Called, Moved, Alone, AfterHome, Filing, SetSlot, SetPlace
    <3>4. frame'[w].pc \in AttemptPc => frame'[w].gen \in Attempts'
      BY <1>0, <1>2, <2>2, <3>1 DEF Fields, Called, Moved, Alone, AfterHome, Filing, SetSlot, SetPlace
    <3>5. /\ frame'[w].via /= "recovery" /\ frame'[w].pc \in {"fence_public", "publish", "note_published"}
                => frame'[w].gen = entry'.anchor
      BY <1>0, <1>2, <2>2, <3>1 DEF Fields, Called, Moved, Alone, AfterHome, Filing, SetSlot, SetPlace
    <3>6. frame'[w].pc \in {"look", "classify_public"} => frame'[w].via = "recovery"
      BY <1>0, <1>2, <2>2, <3>1 DEF Fields, Called, Moved, Alone, AfterHome, Filing, SetSlot, SetPlace
    <3>7. frame'[w].pc = "promote" => slot'[frame'[w].gen]["anchor"] = Original
      BY <1>0, <1>2, <2>2, <3>1 DEF Fields, Called, Moved, Alone, AfterHome, Filing, SetSlot, SetPlace
    <3>8. frame'[w].pc = "finalize" /\ frame'[w].op = "quarantine" => CapturedSource'
      BY <1>0, <1>2, <2>2, <3>1, CapturedStays DEF Fields, Called, Moved, Alone, AfterHome, Filing, SetSlot, SetPlace
    <3> QED BY <3>2, <3>3, <3>4, <3>5, <3>6, <3>7, <3>8
  <2> QED BY <1>2, <2>1, <2>2 DEF Called, Moved, Alone
<1>3. ASSUME NEW w \in Worker, Noted(w) PROVE OwnerInPhase'
  BY <1>0, <1>3 DEF Fields, Noted, Moved, Alone, SameAttempts, EntryType
<1>4. ASSUME NEW w \in Worker, Numbering(w) PROVE OwnerInPhase'
  BY <1>0, <1>4 DEF Fields, Numbering, Alone, EntryType
<1>5. ASSUME NEW w \in Worker, Adopted(w) PROVE OwnerInPhase'
  <2>1. ASSUME NEW v \in Worker, v /= w, Holding(v), ~At(v, "idle") PROVE Stands(v)'
    BY <1>0, <1>5, <2>1 DEF Fields, Adopted, Alone, SameAttempts, EntryType, Candidate
  <2>2. ASSUME Holding(w), frame'[w].pc /= "idle" PROVE Stands(w)'
    <3>1. frame[w].pc /= "idle" /\ Stands(w)
      BY <1>5, <2>2 DEF Adopted, Alone, SameAttempts, EntryType, Candidate, FilePc
    <3>2. item'[frame'[w].op] = "executing" /\ (frame'[w].pc \in AnchoredPc => frame'[w].anchor = entry'.anchor)
      BY <1>0, <1>5, <2>2, <3>1 DEF Fields, Adopted, Alone, SameAttempts, EntryType, Candidate
    <3>3. frame'[w].op = "quarantine" => entry'.phase \in PhaseOf(frame'[w].pc)
      BY <1>0, <1>5, <2>2, <3>1 DEF Fields, Adopted, Alone, SameAttempts, EntryType, Candidate
    <3>4. frame'[w].pc \in AttemptPc => frame'[w].gen \in Attempts'
      BY <1>0, <1>5, <2>2, <3>1 DEF Fields, Adopted, Alone, SameAttempts, EntryType, Candidate
    <3>5. /\ frame'[w].via /= "recovery" /\ frame'[w].pc \in {"fence_public", "publish", "note_published"}
                => frame'[w].gen = entry'.anchor
      BY <1>0, <1>5, <2>2, <3>1 DEF Fields, Adopted, Alone, SameAttempts, EntryType, Candidate
    <3>6. frame'[w].pc \in {"look", "classify_public"} => frame'[w].via = "recovery"
      BY <1>0, <1>5, <2>2, <3>1 DEF Fields, Adopted, Alone, SameAttempts, EntryType, Candidate
    <3>7. frame'[w].pc = "promote" => slot'[frame'[w].gen]["anchor"] = Original
      BY <1>0, <1>5, <2>2, <3>1 DEF Fields, Adopted, Alone, SameAttempts, EntryType, Candidate
    <3>8. frame'[w].pc = "finalize" /\ frame'[w].op = "quarantine" => CapturedSource'
      BY <1>0, <1>5, <2>2, <3>1, FirstFilled DEF Fields, Adopted, Alone, SameAttempts, EntryType, Candidate
    <3> QED BY <3>2, <3>3, <3>4, <3>5, <3>6, <3>7, <3>8
  <2> QED BY <1>5, <2>1, <2>2 DEF Adopted, Alone
<1>6. ASSUME NEW w \in Worker, Beginning(w) PROVE OwnerInPhase'
  BY <1>0, <1>6 DEF Fields, Beginning, Alone, SameAttempts, Fresh, EntryType
<1>7. ASSUME NEW w \in Worker, Ending(w) PROVE OwnerInPhase'
  BY <1>0, <1>7 DEF Fields, Ending, Alone, Idle, SameAttempts, EntryType
<1>8. ASSUME NEW w \in Worker, Leaving(w) PROVE OwnerInPhase'
  BY <1>0, <1>8 DEF Fields, Leaving, Alone, Idle
<1>9. ASSUME NEW w \in Worker, Taking(w) PROVE OwnerInPhase'
  BY <1>0, <1>9 DEF Fields, Taking
<1>10. ASSUME NEW p \in Place, NEW c \in {None, Alien}, Tampering(p, c) PROVE OwnerInPhase'
  BY <1>0, <1>10 DEF Fields, Tampering, SetPlace
<1>11. CASE UNCHANGED vars
  BY <1>11 DEF vars
<1> QED BY <1>1, <1>2, <1>3, <1>4, <1>5, <1>6, <1>7, <1>8, <1>9, <1>10, <1>11, Steps

\* A promoted anchor stays.
LEMMA NextAnchored ==
    ASSUME TypeOK, Numbered, Slots, OwnerInPhase, Anchored, RestoreIsSecond, RestoringOwner, [Next]_vars
    PROVE  Anchored'
<1> USE QuarantineTxAssumption DEF At, Doing, Holding, OwnerInPhase, Stands, PhaseOf, AttemptPc, Attempts, Recovering, Numbered, Gen, Slot, Anchored, AnchoredPhase, RestoreIsSecond, RestoringOwner, Restores, RestorePc, QuarantinePc
<1>0. Fields
  BY TypedFields
<1>1. ASSUME NEW w \in Worker, Looked(w) PROVE Anchored'
  BY <1>0, <1>1 DEF Fields, Looked, Moved, Alone, AfterHome
<1>2. ASSUME NEW w \in Worker, Called(w) PROVE Anchored'
  BY <1>0, <1>2, CapturedStays DEF Fields, Called, Moved, Alone
<1>3. ASSUME NEW w \in Worker, Noted(w) PROVE Anchored'
  BY <1>0, <1>3 DEF Fields, Noted, Moved, Alone, SameAttempts, EntryType
<1>4. ASSUME NEW w \in Worker, Numbering(w) PROVE Anchored'
  BY <1>0, <1>4 DEF Fields, Numbering, Alone, EntryType
<1>5. ASSUME NEW w \in Worker, Adopted(w) PROVE Anchored'
  BY <1>0, <1>5 DEF Fields, Adopted, Alone, SameAttempts, EntryType
<1>6. ASSUME NEW w \in Worker, Beginning(w) PROVE Anchored'
  BY <1>0, <1>6 DEF Fields, Beginning, Alone, SameAttempts, Fresh, EntryType
<1>7. ASSUME NEW w \in Worker, Ending(w) PROVE Anchored'
  BY <1>0, <1>7 DEF Fields, Ending, Alone, Idle, SameAttempts, EntryType
<1>8. ASSUME NEW w \in Worker, Leaving(w) PROVE Anchored'
  BY <1>0, <1>8 DEF Fields, Leaving, Alone, Idle
<1>9. ASSUME NEW w \in Worker, Taking(w) PROVE Anchored'
  BY <1>0, <1>9 DEF Fields, Taking
<1>10. ASSUME NEW p \in Place, NEW c \in {None, Alien}, Tampering(p, c) PROVE Anchored'
  BY <1>0, <1>10 DEF Fields, Tampering, SetPlace
<1>11. CASE UNCHANGED vars
  BY <1>11 DEF vars
<1> QED BY <1>1, <1>2, <1>3, <1>4, <1>5, <1>6, <1>7, <1>8, <1>9, <1>10, <1>11, Steps

-----------------------------------------------------------------------------
(* The restore.                                                            *)

\* A restore follows a completed quarantine.
LEMMA NextRestoreIsSecond ==
    ASSUME TypeOK, Numbered, Slots, OwnerInPhase, Anchored, RestoreIsSecond, RestoringOwner, [Next]_vars
    PROVE  RestoreIsSecond'
<1> USE QuarantineTxAssumption DEF At, Doing, Holding, OwnerInPhase, Stands, PhaseOf, Recovering, Numbered, Gen, Slot, Anchored, AnchoredPhase, Attempts, RestoreIsSecond, QuarantinePc, RestorePc, NoView, RestoringOwner, Restores
<1>0. Fields
  BY TypedFields
<1>1. ASSUME NEW w \in Worker, Looked(w) PROVE RestoreIsSecond'
  BY <1>0, <1>1 DEF Fields, Looked, Moved, Alone, AfterHome
<1>2. ASSUME NEW w \in Worker, Called(w) PROVE RestoreIsSecond'
  BY <1>0, <1>2, SMTT(60) DEF Fields, Called, Moved, Alone, AfterHome, Filing, SetSlot, SetPlace
<1>3. ASSUME NEW w \in Worker, Noted(w) PROVE RestoreIsSecond'
  BY <1>0, <1>3 DEF Fields, Noted, Moved, Alone, SameAttempts, EntryType
<1>4. ASSUME NEW w \in Worker, Numbering(w) PROVE RestoreIsSecond'
  BY <1>0, <1>4 DEF Fields, Numbering, Alone, EntryType
<1>5. ASSUME NEW w \in Worker, Adopted(w) PROVE RestoreIsSecond'
  BY <1>0, <1>5 DEF Fields, Adopted, Alone, SameAttempts, EntryType
<1>6. ASSUME NEW w \in Worker, Beginning(w) PROVE RestoreIsSecond'
  <2>1. frame'[w].op \in Op
    BY <1>6, FrameFields DEF Beginning, Alone, FrameType
  <2> QED BY <1>0, <1>6, <2>1 DEF Fields, Beginning, Alone, SameAttempts, Fresh, EntryType, Op
<1>7. ASSUME NEW w \in Worker, Ending(w) PROVE RestoreIsSecond'
  <2>1. Stands(w) /\ \A v \in Worker \ {w} : frame'[v] = frame[v]
    BY <1>7 DEF Ending, Alone
  <2>2. frame'[w].op = "quarantine" /\ frame'[w].pc = "idle"
    BY <1>7 DEF Ending, Idle
  <2>3. CASE Doing(w, "quarantine")
    BY <1>0, <1>7, <2>1, <2>2, <2>3 DEF Fields, Ending, SameAttempts, Op
  <2>4. CASE Doing(w, "restore")
    BY <1>0, <1>7, <2>1, <2>2, <2>4 DEF Fields, Ending, SameAttempts, Op
  <2> QED BY <1>0, <2>3, <2>4 DEF Fields, Op
<1>8. ASSUME NEW w \in Worker, Leaving(w) PROVE RestoreIsSecond'
  BY <1>0, <1>8 DEF Fields, Leaving, Alone, Idle
<1>9. ASSUME NEW w \in Worker, Taking(w) PROVE RestoreIsSecond'
  BY <1>0, <1>9 DEF Fields, Taking
<1>10. ASSUME NEW p \in Place, NEW c \in {None, Alien}, Tampering(p, c) PROVE RestoreIsSecond'
  BY <1>0, <1>10 DEF Fields, Tampering, SetPlace
<1>11. CASE UNCHANGED vars
  BY <1>11 DEF vars
<1> QED BY <1>1, <1>2, <1>3, <1>4, <1>5, <1>6, <1>7, <1>8, <1>9, <1>10, <1>11, Steps

\* The restore of the owner knows whether a view was captured.
LEMMA NextRestoringOwner ==
    ASSUME TypeOK, Numbered, Slots, OwnerInPhase, Anchored, RestoreIsSecond, RestoringOwner, [Next]_vars
    PROVE  RestoringOwner'
<1> USE QuarantineTxAssumption DEF AttemptPc, At, Doing, Holding, OwnerInPhase, Stands, PhaseOf, Recovering, Numbered, Gen, Slot, Attempts, RestoreIsSecond, QuarantinePc, RestorePc, BeforeView, NoView, CapturedView, RestoringOwner, Restores
<1>0. Fields
  BY TypedFields
<1>1. ASSUME NEW w \in Worker, Looked(w) PROVE RestoringOwner'
  <2>1. ASSUME NEW v \in Worker, v /= w, Holding(v), ~At(v, "idle"), Doing(v, "restore") PROVE Restores(v)'
    BY <1>0, <1>1, <2>1 DEF Fields, Looked, Moved, Alone, AfterHome
  <2>2. ASSUME Holding(w), frame'[w].pc /= "idle", frame'[w].op = "restore" PROVE Restores(w)'
    <3>0. frame[w].pc /= "idle" /\ Doing(w, "restore")
      BY <1>1, <2>2 DEF Looked, Moved, Alone, AfterHome, FilePc
    <3> Stands(w) /\ Restores(w)
      BY <2>2, <3>0
    <3>1. frame'[w].via /= "recovery" => \A v \in Worker : v /= w => frame'[v].op = "quarantine"
      BY <1>0, <1>1, <2>2, <3>0 DEF Fields, Looked, Moved, Alone, AfterHome
    <3>2. frame'[w].via /= "recovery" /\ frame'[w].pc \in BeforeView => NoView'
      BY <1>0, <1>1, <2>2, <3>0, ViewsFound DEF Fields, Looked, Moved, Alone, AfterHome
    <3>3. frame'[w].via = "recovery" /\ frame'[w].pc \in {"destination", "fence_home", "put_home"} => CapturedView'
      BY <1>0, <1>1, <2>2, <3>0, ViewsFound DEF Fields, Looked, Moved, Alone, AfterHome
    <3>4. frame'[w].pc = "finalize" => CapturedView'
      BY <1>0, <1>1, <2>2, <3>0, ViewsFound DEF Fields, Looked, Moved, Alone, AfterHome
    <3>5. frame'[w].pc \in RestorePc \cup {"look", "finalize"} => entry'.phase = "restoring"
      BY <1>0, <1>1, <2>2, <3>0 DEF Fields, Looked, Moved, Alone, AfterHome
    <3> QED BY <3>1, <3>2, <3>3, <3>4, <3>5
  <2> QED BY <1>1, <2>1, <2>2 DEF Looked, Moved, Alone
<1>2. ASSUME NEW w \in Worker, Called(w) PROVE RestoringOwner'
  <2>1. ASSUME NEW v \in Worker, v /= w, Holding(v), ~At(v, "idle"), Doing(v, "restore") PROVE Restores(v)'
    <3>1. /\ entry' = entry /\ \A u \in Worker : frame'[u].op = frame[u].op
          /\ frame'[v] = frame[v]
      BY <1>2, <2>1 DEF Called, Moved, Alone
    <3>2. CapturedView => CapturedView'
      <4>1. entry'.since = entry.since /\ entry'.gen \in Nat /\ entry.gen <= entry'.gen
        BY <1>0, <3>1 DEF Fields
      <4> QED BY <4>1, CapturedStays
    <3>3. Doing(w, "quarantine") /\ NoView => NoView'
      <4>1. Doing(w, "quarantine") => ~At(w, "view")
        OBVIOUS
      <4>2. ~At(w, "view") => \A g \in Gen : slot'[g]["view"] = slot[g]["view"]
        BY <1>2 DEF Called, SetSlot, Filing
      <4> QED BY <4>1, <4>2
    <3>4. ~Recovering(v) => Doing(w, "quarantine")
      BY <2>1
    <3> QED BY <2>1, <3>1, <3>2, <3>3, <3>4
  <2>2. ASSUME Holding(w), frame'[w].pc /= "idle", frame'[w].op = "restore" PROVE Restores(w)'
    <3>0. frame[w].pc /= "idle" /\ Doing(w, "restore")
      BY <1>2, <2>2 DEF Called, Moved, Alone, AfterHome, Filing, SetSlot, SetPlace, FilePc
    <3> Stands(w) /\ Restores(w)
      BY <2>2, <3>0
    <3>1. frame'[w].via /= "recovery" => \A v \in Worker : v /= w => frame'[v].op = "quarantine"
      BY <1>0, <1>2, <2>2, <3>0 DEF Fields, Called, Moved, Alone, AfterHome, Filing, SetSlot, SetPlace
    <3>2. frame'[w].via /= "recovery" /\ frame'[w].pc \in BeforeView => NoView'
      BY <1>0, <1>2, <2>2, <3>0, CapturedStays, ViewsFound DEF Fields, Called, Moved, Alone, AfterHome, Filing, SetSlot, SetPlace
    <3>3. frame'[w].via = "recovery" /\ frame'[w].pc \in {"destination", "fence_home", "put_home"} => CapturedView'
      BY <1>0, <1>2, <2>2, <3>0, CapturedStays, ViewsFound DEF Fields, Called, Moved, Alone, AfterHome, Filing, SetSlot, SetPlace
    <3>4. frame'[w].pc = "finalize" => CapturedView'
      BY <1>0, <1>2, <2>2, <3>0, CapturedStays, ViewsFound DEF Fields, Called, Moved, Alone, AfterHome, Filing, SetSlot, SetPlace
    <3>5. frame'[w].pc \in RestorePc \cup {"look", "finalize"} => entry'.phase = "restoring"
      BY <1>0, <1>2, <2>2, <3>0 DEF Fields, Called, Moved, Alone, AfterHome, Filing, SetSlot, SetPlace
    <3> QED BY <3>1, <3>2, <3>3, <3>4, <3>5
  <2> QED BY <1>2, <2>1, <2>2 DEF Called, Moved, Alone
<1>3. ASSUME NEW w \in Worker, Noted(w) PROVE RestoringOwner'
  BY <1>0, <1>3 DEF Fields, Noted, Moved, Alone, SameAttempts, EntryType
<1>4. ASSUME NEW w \in Worker, Numbering(w) PROVE RestoringOwner'
  BY <1>0, <1>4 DEF Fields, Numbering, Alone, EntryType
<1>5. ASSUME NEW w \in Worker, Adopted(w) PROVE RestoringOwner'
  BY <1>0, <1>5 DEF Fields, Adopted, Alone, SameAttempts, EntryType
<1>6. ASSUME NEW w \in Worker, Beginning(w) PROVE RestoringOwner'
  BY <1>0, <1>6 DEF Fields, Beginning, Alone, SameAttempts, Fresh, EntryType
<1>7. ASSUME NEW w \in Worker, Ending(w) PROVE RestoringOwner'
  BY <1>0, <1>7 DEF Fields, Ending, Alone, Idle, SameAttempts, EntryType
<1>8. ASSUME NEW w \in Worker, Leaving(w) PROVE RestoringOwner'
  BY <1>0, <1>8 DEF Fields, Leaving, Alone, Idle
<1>9. ASSUME NEW w \in Worker, Taking(w) PROVE RestoringOwner'
  BY <1>0, <1>9 DEF Fields, Taking
<1>10. ASSUME NEW p \in Place, NEW c \in {None, Alien}, Tampering(p, c) PROVE RestoringOwner'
  BY <1>0, <1>10 DEF Fields, Tampering, SetPlace
<1>11. CASE UNCHANGED vars
  BY <1>11 DEF vars
<1> QED BY <1>1, <1>2, <1>3, <1>4, <1>5, <1>6, <1>7, <1>8, <1>9, <1>10, <1>11, Steps

-----------------------------------------------------------------------------
(* The names a user sees.                                                  *)

\* The public names follow the phase while nobody meddles.
LEMMA NextVisible ==
    ASSUME TypeOK, Numbered, Slots, NotCaptured, ReadyToCapture, OwnerInPhase, Anchored, RestoreIsSecond, RestoringOwner, Visible, [Next]_vars
    PROVE  Visible'
<1> USE QuarantineTxAssumption DEF AttemptPc, AnchoredPc, At, Doing, Holding, OwnerInPhase, Stands, PhaseOf, Recovering, Numbered, Gen, Slot, Attempts, Anchored, AnchoredPhase, RestoreIsSecond, QuarantinePc, RestorePc, BeforeView, NoView, NotCaptured, EarlyPhase, RestoringOwner, Restores, Undisturbed, UncapturedHome, Visible, Place
<1>0. Fields
  BY TypedFields
<1>1. ASSUME NEW w \in Worker, Looked(w) PROVE Visible'
  <2> SUFFICES ASSUME Undisturbed PROVE Visible'
    BY <1>1 DEF Looked
  <2>1. frame'[w].pc = "note_published" => place["public"] = Original
    BY <1>1 DEF Looked, AfterHome
  <2>2. Holding(w) /\ frame'[w].pc = "finalize" /\ frame'[w].op = "restore" => place["home"] = Original
    <3>1. place["home"] \in {None, Original}
      BY <1>0 DEF Fields, Content
    <3>2. Holding(w) /\ Doing(w, "restore") /\ frame[w].pc /= "idle" => entry.phase /= "authoritative_anchored"
      OBVIOUS
    <3>3. Doing(w, "restore") => ~At(w, "check_captured")
      OBVIOUS
    <3> QED BY <1>1, <3>1, <3>3 DEF Looked, Moved, AfterHome
  <2> QED BY <1>1, <2>1, <2>2 DEF Looked, Moved, Alone
<1>2. ASSUME NEW w \in Worker, Called(w) PROVE Visible'
  <2> SUFFICES ASSUME Undisturbed, Holding(w), Undisturbed' PROVE Visible'
    BY <1>2 DEF Called, TypeOK
  <2>0. frame[w].pc /= "idle" /\ entry' = entry /\ owner' = owner
    BY <1>2 DEF Called, Filing
  <2> Stands(w)
    BY <2>0
  <2>1. At(w, "publish") \/ At(w, "put_home") => slot[frame[w].anchor]["anchor"] = Original
    <3>1. At(w, "publish") => entry.phase = "authoritative_anchored"
      OBVIOUS
    <3>2. At(w, "put_home") => entry.phase = "restoring"
      BY <2>0
    <3> QED BY <3>1, <3>2
  <2>2. (\A p \in Place : place'[p] /= Alien) /\ (\A g \in Gen, s \in Slot : slot'[g][s] /= Alien)
    <3>1. \A p \in Place : place[p] /= Alien
      OBVIOUS
    <3>2. \A g \in Gen, s \in Slot : slot[g][s] /= Alien
      OBVIOUS
    <3> HIDE DEF Visible, Stands, OwnerInPhase, Numbered, NotCaptured, Anchored, RestoreIsSecond, RestoringOwner
    <3>3. place \in [Place -> Content]
      BY DEF TypeOK
    <3> QED BY <1>2, <2>1, <3>1, <3>2, <3>3 DEF Called, Filing, SetSlot, SetPlace
  <2>3. entry.phase \in EarlyPhase \cup {"public_published", "source_captured"} => place'["home"] = UncapturedHome'
    <3>1. CASE Filing(w, "home", "capture", "source")
      <4>1. frame[w].gen \in Attempts' /\ slot'[frame[w].gen]["source"] /= None /\ place'["home"] = None
        BY <2>0, <3>1 DEF Filing, SetSlot, SetPlace
      <4> QED BY <4>1
    <3>2. CASE At(w, "put_home")
      BY <2>0, <3>2
    <3>3. ASSUME ~At(w, "put_home"), ~Filing(w, "home", "capture", "source")
          PROVE  place'["home"] = place["home"] /\ \A g \in Gen : slot'[g]["source"] = slot[g]["source"]
      BY <1>0, <1>2, <3>3 DEF Called, Filing, SetSlot, SetPlace, TypeOK
    <3>4. ASSUME ~At(w, "put_home"), ~Filing(w, "home", "capture", "source") PROVE UncapturedHome' = UncapturedHome
      BY <2>0, <3>3, <3>4
    <3> QED BY <2>0, <3>1, <3>2, <3>3, <3>4
  <2>4. entry.phase \in {"public_published", "source_captured"} => place'["public"] = Original
    BY <1>0, <1>2, <2>0, <2>1 DEF Fields, Called, Filing, SetSlot, SetPlace
  <2>5. entry.phase = "restoring" /\ (\E g \in Attempts : slot'[g]["view"] /= None) => place'["public"] = None
    <3>1. CASE Filing(w, "public", "view", "view")
      BY <3>1 DEF Filing, SetPlace
    <3>2. entry.phase = "restoring" => ~At(w, "publish") /\ ~At(w, "capture")
      BY <2>0
    <3>3. ASSUME ~Filing(w, "public", "view", "view"), entry.phase = "restoring"
          PROVE  place'["public"] = place["public"] /\ \A g \in Gen : slot'[g]["view"] = slot[g]["view"]
      BY <1>0, <1>2, <3>2, <3>3 DEF Called, Filing, SetSlot, SetPlace, TypeOK
    <3> QED BY <3>1, <3>3
  <2>6. frame'[w].pc = "note_published" => place'["public"] = Original
    BY <1>0, <1>2, <2>0, <2>1 DEF Fields, Called, AfterHome, TypeOK
  <2>7. frame'[w].pc = "finalize" => place'["home"] = Original
    BY <1>0, <1>2, <2>0, <2>1 DEF Fields, Called, AfterHome, TypeOK
  <2>8. \A v \in Worker : owner' = v => v = w
    BY <2>0
  <2> QED BY <2>0, <2>2, <2>3, <2>4, <2>5, <2>6, <2>7, <2>8
<1>3. ASSUME NEW w \in Worker, Noted(w) PROVE Visible'
  BY <1>0, <1>3 DEF Fields, Noted, Moved, Alone, SameAttempts, EntryType
<1>4. ASSUME NEW w \in Worker, Numbering(w) PROVE Visible'
  BY <1>0, <1>4 DEF Fields, Numbering, Alone, EntryType
<1>5. ASSUME NEW w \in Worker, Adopted(w) PROVE Visible'
  BY <1>0, <1>5 DEF Fields, Adopted, Alone, SameAttempts, EntryType
<1>6. ASSUME NEW w \in Worker, Beginning(w) PROVE Visible'
  BY <1>0, <1>6 DEF Fields, Beginning, Alone, SameAttempts, Fresh, EntryType
<1>7. ASSUME NEW w \in Worker, Ending(w) PROVE Visible'
  BY <1>0, <1>7 DEF Fields, Ending, Alone, Idle, SameAttempts, EntryType
<1>8. ASSUME NEW w \in Worker, Leaving(w) PROVE Visible'
  BY <1>0, <1>8 DEF Fields, Leaving, Alone, Idle
<1>9. ASSUME NEW w \in Worker, Taking(w) PROVE Visible'
  BY <1>0, <1>9 DEF Fields, Taking
<1>10. ASSUME NEW p \in Place, NEW c \in {None, Alien}, Tampering(p, c) PROVE Visible'
  <2>1. tampers' /= 0
    BY <1>10 DEF Tampering, TypeOK
  <2> QED BY <2>1
<1>11. CASE UNCHANGED vars
  BY <1>11 DEF vars
<1> QED BY <1>1, <1>2, <1>3, <1>4, <1>5, <1>6, <1>7, <1>8, <1>9, <1>10, <1>11, Steps

-----------------------------------------------------------------------------
(* The theorems.                                                           *)

\* The invariant is inductive.
LEMMA NextIInv == IInv /\ [Next]_vars => IInv'
<1> SUFFICES ASSUME IInv, [Next]_vars PROVE IInv'
  OBVIOUS
<1>1. TypeOK' /\ Numbered' /\ Slots'
  BY NextTypeOK, NextNumbered, NextSlots DEF IInv
<1>2. NotCaptured' /\ ReadyToCapture'
  BY NextNotCaptured, NextReady DEF IInv
<1>3. OwnerInPhase' /\ Anchored' /\ RestoreIsSecond' /\ RestoringOwner'
  BY NextOwnerInPhase, NextAnchored, NextRestoreIsSecond, NextRestoringOwner DEF IInv
<1>4. Visible'
  BY NextVisible DEF IInv
<1> QED BY <1>1, <1>2, <1>3, <1>4 DEF IInv

\* The invariant holds in every reachable state.
LEMMA AlwaysIInv == Spec => []IInv
BY InitIInv, NextIInv, PTL DEF Spec

(* Every variable has the values the code gives it: the row, the items,    *)
(* the names on disk and what each worker is in the middle of.             *)
THEOREM QuarantineTypeCorrect == Spec => []TypeOK
<1>1. IInv => TypeOK
  BY DEF IInv
<1> QED BY <1>1, AlwaysIInv, PTL

(* Whatever the workers do, late, crashed or recovering, none of their     *)
(* calls takes the last name away from the payload or from a user's file:  *)
(* links and renames only go to slots that are empty.                      *)
THEOREM QuarantineDestroysNothing == Spec => NothingDestroyed
<1>1. IInv /\ [Next]_vars => [\A c \in {Original, Alien} : Linked(c) /\ tampers' = tampers => Linked(c)']_vars
  BY NextLinked DEF IInv
<1> QED BY <1>1, AlwaysIInv, PTL DEF Spec, NothingDestroyed

\* An entry turns active at the end of a quarantine of its owner.
LEMMA ActiveStep ==
    ASSUME IInv, [Next]_vars, entry.state = "preparing", entry'.state = "active"
    PROVE  /\ slot[entry.anchor]["anchor"] = Original
           /\ \E g \in Attempts : slot[g]["source"] = Original
           /\ Undisturbed => place["home"] = None /\ place["public"] = Original
<1>1. PICK w \in Worker : Noted(w) /\ At(w, "finalize") /\ Doing(w, "quarantine")
  BY Steps DEF IInv, Looked, Called, Noted, Numbering, Adopted, Beginning, Fresh, Ending, Leaving, Taking, Tampering, vars
<1>2. Stands(w)
  BY <1>1 DEF IInv, OwnerInPhase, Noted, At
<1>3. entry.phase \in {"public_published", "source_captured"} /\ CapturedSource
  BY <1>1, <1>2 DEF Stands, PhaseOf, At
<1>4. slot[entry.anchor]["anchor"] = Original
  BY <1>3 DEF IInv, Anchored, AnchoredPhase
<1>5. Undisturbed => place["home"] = None /\ place["public"] = Original
  BY <1>3, QuarantineTxAssumption DEF IInv, Visible, UncapturedHome, CapturedSource
<1> QED BY <1>3, <1>4, <1>5 DEF CapturedSource

\* And restored at the end of a restore of its owner.
LEMMA RestoredStep ==
    ASSUME IInv, [Next]_vars, entry.state /= "restored", entry'.state = "restored"
    PROVE  /\ \E g \in Attempts : slot[g]["view"] = Original
           /\ Undisturbed => place["public"] = None /\ place["home"] = Original
<1>1. PICK w \in Worker : Noted(w) /\ At(w, "finalize") /\ Doing(w, "restore")
  BY Steps DEF IInv, Looked, Called, Noted, Numbering, Adopted, Beginning, Fresh, Ending, Leaving, Taking, Tampering, vars
<1>2. Restores(w) /\ Holding(w)
  BY <1>1 DEF IInv, RestoringOwner, Noted, At
<1>3. entry.phase = "restoring" /\ CapturedView
  BY <1>1, <1>2 DEF Restores, At
<1>4. Undisturbed => place["public"] = None
  BY <1>3, QuarantineTxAssumption DEF IInv, Visible, CapturedView
<1>5. Undisturbed => place["home"] = Original
  BY <1>1, <1>2 DEF IInv, Visible
<1> QED BY <1>3, <1>4, <1>5 DEF CapturedView

(* An entry only becomes active with a qualified anchor and a qualified    *)
(* captured source, only restored with the public name captured, and the   *)
(* paths a user sees agree with it when nobody meddled: for any number of  *)
(* workers, attempts, crashes, takeovers and changes by users.             *)
THEOREM QuarantineTruthful == Spec => TruthfulEntry
<1>1. IInv /\ [Next]_vars =>
        [/\ entry.state = "preparing" /\ entry'.state = "active" =>
              /\ slot[entry.anchor]["anchor"] = Original
              /\ \E g \in Attempts : slot[g]["source"] = Original
              /\ Undisturbed => place["home"] = None /\ place["public"] = Original
         /\ entry.state /= "restored" /\ entry'.state = "restored" =>
              /\ \E g \in Attempts : slot[g]["view"] = Original
              /\ Undisturbed => place["public"] = None /\ place["home"] = Original]_vars
  BY ActiveStep, RestoredStep
<1> QED BY <1>1, AlwaysIInv, PTL DEF Spec, TruthfulEntry

=============================================================================
