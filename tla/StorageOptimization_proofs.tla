---------------------- MODULE StorageOptimization_proofs ----------------------
(***************************************************************************)
(* StorageOptimization for any number of workers, faults and changes by    *)
(* users.  A worker without the lease cannot write the journal, and marks  *)
(* its changes of files as late; so the argument follows the lease: what   *)
(* the place of its owner says of the journal and of the names.            *)
(***************************************************************************)
EXTENDS StorageOptimization, TLAPS

-----------------------------------------------------------------------------
(* The invariant.  The owner of the lease has been the owner since it was  *)
(* idle, so each of its places has looked at what the next one relies on.  *)

OwnerAt(places) == frame[owner] \in places

(* The places after the publication.                                       *)
Retiring == {"old_retire_intent", "look_retire", "fence_old", "unlink_old", "completed"}
PastPublication == {"recheck", "look_alias", "fence_alias", "unlink_alias"} \cup Retiring

(* The journal knows of the publication and of the completion, and the     *)
(* completion has brought its audit event.                                 *)
Recorded ==
    /\ OwnerAt(PastPublication) => Journalled("published")
    /\ OwnerAt({"done"}) => Journalled("completed")
    /\ audits = IF Journalled("completed") THEN 1 ELSE 0

(* A name is unlinked only while another one leads to the same file, or to *)
(* the replacement, unless a worker without the lease interferes.          *)
Covered ==
    ~late =>
       /\ OwnerAt({"fence_retire", "unlink_source"}) => place["source"] = Original /\ place["old"] = Original
       /\ OwnerAt({"fence_alias", "unlink_alias"}) => place["new"] = place["source"]
       /\ OwnerAt({"fence_old", "unlink_old"}) => place["source"] = Replacement

(* What the names may lead to if nobody else touches them.                 *)
Names ==
    /\ place["keep"] = Kept
    /\ place["new"] \in {None, Replacement} \/ (place["new"] = Partial /\ kind = "reflink")
    /\ place["old"] \in {None, Original}
    /\ place["source"] \in {Original, Replacement} \/ (place["source"] = None /\ place["old"] = Original)

(* And what the owner has made sure of.                                    *)
Prepared ==
    /\ OwnerAt({"fence_capture", "link_old"}) => place["source"] = Original
    /\ OwnerAt({"fence_publish", "link_source"}) => place["new"] = Replacement
    /\ OwnerAt({"look_alias", "fence_alias", "unlink_alias"} \cup Retiring) => place["source"] = Replacement
    /\ OwnerAt(Retiring) => place["new"] = None
    /\ OwnerAt({"completed"}) => place["old"] = None
    /\ Journalled("completed") => /\ OwnerAt({"idle", "done"})
                                  /\ place["source"] = Replacement /\ place["new"] = None /\ place["old"] = None

Invariant == TypeOK /\ Recorded /\ Covered /\ (Undisturbed => Names /\ Prepared)

-----------------------------------------------------------------------------
(* The contents of the names are different.                                *)
LEMMA Contents ==
    /\ Original # Kept /\ Original # Clone /\ Original # Partial /\ Original # None
    /\ Kept # Clone /\ Kept # Partial /\ Kept # None
    /\ Clone # Partial /\ Clone # None /\ Partial # None
<1> DEFINE contents == <<Original, Kept, Clone, Partial, Alien, None>>
<1>1. \A i, j \in 1..6 : contents[i] = contents[j] => i = j
  BY StorageOptimizationAssumption
<1>2. /\ contents[1] = Original /\ contents[2] = Kept /\ contents[3] = Clone
      /\ contents[4] = Partial /\ contents[6] = None
  OBVIOUS
<1> HIDE DEF contents
<1> QED BY <1>1, <1>2

(* The steps of the transaction by what they may write.                    *)
Looking(w) ==
    \/ VerifyPair(w) \/ Open(w) \/ LookNew(w) \/ CheckNew(w) \/ LookOld(w) \/ CheckSource(w)
    \/ CheckCaptured(w) \/ LookSource(w) \/ CheckRetire(w) \/ LookPublish(w) \/ CheckPublish(w)
    \/ CheckPublished(w) \/ Recheck(w) \/ LookAlias(w) \/ LookRetire(w)
Fencing(w) ==
    \/ FenceNew(w) \/ FenceCapture(w) \/ FenceRetire(w) \/ FencePublish(w) \/ FenceAlias(w) \/ FenceOld(w)
Journalling(w) ==
    \/ PrepareNew(w) \/ PreparedNew(w) \/ CaptureIntent(w) \/ CapturedOld(w) \/ RetireIntent(w)
    \/ SourceRetired(w) \/ PublishIntent(w) \/ Published(w) \/ OldRetireIntent(w) \/ Complete(w)
Calling(w) ==
    \/ MakeNew(w) \/ CloneNew(w) \/ LinkOld(w) \/ UnlinkSource(w) \/ LinkSource(w) \/ UnlinkAlias(w) \/ UnlinkOld(w)

LEMMA ReplaceSteps ==
    ASSUME NEW w \in Worker
    PROVE  Replace(w) <=> Looking(w) \/ Fencing(w) \/ Journalling(w) \/ Calling(w)
BY DEF Replace, Looking, Fencing, Journalling, Calling

(* Looks and fences move a worker to a place and change nothing else.      *)
LEMMA LookingStep ==
    ASSUME TypeOK, NEW w \in Worker, Looking(w) \/ Fencing(w)
    PROVE  /\ UNCHANGED <<kind, owner, item, journal, audits, place, faults, tampers, late>>
           /\ \E l \in Pc : frame' = [frame EXCEPT ![w] = l]
<1> USE DEF Decide, Go, Fence, db, env, Pc, LookPc, LeasePc, FencePc, FilePc, JournalPc, Phase
<1>1. CASE \/ VerifyPair(w) \/ LookNew(w) \/ CheckNew(w) \/ LookOld(w) \/ CheckSource(w)
           \/ CheckCaptured(w) \/ LookSource(w) \/ CheckRetire(w) \/ CheckPublish(w)
           \/ CheckPublished(w) \/ Recheck(w)
  BY <1>1 DEF VerifyPair, LookNew, CheckNew, LookOld, CheckSource,
              CheckCaptured, LookSource, CheckRetire, CheckPublish, CheckPublished, Recheck
<1>2. CASE Open(w)
  BY <1>2 DEF Open
<1>3. CASE LookPublish(w) \/ LookAlias(w) \/ LookRetire(w)
  BY <1>3 DEF LookPublish, LookAlias, LookRetire
<1>4. CASE Fencing(w)
  BY <1>4 DEF Fencing, FenceNew, FenceCapture, FenceRetire, FencePublish, FenceAlias, FenceOld
<1> QED BY <1>1, <1>2, <1>3, <1>4 DEF Looking

LEMMA JournallingStep ==
    ASSUME TypeOK, NEW w \in Worker, Journalling(w)
    PROVE  /\ Holding(w) /\ UNCHANGED <<kind, owner, item, place, faults, tampers, late>>
           /\ \E l \in Pc : frame' = [frame EXCEPT ![w] = l]
           /\ \/ UNCHANGED <<journal, audits>>
              \/ \E phase \in Phase :
                    /\ journal' = journal \cup {phase}
                    /\ audits' = audits + IF phase = "completed" /\ ~Journalled(phase) THEN 1 ELSE 0
<1> USE DEF Journal, Decide, Go, db, env, Pc, LookPc, LeasePc, FencePc, FilePc, JournalPc, Phase
<1>1. CASE PrepareNew(w) \/ PreparedNew(w) \/ CaptureIntent(w) \/ CapturedOld(w) \/ RetireIntent(w)
  BY <1>1 DEF PrepareNew, PreparedNew, CaptureIntent, CapturedOld, RetireIntent
<1>2. CASE SourceRetired(w) \/ PublishIntent(w) \/ Published(w) \/ OldRetireIntent(w) \/ Complete(w)
  BY <1>2 DEF SourceRetired, PublishIntent, Published, OldRetireIntent, Complete
<1> QED BY <1>1, <1>2 DEF Journalling

LEMMA CallingStep ==
    ASSUME TypeOK, NEW w \in Worker, Calling(w)
    PROVE  /\ UNCHANGED <<kind, owner, item, journal, audits, faults, tampers>>
           /\ late' = (late \/ ~Holding(w))
           /\ \E l \in Pc : frame' = [frame EXCEPT ![w] = l]
           /\ \E p \in Place, c \in Content : place' = [place EXCEPT ![p] = c]
<1> USE DEF Call, Go, db, env, Place
<1>1. /\ None \in Content /\ Partial \in Content /\ Clone \in Content
      /\ \A p \in {"source", "new", "old", "keep"} : place[p] \in Content /\ place = [place EXCEPT ![p] = place[p]]
  BY DEF TypeOK, Content, File
<1>2. {"check_new", "clone", "check_captured", "source_retired", "check_published", "old_retire_intent", "completed", "failed"} \subseteq Pc
  BY DEF Pc, LookPc, LeasePc, FencePc, FilePc, JournalPc, Phase
<1>3. CASE MakeNew(w) \/ CloneNew(w)
  BY <1>1, <1>2, <1>3 DEF MakeNew, CloneNew, Link
<1>4. CASE LinkOld(w) \/ UnlinkSource(w) \/ LinkSource(w) \/ UnlinkAlias(w) \/ UnlinkOld(w)
  BY <1>1, <1>2, <1>4 DEF LinkOld, UnlinkSource, LinkSource, UnlinkAlias, UnlinkOld, Link, Unlink
<1> QED BY <1>3, <1>4 DEF Calling

-----------------------------------------------------------------------------
(* Types.                                                                  *)

LEMMA InitTypeOK == Init => TypeOK
<1> SUFFICES ASSUME Init PROVE TypeOK
  OBVIOUS
<1>1. place \in [Place -> Content]
  <2>1. \A p \in Place : (CASE p = "source" -> Original [] p = "keep" -> Kept [] OTHER -> None) \in Content
    BY DEF Content, File
  <2> QED BY <2>1 DEF Init
<1>2. frame \in [Worker -> Pc] /\ item \in ItemState
  BY DEF Init, Pc, ItemState
<1>3. faults \in 0..MaxFaults /\ tampers \in 0..MaxTampers /\ audits \in 0..1
  BY StorageOptimizationAssumption DEF Init
<1>4. kind \in Kind /\ owner \in Worker /\ journal \subseteq Phase /\ late \in BOOLEAN
  BY DEF Init
<1> QED BY <1>1, <1>2, <1>3, <1>4 DEF TypeOK

LEMMA NextTypeOK ==
    ASSUME TypeOK, Recorded, [Next]_vars
    PROVE  TypeOK'
<1> USE StorageOptimizationAssumption DEF TypeOK
<1>1. ASSUME NEW w \in Worker, Replace(w) PROVE TypeOK'
  <2>1. CASE Looking(w) \/ Fencing(w)
    BY <2>1, LookingStep
  <2>2. CASE Journalling(w)
    BY <2>2, JournallingStep DEF Recorded, Journalled
  <2>3. CASE Calling(w)
    BY <2>3, CallingStep
  <2> QED BY <1>1, <2>1, <2>2, <2>3, ReplaceSteps
<1>2. {"idle", "pair", "failed"} \subseteq Pc /\ {"planned", "executing", "completed", "failed"} \subseteq ItemState
  BY DEF Pc, LookPc, LeasePc, ItemState
<1>3. ASSUME NEW w \in Worker, Start(w) \/ ItemDone(w) \/ ItemFailed(w) \/ Recover(w) \/ Abandon(w)
      PROVE  TypeOK'
  BY <1>2, <1>3 DEF Start, ItemDone, ItemFailed, Recover, Abandon, Go, env, db
<1>4. ASSUME NEW w \in Worker, Crash(w) \/ CallFails(w) \/ TakeOver(w) PROVE TypeOK'
  BY <1>2, <1>4 DEF Crash, CallFails, TakeOver, Go, db
<1>5. ASSUME NEW p \in Place, NEW c \in {None, Alien}, Tamper(p, c) PROVE TypeOK'
  BY <1>5 DEF Tamper, db, Content, File
<1>6. CASE UNCHANGED vars
  BY <1>6 DEF vars
<1> QED BY <1>1, <1>3, <1>4, <1>5, <1>6 DEF Next, Run

-----------------------------------------------------------------------------
(* Steps that leave the owner where it is.                                 *)

Parts == Recorded /\ Covered /\ (Undisturbed => Names /\ Prepared)

(* A step of another worker keeps the invariant: if it changes a file, it  *)
(* is late.                                                                *)
LEMMA OthersStep ==
    ASSUME TypeOK, Parts, UNCHANGED <<kind, owner, journal, audits>>, frame'[owner] = frame[owner],
           UNCHANGED <<place, late, tampers>> \/ late'
    PROVE  Parts'
BY DEF Parts, Recorded, Covered, Undisturbed, Names, Prepared, OwnerAt, Journalled, Replacement

(* A step of the owner that ends its call.                                 *)
LEMMA OwnerRests ==
    ASSUME TypeOK, Parts, UNCHANGED <<kind, journal, audits, place, tampers, late>>,
           \/ frame'[owner'] = "idle"
           \/ frame'[owner'] = "failed" /\ (~OwnerAt({"idle", "done"}) \/ ~Journalled("completed"))
    PROVE  Parts'
<1>1. frame'[owner'] \notin {"done", "fence_retire", "unlink_source", "fence_alias", "unlink_alias", "fence_old",
         "unlink_old", "fence_capture", "link_old", "fence_publish", "link_source", "look_alias"} \cup Retiring
      /\ frame'[owner'] \notin PastPublication
  BY DEF Retiring, PastPublication
<1> QED BY <1>1 DEF Parts, Recorded, Covered, Undisturbed, Names, Prepared, OwnerAt, Journalled, Replacement

-----------------------------------------------------------------------------
(* Steps of the owner.                                                     *)

LEMMA OwnerLooks ==
    ASSUME TypeOK, Parts, Looking(owner) \/ Fencing(owner)
    PROVE  Parts'
<1> USE Contents DEF Parts, Recorded, Covered, Undisturbed, Names, Prepared, OwnerAt, Journalled, Replacement,
        Retiring, PastPublication, TypeOK, Decide, Go, At, Fence
<1>0. /\ UNCHANGED <<kind, owner, item, journal, audits, place, faults, tampers, late>>
      /\ \E l \in Pc : frame' = [frame EXCEPT ![owner] = l]
  BY LookingStep
<1>1. CASE \/ VerifyPair(owner) \/ LookNew(owner) \/ CheckNew(owner) \/ LookOld(owner) \/ CheckSource(owner)
           \/ CheckCaptured(owner) \/ LookSource(owner)
  BY <1>0, <1>1 DEF VerifyPair, LookNew, CheckNew, LookOld, CheckSource, CheckCaptured, LookSource
<1>2. CASE CheckRetire(owner) \/ CheckPublish(owner) \/ CheckPublished(owner) \/ Recheck(owner)
  BY <1>0, <1>2 DEF CheckRetire, CheckPublish, CheckPublished, Recheck
<1>3. CASE Open(owner)
  BY <1>0, <1>3 DEF Open
<1>4. CASE LookPublish(owner)
  BY <1>0, <1>4 DEF LookPublish
<1>5. CASE LookAlias(owner)
  BY <1>0, <1>5 DEF LookAlias
<1>6. CASE LookRetire(owner)
  BY <1>0, <1>6 DEF LookRetire
<1>7. CASE Fencing(owner)
  BY <1>0, <1>7 DEF Fencing, FenceNew, FenceCapture, FenceRetire, FencePublish, FenceAlias, FenceOld
<1> QED BY <1>1, <1>2, <1>3, <1>4, <1>5, <1>6, <1>7 DEF Looking

LEMMA OwnerJournals ==
    ASSUME TypeOK, Parts, Journalling(owner)
    PROVE  Parts'
<1> USE Contents DEF Parts, Recorded, Covered, Undisturbed, Names, Prepared, OwnerAt, Journalled, Replacement,
        Retiring, PastPublication, TypeOK, Decide, Go, At, Journal, Holding, env
<1>1. CASE PrepareNew(owner) \/ PreparedNew(owner) \/ CaptureIntent(owner) \/ CapturedOld(owner) \/ RetireIntent(owner)
  BY <1>1 DEF PrepareNew, PreparedNew, CaptureIntent, CapturedOld, RetireIntent
<1>2. CASE SourceRetired(owner) \/ PublishIntent(owner)
  BY <1>2 DEF SourceRetired, PublishIntent, db
<1>3. CASE Published(owner) \/ OldRetireIntent(owner)
  BY <1>3 DEF Published, OldRetireIntent
<1>4. CASE Complete(owner)
  BY <1>4 DEF Complete
<1> QED BY <1>1, <1>2, <1>3, <1>4 DEF Journalling

LEMMA OwnerCalls ==
    ASSUME TypeOK, Parts, Calling(owner)
    PROVE  Parts'
<1> USE Contents DEF Parts, Recorded, Covered, Undisturbed, Names, Prepared, OwnerAt, Journalled, Replacement,
        Retiring, PastPublication, TypeOK, Go, At, Call, Holding, db, Place
<1>1. CASE MakeNew(owner)
  BY <1>1 DEF MakeNew, Link, Kind
<1>2. CASE CloneNew(owner)
  BY <1>2 DEF CloneNew
<1>3. CASE LinkOld(owner)
  BY <1>3 DEF LinkOld, Link
<1>4. CASE UnlinkSource(owner)
  BY <1>4 DEF UnlinkSource, Unlink
<1>5. CASE LinkSource(owner)
  BY <1>5 DEF LinkSource, Link
<1>6. CASE UnlinkAlias(owner)
  BY <1>6 DEF UnlinkAlias, Unlink
<1>7. CASE UnlinkOld(owner)
  BY <1>7 DEF UnlinkOld, Unlink
<1> QED BY <1>1, <1>2, <1>3, <1>4, <1>5, <1>6, <1>7 DEF Calling

-----------------------------------------------------------------------------
(* The invariant is inductive.                                             *)

LEMMA InitParts == Init => Parts
<1> SUFFICES ASSUME Init PROVE Parts
  OBVIOUS
<1>1. place["source"] = Original /\ place["keep"] = Kept /\ place["new"] = None /\ place["old"] = None
  BY DEF Init, Place
<1>2. frame[owner] = "idle"
  BY DEF Init
<1> QED BY <1>1, <1>2 DEF Init, Parts, Recorded, Covered, Undisturbed, Names, Prepared, OwnerAt, Journalled,
           Retiring, PastPublication

LEMMA NextParts ==
    ASSUME TypeOK, Parts, [Next]_vars
    PROVE  Parts'
<1> USE DEF TypeOK, Go, At, Holding, db, env
<1>1. ASSUME NEW w \in Worker, Replace(w) PROVE Parts'
  <2>1. CASE w = owner
    BY <1>1, <2>1, ReplaceSteps, OwnerLooks, OwnerJournals, OwnerCalls
  <2>2. CASE w # owner
    <3>1. UNCHANGED <<kind, owner, journal, audits>>
      BY <1>1, <2>2, ReplaceSteps, LookingStep, JournallingStep, CallingStep
    <3>2. frame'[owner] = frame[owner]
      BY <1>1, <2>2, ReplaceSteps, LookingStep, JournallingStep, CallingStep
    <3>3. UNCHANGED <<place, late, tampers>> \/ late'
      BY <1>1, <2>2, ReplaceSteps, LookingStep, JournallingStep, CallingStep
    <3> QED BY <3>1, <3>2, <3>3, OthersStep
  <2> QED BY <2>1, <2>2
<1>2. ASSUME NEW w \in Worker, Start(w) PROVE Parts'
  BY <1>2, Contents DEF Start, Fresh, Parts, Recorded, Covered, Undisturbed, Names, Prepared, OwnerAt, Journalled,
                        Replacement, Retiring, PastPublication
<1>3. ASSUME NEW w \in Worker, ItemDone(w) \/ ItemFailed(w) PROVE Parts'
  BY <1>3, OwnerRests DEF ItemDone, ItemFailed
<1>4. ASSUME NEW w \in Worker, Recover(w) PROVE Parts'
  BY <1>4, OthersStep DEF Recover
<1>5. ASSUME NEW w \in Worker, Abandon(w) PROVE Parts'
  BY <1>5, OthersStep DEF Abandon
<1>6. ASSUME NEW w \in Worker, Crash(w) \/ CallFails(w) PROVE Parts'
  <2>1. CASE w # owner
    BY <1>6, <2>1, OthersStep DEF Crash, CallFails
  <2>2. CASE w = owner
    BY <1>6, <2>2, OwnerRests DEF Crash, CallFails, OwnerAt, FilePc
  <2> QED BY <2>1, <2>2
<1>7. ASSUME NEW w \in Worker, TakeOver(w) PROVE Parts'
  BY <1>7, OwnerRests DEF TakeOver
<1>8. ASSUME NEW p \in Place, NEW c \in {None, Alien}, Tamper(p, c) PROVE Parts'
  <2>1. /\ UNCHANGED <<kind, owner, journal, audits, frame, late>> /\ tampers' # 0
        /\ ~OwnerAt({"fence_retire", "unlink_source", "fence_alias", "unlink_alias", "fence_old", "unlink_old"})
    BY <1>8 DEF Tamper, Unlinking, OwnerAt
  <2> QED BY <2>1 DEF Parts, Recorded, Covered, Undisturbed, OwnerAt, Journalled
<1>9. CASE UNCHANGED vars
  BY <1>9, OthersStep DEF vars
<1> QED BY <1>1, <1>2, <1>3, <1>4, <1>5, <1>6, <1>7, <1>8, <1>9 DEF Next, Run

LEMMA InvariantHolds == Spec => []Invariant
<1>1. Init => Invariant
  BY InitTypeOK, InitParts DEF Invariant, Parts
<1>2. Invariant /\ [Next]_vars => Invariant'
  BY NextTypeOK, NextParts DEF Invariant, Parts
<1> QED BY <1>1, <1>2, PTL DEF Spec

(* Every variable keeps its type, and a completion is audited at most once *)
(* however often it is repeated.                                           *)
THEOREM StorageTypeCorrect == Spec => []TypeOK
<1>1. Invariant => TypeOK
  BY DEF Invariant
<1> QED BY <1>1, InvariantHolds, PTL

(* With any number of crashes, takeovers and failing calls the payload is  *)
(* found at the source or beside it, as long as no user and no worker      *)
(* without the lease touches the names.                                    *)
THEOREM PayloadIsKept == Spec => []PayloadStays
<1>1. Invariant => PayloadStays
  BY DEF Invariant, Names, PayloadStays, Holders
<1> QED BY <1>1, InvariantHolds, PTL

(* The last name of the original goes only once the replacement is         *)
(* published, recorded and found in its place: whatever users do meanwhile. *)
THEOREM OriginalGoesLast == Spec => OriginalGivenUpLast
<1> DEFINE GivenUpLast ==
      (\E p \in Place : place[p] = Original) /\ (\A p \in Place : place'[p] # Original) =>
           \/ tampers' # tampers \/ late'
           \/ "published" \in journal /\ place["source"] = Replacement
<1>1. ASSUME Invariant, [Next]_vars, NEW p \in Place, place[p] = Original, \A q \in Place : place'[q] # Original,
             tampers' = tampers, ~late'
      PROVE  "published" \in journal /\ place["source"] = Replacement
  <2> USE DEF Invariant, TypeOK
  <2>1. PICK w \in Worker : Calling(w)
    <3>1. ASSUME NEW w \in Worker, Replace(w) PROVE Calling(w)
      BY <1>1, <3>1, ReplaceSteps, LookingStep, JournallingStep
    <3>2. ASSUME NEW q \in Place, NEW c \in {None, Alien}, Tamper(q, c) PROVE FALSE
      BY <1>1, <3>2 DEF Tamper
    <3> QED BY <1>1, <3>1, <3>2
            DEF Next, Run, Start, ItemDone, ItemFailed, Recover, Abandon, Crash, CallFails, TakeOver, vars
  <2>2. w = owner /\ ~late
    BY <1>1, <2>1, CallingStep DEF Holding
  <2> USE Contents DEF Covered, OwnerAt, At, Call, Place
  <2>3. CASE MakeNew(owner) \/ CloneNew(owner) \/ LinkOld(owner) \/ LinkSource(owner)
    BY <1>1, <2>3 DEF MakeNew, CloneNew, LinkOld, LinkSource, Link
  <2>4. CASE UnlinkSource(owner)
    BY <1>1, <2>2, <2>4 DEF UnlinkSource, Unlink
  <2>5. CASE UnlinkAlias(owner)
    BY <1>1, <2>2, <2>5 DEF UnlinkAlias, Unlink
  <2>6. CASE UnlinkOld(owner)
    BY <1>1, <2>2, <2>6 DEF UnlinkOld, Unlink, Recorded, Journalled, PastPublication, Retiring
  <2> QED BY <2>1, <2>2, <2>3, <2>4, <2>5, <2>6 DEF Calling
<1>2. Invariant /\ [Next]_vars => [GivenUpLast]_vars
  BY <1>1
<1> QED BY <1>2, InvariantHolds, PTL DEF Spec, OriginalGivenUpLast

(* A completed item is the replacement it stands for.                      *)
THEOREM CompletionIsTrue == Spec => TruthfulCompletion
<1> DEFINE Truthful ==
      item # "completed" /\ item' = "completed" =>
           /\ audits = 1
           /\ Undisturbed => place["source"] = Replacement /\ place["new"] = None /\ place["old"] = None
<1>1. ASSUME Invariant, [Next]_vars, item # "completed", item' = "completed"
      PROVE  /\ audits = 1
             /\ Undisturbed => place["source"] = Replacement /\ place["new"] = None /\ place["old"] = None
  <2>1. ItemDone(owner)
    <3>1. ASSUME NEW w \in Worker, Replace(w) PROVE FALSE
      BY <1>1, <3>1, ReplaceSteps, LookingStep, JournallingStep, CallingStep DEF Invariant
    <3> QED BY <1>1, <3>1 DEF Next, Run, Start, ItemDone, ItemFailed, Recover, Abandon, Crash, CallFails, TakeOver,
                              Tamper, db, vars, Holding
  <2> QED BY <1>1, <2>1 DEF ItemDone, At, Invariant, Recorded, Prepared, OwnerAt, Journalled
<1>2. Invariant /\ [Next]_vars => [Truthful]_vars
  BY <1>1
<1> QED BY <1>2, InvariantHolds, PTL DEF Spec, TruthfulCompletion

=============================================================================
