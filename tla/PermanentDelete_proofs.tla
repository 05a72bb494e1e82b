------------------------ MODULE PermanentDelete_proofs ------------------------
(***************************************************************************)
(* The permanent deletions for any workers and clerks, and any number of   *)
(* crashes, takeovers and changes by users.                                *)
(***************************************************************************)
EXTENDS PermanentDelete, TLAPS

EntryNames == {"anchor", "captured", "public"}
Frames == [pc : {"idle"} \cup LeasePc \cup FreePc, at : 1..3, seen : BOOLEAN]

(* The frozen names of either kind.                                        *)
LEMMA NamesOf ==
    /\ kind = "entry" => Owned = <<"anchor", "captured", "public">> /\ Names = EntryNames
    /\ kind = "media" => Owned = <<"media">> /\ Names = {"media"}
    /\ kind \in {"entry", "media"} => Names \subseteq Role /\ Names # {}
<1>1. CASE kind = "entry"
  <2>1. Owned = <<"anchor", "captured", "public">>
    BY <1>1 DEF Owned
  <2>2. DOMAIN Owned = 1..3
    BY <2>1
  <2>3. Owned[1] = "anchor" /\ Owned[2] = "captured" /\ Owned[3] = "public"
    BY <2>1
  <2>4. Names = EntryNames
    BY <2>2, <2>3 DEF Names, EntryNames
  <2> QED BY <1>1, <2>1, <2>4 DEF EntryNames, Role
<1>2. CASE kind = "media"
  <2>1. Owned = <<"media">>
    BY <1>2 DEF Owned
  <2>2. DOMAIN Owned = 1..1 /\ Owned[1] = "media"
    BY <2>1
  <2>3. Names = {"media"}
    BY <2>2 DEF Names
  <2> QED BY <1>2, <2>1, <2>3 DEF Role
<1> QED BY <1>1, <1>2

(* The name an actor is at is one of the entry's names.                    *)
LEMMA RoleInNames ==
    ASSUME kind = "entry", frame \in [Actor -> Frames], NEW a \in Actor
    PROVE  RoleOf(a) \in Names /\ Len(Owned) = 3
<1>1. Owned = <<"anchor", "captured", "public">> /\ Names = EntryNames
  BY NamesOf
<1>2. frame[a].at \in 1..3
  BY DEF Frames
<1> QED BY <1>1, <1>2 DEF RoleOf, EntryNames

-----------------------------------------------------------------------------
(* The inductive invariant                                                 *)

EntryPc == {"enter", "authorize", "frozen", "lookup", "probe", "intend", "fence", "unlink", "mark", "terminal", "audit"}
MediaPc == {"m_open", "m_intend", "m_fence", "m_final", "m_hash", "m_rehash", "m_unlink"}

(* What is known of an actor by where it is: the two engines do not meet;  *)
(* past the first transaction of a purge there is no way back; whoever is  *)
(* about to remove a file has the intent behind it; who is done has its    *)
(* record; and the item of an entry is executing while the owner of the    *)
(* lock is at it.                                                          *)
ActorOK(a) ==
    /\ frame[a].pc \in EntryPc => kind = "entry"
    /\ frame[a].pc \in MediaPc => kind = "media"
    /\ frame[a].pc \in {"lookup", "probe", "intend", "fence", "unlink", "mark", "terminal"} =>
           entry \in {"purging", "purged"}
    /\ frame[a].pc \in {"fence", "unlink", "mark"} \/ (frame[a].pc = "probe" /\ frame[a].seen) => RoleOf(a) \in intents
    /\ frame[a].pc \in {"m_rehash", "m_fence", "m_unlink", "m_final"} => intents # {}
    /\ frame[a].pc = "m_final" => file["media"] # Original
    /\ frame[a].pc = "done" => terminals = 1
    /\ kind = "entry" /\ a = owner /\ frame[a].pc # "idle" => item = "executing"

(* What the journal and the rows say of each other.                        *)
RecordOK ==
    /\ kind = "entry" => terminals = (IF entry = "purged" THEN 1 ELSE 0)
    /\ kind = "entry" => audits.plan = (IF item = "completed" THEN 1 ELSE 0)
    /\ kind = "media" => entry = "active"
    /\ terminals \in {0, 1} /\ audits.plan \in {0, 1} /\ audits.clear \in {0, 1}
    /\ terminals = 1 => intents = Names /\ (\A r \in Names : file[r] # Original) /\ (kind = "media" => evidence # "current")
    /\ item = "completed" \/ audits.plan = 1 \/ audits.clear = 1 => terminals = 1
    /\ marks \subseteq intents

IInv == TypeOK /\ (\A a \in Actor : ActorOK(a)) /\ RecordOK

(* The invariant holds when the plan is confirmed and nobody is at work.   *)
LEMMA InvInit == Init => IInv
<1> SUFFICES ASSUME Init PROVE IInv
  OBVIOUS
<1> USE PermanentDeleteAssumption
<1>1. owner \in Worker
  BY DEF Init
<1>2. Idle \in Frames /\ Idle.pc = "idle"
  BY DEF Idle, Frames
<1>3. frame \in [Actor -> Frames] /\ (\A a \in Actor : frame[a].pc = "idle") /\ owner \in Actor
  BY <1>1, <1>2 DEF Init, Actor
<1>4. TypeOK
  BY <1>1, <1>3 DEF Init, TypeOK, Frames
<1>5. \A a \in Actor : ActorOK(a)
  BY <1>3 DEF ActorOK, EntryPc, MediaPc
<1>6. RecordOK
  BY <1>3 DEF Init, RecordOK
<1> QED BY <1>4, <1>5, <1>6 DEF IInv

(* Writing one frame leaves the frames well-formed.                        *)
LEMMA FrameWrites ==
    ASSUME frame \in [Actor -> Frames], NEW a \in Actor
    PROVE  /\ frame[a] \in Frames
           /\ \A pc \in {"idle"} \cup LeasePc \cup FreePc : [frame[a] EXCEPT !.pc = pc] \in Frames
           /\ \A f \in Frames : [frame EXCEPT ![a] = f] \in [Actor -> Frames]
           /\ Idle \in Frames /\ [Idle EXCEPT !.pc = "failed"] \in Frames /\ [Idle EXCEPT !.pc = "terminal"] \in Frames
<1>1. ASSUME NEW f \in Frames, NEW pc \in {"idle"} \cup LeasePc \cup FreePc PROVE [f EXCEPT !.pc = pc] \in Frames
  BY DEF Frames
<1>2. Idle \in Frames /\ "failed" \in LeasePc /\ "terminal" \in FreePc
  BY DEF Frames, Idle, LeasePc, FreePc
<1> QED BY <1>1, <1>2

(* What the operators on frames do.                                        *)
LEMMA GoEffect ==
    ASSUME frame \in [Actor -> Frames], NEW a \in Actor, NEW pc \in {"idle"} \cup LeasePc \cup FreePc, Go(a, pc)
    PROVE  /\ frame' \in [Actor -> Frames]
           /\ frame'[a].pc = pc /\ frame'[a].at = frame[a].at /\ frame'[a].seen = frame[a].seen
           /\ \A b \in Actor \ {a} : frame'[b] = frame[b]
<1>1. frame' = [frame EXCEPT ![a] = [frame[a] EXCEPT !.pc = pc]]
  BY FrameWrites DEF Go
<1> QED BY <1>1, FrameWrites DEF Frames

(* An actor that stops is idle, and the others are where they were.        *)
LEMMA StopEffect ==
    ASSUME frame \in [Actor -> Frames], NEW a \in Actor, Stop(a)
    PROVE  /\ frame' \in [Actor -> Frames] /\ frame'[a].pc = "idle"
           /\ \A b \in Actor \ {a} : frame'[b] = frame[b]
BY FrameWrites DEF Stop, Idle

(* An exception leaves a worker with a failure to record, a clerk idle.    *)
LEMMA RaiseEffect ==
    ASSUME frame \in [Actor -> Frames], NEW a \in Actor, Raise(a)
    PROVE  /\ frame' \in [Actor -> Frames] /\ frame'[a].pc \in {"idle", "failed"}
           /\ a \in Worker => frame'[a].pc = "failed"
           /\ \A b \in Actor \ {a} : frame'[b] = frame[b]
BY FrameWrites DEF Raise, Idle

(* Going to the next name stays within the names there are.                *)
LEMMA NextNameEffect ==
    ASSUME frame \in [Actor -> Frames], kind = "entry", NEW a \in Actor, NextName(a)
    PROVE  /\ frame' \in [Actor -> Frames] /\ frame'[a].pc \in {"lookup", "terminal"}
           /\ \A b \in Actor \ {a} : frame'[b] = frame[b]
<1>1. Len(Owned) = 3 /\ frame[a].at \in 1..3
  BY RoleInNames DEF Frames
<1>2. CASE frame[a].at < Len(Owned)
  <2>1. [pc |-> "lookup", at |-> frame[a].at + 1, seen |-> FALSE] \in Frames
    BY <1>1, <1>2 DEF Frames, FreePc
  <2> QED BY <1>2, <2>1, FrameWrites DEF NextName
<1>3. CASE ~(frame[a].at < Len(Owned))
  BY <1>3, FrameWrites DEF NextName, Idle
<1> QED BY <1>2, <1>3

(* A step of one actor: what the others rely on is only added to.          *)
Others(a) ==
    /\ frame' \in [Actor -> Frames]
    /\ \A b \in Actor \ {a} : frame'[b] = frame[b]

Grows(a) ==
    /\ UNCHANGED <<kind, owner>> /\ intents \subseteq intents'
    /\ entry \in {"purging", "purged"} => entry' \in {"purging", "purged"}
    /\ terminals = 1 => terminals' = 1
    /\ file["media"] # Original => file'["media"] # Original
    /\ item' = item \/ a = owner

(* What the other actors rely on is never taken back by a step.            *)
LEMMA ActorStep ==
    ASSUME IInv, NEW a \in Actor, Others(a), Grows(a), TypeOK', ActorOK(a)', RecordOK'
    PROVE  IInv'
<1>1. ASSUME NEW b \in Actor \ {a} PROVE ActorOK(b)'
  <2>1. frame'[b] = frame[b] /\ RoleOf(b)' = RoleOf(b) /\ ActorOK(b)
    BY DEF Others, Grows, RoleOf, Owned, IInv
  <2>2. intents # {} => intents' # {}
    BY DEF Grows
  <2>3. b = owner => item' = item
    BY DEF Grows
  <2> QED BY <2>1, <2>2, <2>3 DEF Grows, ActorOK
<1> QED BY <1>1 DEF IInv

(* A step that only moves the actor on.                                    *)
LEMMA MoveStep ==
    ASSUME IInv, NEW a \in Actor, Others(a), UNCHANGED <<env, rows, file, journal>>, ActorOK(a)'
    PROVE  IInv'
<1>1. UNCHANGED <<kind, owner, faults, tampers, entry, item, evidence, audits, file, intents, marks, terminals, Names>>
  BY DEF env, rows, journal, Names, Owned
<1>2. TypeOK'
  BY <1>1 DEF IInv, TypeOK, Others, Frames
<1>3. RecordOK'
  BY <1>1 DEF IInv, RecordOK
<1>4. Grows(a)
  BY <1>1 DEF Grows
<1> QED BY <1>2, <1>3, <1>4, ActorStep

-----------------------------------------------------------------------------
(* The steps of a purge                                                    *)

(* Entering the purge engine keeps the invariant.                          *)
LEMMA EnterStep ==
    ASSUME IInv, NEW a \in Actor, Enter(a)
    PROVE  IInv'
<1>1. /\ frame \in [Actor -> Frames] /\ frame[a].pc = "enter" /\ ActorOK(a)
      /\ UNCHANGED <<env, rows, file, journal>>
  BY DEF IInv, TypeOK, Frames, Enter, At
<1>2. /\ Others(a)
      /\ \/ frame'[a].pc \in {"authorize", "idle", "failed"}
         \/ frame'[a].pc = "frozen" /\ entry = "purging"
         \/ frame'[a].pc \in {"done", "audit"} /\ entry = "purged"
  BY <1>1, GoEffect, RaiseEffect DEF Enter, LeasePc, FreePc, Others
<1>3. ActorOK(a)'
  BY <1>1, <1>2 DEF ActorOK, EntryPc, MediaPc, IInv, RecordOK, env, rows, journal
<1> QED BY <1>1, <1>2, <1>3, MoveStep

(* The transaction that makes the purge irreversible keeps it.             *)
LEMMA AuthorizeStep ==
    ASSUME IInv, NEW a \in Actor, Authorize(a)
    PROVE  IInv'
<1>1. /\ frame \in [Actor -> Frames] /\ frame[a].pc = "authorize" /\ ActorOK(a) /\ kind = "entry"
      /\ UNCHANGED <<env, item, evidence, audits, file, journal>>
  BY DEF IInv, TypeOK, Frames, Authorize, At, ActorOK, EntryPc
<1>2. /\ Others(a)
      /\ \/ frame'[a].pc \in {"idle", "failed"} /\ entry' = entry
         \/ frame'[a].pc = "frozen" /\ entry = "active" /\ entry' = "purging"
  BY <1>1, GoEffect, RaiseEffect DEF Authorize, LeasePc, FreePc, Others
<1>3. UNCHANGED <<kind, owner, faults, tampers, item, evidence, audits, file, intents, marks, terminals, Names>>
  BY <1>1 DEF env, journal, Names, Owned
<1>4. TypeOK' /\ RecordOK' /\ Grows(a)
  BY <1>1, <1>2, <1>3 DEF IInv, TypeOK, RecordOK, Grows, Others, Frames
<1>5. ActorOK(a)'
  BY <1>1, <1>2, <1>3 DEF ActorOK, EntryPc, MediaPc
<1> QED BY <1>2, <1>4, <1>5, ActorStep

(* So does the second look at the entry.                                   *)
LEMMA FrozenStep ==
    ASSUME IInv, NEW a \in Actor, Frozen(a)
    PROVE  IInv'
<1>0. a \in Actor
  BY DEF Actor
<1>1. /\ frame \in [Actor -> Frames] /\ frame[a].pc = "frozen" /\ ActorOK(a)
      /\ UNCHANGED <<env, rows, file, journal>>
  BY <1>0 DEF IInv, TypeOK, Frames, Frozen, At
<1>2. /\ Others(a)
      /\ \/ frame'[a].pc \in {"idle", "failed"}
         \/ frame'[a].pc = "lookup" /\ entry = "purging"
  BY <1>0, <1>1, GoEffect, RaiseEffect, NextNameEffect, StopEffect DEF Frozen, LeasePc, FreePc, Others
<1>3. ActorOK(a)'
  BY <1>0, <1>1, <1>2 DEF ActorOK, EntryPc, MediaPc, IInv, RecordOK, env, rows, journal
<1> QED BY <1>0, <1>1, <1>2, <1>3, MoveStep

(* So does looking an intent up.                                           *)
LEMMA LookupStep ==
    ASSUME IInv, NEW a \in Actor, Lookup(a)
    PROVE  IInv'
<1>1. /\ frame \in [Actor -> Frames] /\ frame[a].pc = "lookup" /\ ActorOK(a)
      /\ UNCHANGED <<env, rows, file, journal>>
  BY DEF IInv, TypeOK, Frames, Lookup, At
<1>2. frame' = [frame EXCEPT ![a] = [frame[a] EXCEPT !.seen = RoleOf(a) \in intents, !.pc = "probe"]]
  BY <1>1 DEF Lookup
<1>3. [frame[a] EXCEPT !.seen = RoleOf(a) \in intents, !.pc = "probe"] \in Frames
  <2>1. \A seen \in BOOLEAN : [frame[a] EXCEPT !.seen = seen, !.pc = "probe"] \in Frames
    BY <1>1 DEF Frames, FreePc
  <2>2. (RoleOf(a) \in intents) \in BOOLEAN
    OBVIOUS
  <2> QED BY <2>1, <2>2, Zenon
<1>4. Others(a) /\ frame'[a].pc = "probe" /\ frame'[a].at = frame[a].at /\ frame'[a].seen = (RoleOf(a) \in intents)
  BY <1>1, <1>2, <1>3 DEF Others, Frames
<1>5. RoleOf(a)' = RoleOf(a)
  BY <1>1, <1>4 DEF RoleOf, Owned, env
<1>6. ActorOK(a)'
  BY <1>1, <1>4, <1>5 DEF ActorOK, EntryPc, MediaPc, env, rows, journal
<1> QED BY <1>1, <1>4, <1>6, MoveStep

(* So does the stat that follows.                                          *)
LEMMA ProbeStep ==
    ASSUME IInv, NEW a \in Actor, Probe(a)
    PROVE  IInv'
<1>1. /\ frame \in [Actor -> Frames] /\ frame[a].pc = "probe" /\ ActorOK(a) /\ kind = "entry"
      /\ UNCHANGED <<env, rows, file, journal>>
  BY DEF IInv, TypeOK, Frames, Probe, At, ActorOK, EntryPc
<1>2. ASSUME frame' = [frame EXCEPT ![a].pc = "intend", ![a].seen = FALSE]
      PROVE  Others(a) /\ frame'[a].pc = "intend"
  <2>1. [frame[a] EXCEPT !.pc = "intend", !.seen = FALSE] \in Frames
    BY <1>1 DEF Frames, FreePc
  <2>2. frame' = [frame EXCEPT ![a] = [frame[a] EXCEPT !.pc = "intend", !.seen = FALSE]]
    BY <1>2
  <2> QED BY <1>1, <2>1, <2>2 DEF Others, Frames
<1>3. Others(a) /\ frame'[a].pc \in {"intend", "lookup", "terminal", "idle", "failed"}
  BY <1>1, <1>2, RaiseEffect, NextNameEffect DEF Probe, Others
<1>4. ActorOK(a)'
  BY <1>1, <1>3 DEF ActorOK, EntryPc, MediaPc, env, rows, journal
<1> QED BY <1>1, <1>3, <1>4, MoveStep

(* So does committing the intent.                                          *)
LEMMA IntendStep ==
    ASSUME IInv, NEW a \in Actor, Intend(a)
    PROVE  IInv'
<1>1. /\ frame \in [Actor -> Frames] /\ frame[a].pc = "intend" /\ ActorOK(a) /\ kind = "entry"
      /\ UNCHANGED <<env, rows, file, marks, terminals>>
  BY DEF IInv, TypeOK, Frames, Intend, At, ActorOK, EntryPc
<1>2. /\ Others(a)
      /\ \/ frame'[a].pc \in {"idle", "failed"} /\ intents' = intents
         \/ /\ entry = "purging" /\ intents' = intents \cup {RoleOf(a)}
            /\ frame'[a].pc \in {"fence", "unlink"} /\ frame'[a].at = frame[a].at
  BY <1>1, GoEffect, RaiseEffect DEF Intend, LeasePc, FreePc, Others
<1>3. UNCHANGED <<kind, owner, faults, tampers, entry, item, evidence, audits, file, marks, terminals, Names>>
  BY <1>1 DEF env, rows, Names, Owned
<1>4. RoleOf(a) \in Names /\ (frame'[a].at = frame[a].at => RoleOf(a)' = RoleOf(a))
  BY <1>1, <1>3, RoleInNames DEF RoleOf, Owned
<1>5. TypeOK' /\ RecordOK' /\ Grows(a)
  BY <1>1, <1>2, <1>3, <1>4 DEF IInv, TypeOK, RecordOK, Grows, Others, Frames
<1>6. ActorOK(a)'
  BY <1>1, <1>2, <1>3, <1>4 DEF ActorOK, EntryPc, MediaPc
<1> QED BY <1>2, <1>5, <1>6, ActorStep

(* So does the assertion of the lease before the unlink.                   *)
LEMMA FenceStep ==
    ASSUME IInv, NEW w \in Worker, Fence(w)
    PROVE  IInv'
<1>0. w \in Actor
  BY DEF Actor
<1>1. /\ frame \in [Actor -> Frames] /\ frame[w].pc = "fence" /\ ActorOK(w)
      /\ UNCHANGED <<env, rows, file, journal>>
  BY <1>0 DEF IInv, TypeOK, Frames, Fence, At
<1>2. Others(w) /\ frame'[w].pc = "unlink" /\ frame'[w].at = frame[w].at
  BY <1>0, <1>1, GoEffect DEF Fence, FreePc, Others
<1>3. RoleOf(w)' = RoleOf(w)
  BY <1>1, <1>2 DEF RoleOf, Owned, env
<1>4. ActorOK(w)'
  BY <1>1, <1>2, <1>3 DEF ActorOK, EntryPc, MediaPc, env, rows, journal
<1> QED BY <1>0, <1>1, <1>2, <1>4, MoveStep

(* So does the unlink: a recorded end has left no name to unlink.          *)
LEMMA UnlinkStep ==
    ASSUME IInv, NEW a \in Actor, Unlink(a)
    PROVE  IInv'
<1>1. /\ frame \in [Actor -> Frames] /\ frame[a].pc = "unlink" /\ ActorOK(a) /\ kind = "entry"
      /\ UNCHANGED <<env, rows, journal>>
  BY DEF IInv, TypeOK, Frames, Unlink, At, ActorOK, EntryPc
<1>2. RoleOf(a) \in Names /\ RoleOf(a) \in intents /\ Names = EntryNames
  BY <1>1, RoleInNames, NamesOf DEF ActorOK
<1>3. /\ Others(a)
      /\ file' = file \/ file' = [file EXCEPT ![RoleOf(a)] = None]
      /\ \/ frame'[a].pc \in {"idle", "failed", "lookup", "terminal"}
         \/ frame'[a].pc = "mark" /\ frame'[a].at = frame[a].at
  BY <1>1, GoEffect, RaiseEffect, NextNameEffect DEF Unlink, LeasePc, FreePc, Others
<1>4. UNCHANGED <<kind, owner, faults, tampers, entry, item, evidence, audits, intents, marks, terminals, Names>>
  BY <1>1 DEF env, rows, journal, Names, Owned
<1>5. /\ file' \in [Role -> {None, Original, Alien}]
      /\ \A r \in Role : file'[r] = Original => file[r] = Original
      /\ "media" \in Role /\ Names \subseteq Role
  BY <1>2, <1>3, PermanentDeleteAssumption DEF IInv, TypeOK, EntryNames, Role
<1>6. frame'[a].at = frame[a].at => RoleOf(a)' = RoleOf(a)
  BY <1>4 DEF RoleOf, Owned
<1>7. TypeOK' /\ RecordOK' /\ Grows(a)
  BY <1>1, <1>3, <1>4, <1>5 DEF IInv, TypeOK, RecordOK, Grows, Others, Frames
<1>8. ActorOK(a)'
  BY <1>1, <1>2, <1>3, <1>4, <1>5, <1>6 DEF ActorOK, EntryPc, MediaPc
<1> QED BY <1>3, <1>7, <1>8, ActorStep

(* So does the mark after the unlink.                                      *)
LEMMA MarkStep ==
    ASSUME IInv, NEW a \in Actor, Mark(a)
    PROVE  IInv'
<1>1. /\ frame \in [Actor -> Frames] /\ frame[a].pc = "mark" /\ ActorOK(a) /\ kind = "entry"
      /\ UNCHANGED <<env, rows, file, intents, terminals>> /\ marks' = marks \cup {RoleOf(a)}
  BY DEF IInv, TypeOK, Frames, Mark, At, ActorOK, EntryPc
<1>2. RoleOf(a) \in Names /\ RoleOf(a) \in intents
  BY <1>1, RoleInNames DEF ActorOK
<1>3. Others(a) /\ frame'[a].pc \in {"lookup", "terminal"}
  BY <1>1, NextNameEffect DEF Mark, Others
<1>4. UNCHANGED <<kind, owner, faults, tampers, entry, item, evidence, audits, file, intents, terminals, Names>>
  BY <1>1 DEF env, rows, Names, Owned
<1>5. TypeOK' /\ RecordOK' /\ Grows(a)
  BY <1>1, <1>2, <1>3, <1>4 DEF IInv, TypeOK, RecordOK, Grows, Others, Frames
<1>6. ActorOK(a)'
  BY <1>1, <1>3, <1>4 DEF ActorOK, EntryPc, MediaPc
<1> QED BY <1>3, <1>5, <1>6, ActorStep

(* So does recording the end of a purge, which happens once.               *)
LEMMA TerminalStep ==
    ASSUME IInv, NEW a \in Actor, Terminal(a)
    PROVE  IInv'
<1>1. /\ frame \in [Actor -> Frames] /\ frame[a].pc = "terminal" /\ ActorOK(a) /\ kind = "entry"
      /\ UNCHANGED <<env, item, evidence, audits, file, intents, marks>>
  BY DEF IInv, TypeOK, Frames, Terminal, At, ActorOK, EntryPc
<1>2. /\ Others(a)
      /\ \/ frame'[a].pc \in {"idle", "failed"} /\ UNCHANGED <<entry, terminals>>
         \/ /\ entry = "purging" /\ Absent /\ intents = Names
            /\ entry' = "purged" /\ terminals' = terminals + 1
            /\ frame'[a].pc \in {"done", "audit"}
  BY <1>1, GoEffect, RaiseEffect DEF Terminal, LeasePc, FreePc, Others
<1>3. UNCHANGED <<kind, owner, faults, tampers, item, evidence, audits, file, intents, marks, Names>>
  BY <1>1 DEF env, Names, Owned
<1>4. entry = "purging" => terminals = 0
  BY <1>1 DEF IInv, RecordOK
<1>5. Absent => \A r \in Names : file[r] # Original
  BY PermanentDeleteAssumption DEF Absent
<1>6. TypeOK' /\ RecordOK' /\ Grows(a)
  BY <1>1, <1>2, <1>3, <1>4, <1>5 DEF IInv, TypeOK, RecordOK, Grows, Others, Frames
<1>7. ActorOK(a)'
  BY <1>1, <1>2, <1>3, <1>4 DEF ActorOK, EntryPc, MediaPc
<1> QED BY <1>2, <1>6, <1>7, ActorStep

(* So does taking up an item.                                              *)
LEMMA ExecuteStep ==
    ASSUME IInv, NEW w \in Worker, Execute(w)
    PROVE  IInv'
<1>0. w \in Actor
  BY DEF Actor
<1>1. /\ frame \in [Actor -> Frames] /\ frame[w].pc = "idle" /\ ActorOK(w) /\ w = owner /\ kind \in {"entry", "media"}
      /\ item = "planned" \/ (item = "executing" /\ kind = "entry")
      /\ UNCHANGED <<env, entry, evidence, audits, file, journal>>
  BY <1>0 DEF IInv, TypeOK, Frames, Execute, At, Holding
<1>2. /\ Others(w)
      /\ \/ item' = "executing" /\ frame'[w].pc = (IF kind = "entry" THEN "enter" ELSE "m_open")
         \/ item' = "failed" /\ frame'[w] = frame[w] /\ kind = "media"
  BY <1>0, <1>1, GoEffect DEF Execute, LeasePc, FreePc, Others
<1>3. UNCHANGED <<kind, owner, faults, tampers, entry, evidence, audits, file, intents, marks, terminals, Names>>
  BY <1>1 DEF env, journal, Names, Owned
<1>4. TypeOK' /\ RecordOK' /\ Grows(w)
  BY <1>1, <1>2, <1>3 DEF IInv, TypeOK, RecordOK, Grows, Others, Frames
<1>5. ActorOK(w)'
  BY <1>1, <1>2, <1>3 DEF ActorOK, EntryPc, MediaPc
<1> QED BY <1>0, <1>2, <1>4, <1>5, ActorStep

(* So does recording the item's success with its audit event.              *)
LEMMA ItemDoneStep ==
    ASSUME IInv, NEW w \in Worker, ItemDone(w)
    PROVE  IInv'
<1>0. w \in Actor
  BY DEF Actor
<1>1. /\ frame \in [Actor -> Frames] /\ frame[w].pc = "done" /\ ActorOK(w) /\ w = owner /\ terminals = 1
      /\ item' = "completed" /\ audits \in [plan : Nat, clear : Nat]
      /\ audits' = (IF kind = "entry" THEN [audits EXCEPT !.plan = @ + 1] ELSE audits)
      /\ UNCHANGED <<env, entry, evidence, file, journal>>
  BY <1>0 DEF IInv, TypeOK, Frames, ItemDone, At, Holding, ActorOK
<1>2. Others(w) /\ frame'[w].pc = "idle"
  BY <1>0, <1>1, StopEffect DEF ItemDone, Others
<1>3. UNCHANGED <<kind, owner, faults, tampers, entry, evidence, file, intents, marks, terminals, Names>>
  BY <1>1 DEF env, journal, Names, Owned
<1>4. kind = "entry" => audits.plan = 0
  BY <1>1 DEF IInv, ActorOK, RecordOK
<1>5. /\ audits' \in [plan : Nat, clear : Nat] /\ audits'.clear = audits.clear
      /\ audits'.plan = IF kind = "entry" THEN 1 ELSE audits.plan
  BY <1>1, <1>4
<1>6. TypeOK' /\ RecordOK' /\ Grows(w)
  BY <1>1, <1>2, <1>3, <1>5 DEF IInv, TypeOK, RecordOK, Grows, Others, Frames
<1>7. ActorOK(w)'
  BY <1>1, <1>2, <1>3 DEF ActorOK, EntryPc, MediaPc
<1> QED BY <1>0, <1>2, <1>6, <1>7, ActorStep

(* So does recording the item's failure.                                   *)
LEMMA ItemFailedStep ==
    ASSUME IInv, NEW w \in Worker, ItemFailed(w)
    PROVE  IInv'
<1>0. w \in Actor
  BY DEF Actor
<1>1. /\ frame \in [Actor -> Frames] /\ frame[w].pc = "failed" /\ ActorOK(w) /\ w = owner
      /\ item' = "failed" /\ UNCHANGED <<env, entry, evidence, audits, file, journal>>
  BY <1>0 DEF IInv, TypeOK, Frames, ItemFailed, At, Holding
<1>2. Others(w) /\ frame'[w].pc = "idle"
  BY <1>0, <1>1, StopEffect DEF ItemFailed, Others
<1>3. UNCHANGED <<kind, owner, faults, tampers, entry, evidence, audits, file, intents, marks, terminals, Names>>
  BY <1>1 DEF env, journal, Names, Owned
<1>4. TypeOK' /\ RecordOK' /\ Grows(w)
  BY <1>1, <1>2, <1>3 DEF IInv, TypeOK, RecordOK, Grows, Others, Frames, ActorOK
<1>5. ActorOK(w)'
  BY <1>1, <1>2, <1>3 DEF ActorOK, EntryPc, MediaPc
<1> QED BY <1>0, <1>2, <1>4, <1>5, ActorStep

(* So does a request to clear the entry.                                   *)
LEMMA ClearStep ==
    ASSUME IInv, NEW c \in Clerk, Clear(c)
    PROVE  IInv'
<1>0. c \in Actor
  BY DEF Actor
<1>1. /\ frame \in [Actor -> Frames] /\ ActorOK(c) /\ kind = "entry" /\ c # owner
      /\ UNCHANGED <<env, rows, file, journal>>
  BY <1>0, PermanentDeleteAssumption DEF IInv, TypeOK, Frames, Clear
<1>2. Others(c) /\ frame'[c].pc = "enter"
  BY <1>0, <1>1, GoEffect DEF Clear, FreePc, Others
<1>3. ActorOK(c)'
  BY <1>1, <1>2 DEF ActorOK, EntryPc, MediaPc, env, rows, journal
<1> QED BY <1>0, <1>1, <1>2, <1>3, MoveStep

(* So does the audit event of a cleared entry.                             *)
LEMMA AuditStep ==
    ASSUME IInv, NEW c \in Clerk, Audit(c)
    PROVE  IInv'
<1>0. c \in Actor
  BY DEF Actor
<1>1. /\ frame \in [Actor -> Frames] /\ frame[c].pc = "audit" /\ ActorOK(c) /\ kind = "entry"
      /\ audits \in [plan : Nat, clear : Nat]
      /\ audits' = (IF entry = "purged" /\ Proven THEN [audits EXCEPT !.clear = 1] ELSE audits)
      /\ UNCHANGED <<env, entry, item, evidence, file, journal>>
  BY <1>0 DEF IInv, TypeOK, Frames, Audit, At, ActorOK, EntryPc
<1>2. Others(c) /\ frame'[c].pc = "idle"
  BY <1>0, <1>1, StopEffect DEF Audit, Others
<1>3. UNCHANGED <<kind, owner, faults, tampers, entry, item, evidence, file, intents, marks, terminals, Names>>
  BY <1>1 DEF env, journal, Names, Owned
<1>4. /\ audits' \in [plan : Nat, clear : Nat] /\ audits'.plan = audits.plan
      /\ audits'.clear = audits.clear \/ (audits'.clear = 1 /\ terminals = 1)
  BY <1>1 DEF Proven
<1>5. TypeOK' /\ RecordOK' /\ Grows(c)
  BY <1>1, <1>2, <1>3, <1>4 DEF IInv, TypeOK, RecordOK, Grows, Others, Frames
<1>6. ActorOK(c)'
  BY <1>1, <1>2, <1>3 DEF ActorOK, EntryPc, MediaPc
<1> QED BY <1>0, <1>2, <1>5, <1>6, ActorStep

(* So does the look for what an earlier attempt has left.                  *)
LEMMA OpenMediaStep ==
    ASSUME IInv, NEW w \in Worker, OpenMedia(w)
    PROVE  IInv'
<1>0. w \in Actor
  BY DEF Actor
<1>1. /\ frame \in [Actor -> Frames] /\ frame[w].pc = "m_open" /\ ActorOK(w) /\ w = owner /\ kind = "media"
      /\ terminals \in {0, 1} /\ audits \in [plan : Nat, clear : Nat]
      /\ UNCHANGED <<env, entry, evidence, file, journal>>
  BY <1>0 DEF IInv, TypeOK, Frames, OpenMedia, At, Holding, RecordOK, ActorOK, MediaPc
<1>2. /\ Others(w)
      /\ \/ /\ terminals = 1 /\ item' = "completed" /\ audits' = [audits EXCEPT !.plan = 1]
            /\ frame'[w].pc = "done"
         \/ frame'[w].pc = "m_rehash" /\ intents # {} /\ UNCHANGED <<item, audits>>
         \/ frame'[w].pc \in {"m_hash", "failed"} /\ UNCHANGED <<item, audits>>
  BY <1>0, <1>1, GoEffect DEF OpenMedia, LeasePc, FreePc, Others
<1>3. UNCHANGED <<kind, owner, faults, tampers, entry, evidence, file, intents, marks, terminals, Names>>
  BY <1>1 DEF env, journal, Names, Owned
<1>4. TypeOK' /\ RecordOK' /\ Grows(w)
  BY <1>1, <1>2, <1>3 DEF IInv, TypeOK, RecordOK, Grows, Others, Frames
<1>5. ActorOK(w)'
  BY <1>1, <1>2, <1>3 DEF ActorOK, EntryPc, MediaPc
<1> QED BY <1>0, <1>2, <1>4, <1>5, ActorStep

(* So does hashing the media file.                                         *)
LEMMA HashStep ==
    ASSUME IInv, NEW w \in Worker, Hash(w)
    PROVE  IInv'
<1>0. w \in Actor
  BY DEF Actor
<1>1. /\ frame \in [Actor -> Frames] /\ frame[w].pc = "m_hash" /\ ActorOK(w) /\ kind = "media"
      /\ UNCHANGED <<env, rows, file, journal>>
  BY <1>0 DEF IInv, TypeOK, Frames, Hash, At, ActorOK, MediaPc
<1>2. Others(w) /\ frame'[w].pc \in {"m_intend", "failed"}
  BY <1>0, <1>1, GoEffect, PermanentDeleteAssumption DEF Hash, Unlinking, LeasePc, FreePc, Others
<1>3. ActorOK(w)'
  BY <1>1, <1>2 DEF ActorOK, EntryPc, MediaPc, env, rows, journal
<1> QED BY <1>0, <1>1, <1>2, <1>3, MoveStep

(* So does committing the intent for the media file.                       *)
LEMMA IntendMediaStep ==
    ASSUME IInv, NEW w \in Worker, IntendMedia(w)
    PROVE  IInv'
<1>0. w \in Actor
  BY DEF Actor
<1>1. /\ frame \in [Actor -> Frames] /\ frame[w].pc = "m_intend" /\ ActorOK(w) /\ kind = "media" /\ Names = {"media"}
      /\ UNCHANGED <<env, rows, file, marks, terminals>>
  BY <1>0, NamesOf DEF IInv, TypeOK, Frames, IntendMedia, At, ActorOK, MediaPc
<1>2. /\ Others(w)
      /\ \/ frame'[w].pc = "failed" /\ intents' = intents
         \/ frame'[w].pc = "m_rehash" /\ terminals = 0 /\ intents' = {"media"}
  BY <1>0, <1>1, GoEffect DEF IntendMedia, LeasePc, FreePc, Others
<1>3. UNCHANGED <<kind, owner, faults, tampers, entry, item, evidence, audits, file, marks, terminals, Names>>
  BY <1>1 DEF env, rows, Names, Owned
<1>4. TypeOK' /\ RecordOK' /\ Grows(w)
  BY <1>1, <1>2, <1>3 DEF IInv, TypeOK, RecordOK, Grows, Others, Frames
<1>5. ActorOK(w)'
  BY <1>1, <1>2, <1>3 DEF ActorOK, EntryPc, MediaPc
<1> QED BY <1>0, <1>2, <1>4, <1>5, ActorStep

(* So does hashing it again.                                               *)
LEMMA RehashStep ==
    ASSUME IInv, NEW w \in Worker, Rehash(w)
    PROVE  IInv'
<1>0. w \in Actor
  BY DEF Actor
<1>1. /\ frame \in [Actor -> Frames] /\ frame[w].pc = "m_rehash" /\ ActorOK(w) /\ kind = "media"
      /\ UNCHANGED <<env, rows, file, journal>>
  BY <1>0 DEF IInv, TypeOK, Frames, Rehash, At, ActorOK, MediaPc
<1>2. Others(w) /\ (frame'[w].pc \in {"m_fence", "failed"} \/ (frame'[w].pc = "m_final" /\ file["media"] # Original))
  BY <1>0, <1>1, GoEffect, PermanentDeleteAssumption DEF Rehash, Unlinking, LeasePc, FreePc, Others
<1>3. ActorOK(w)'
  BY <1>1, <1>2 DEF ActorOK, EntryPc, MediaPc, env, rows, journal
<1> QED BY <1>0, <1>1, <1>2, <1>3, MoveStep

(* So does the assertion of the lease.                                     *)
LEMMA FenceMediaStep ==
    ASSUME IInv, NEW w \in Worker, FenceMedia(w)
    PROVE  IInv'
<1>0. w \in Actor
  BY DEF Actor
<1>1. /\ frame \in [Actor -> Frames] /\ frame[w].pc = "m_fence" /\ ActorOK(w) /\ kind = "media"
      /\ UNCHANGED <<env, rows, file, journal>>
  BY <1>0 DEF IInv, TypeOK, Frames, FenceMedia, At, ActorOK, MediaPc
<1>2. Others(w) /\ frame'[w].pc = "m_unlink"
  BY <1>0, <1>1, GoEffect, PermanentDeleteAssumption DEF FenceMedia, Unlinking, LeasePc, FreePc, Others
<1>3. ActorOK(w)'
  BY <1>1, <1>2 DEF ActorOK, EntryPc, MediaPc, env, rows, journal
<1> QED BY <1>0, <1>1, <1>2, <1>3, MoveStep

(* So does the unlink of the media file.                                   *)
LEMMA UnlinkMediaStep ==
    ASSUME IInv, NEW w \in Worker, UnlinkMedia(w)
    PROVE  IInv'
<1>0. w \in Actor
  BY DEF Actor
<1>1. /\ frame \in [Actor -> Frames] /\ frame[w].pc = "m_unlink" /\ ActorOK(w) /\ kind = "media"
      /\ UNCHANGED <<env, rows, journal>> /\ file \in [Role -> {None, Original, Alien}]
  BY <1>0 DEF IInv, TypeOK, Frames, UnlinkMedia, At, ActorOK, MediaPc
<1>2. /\ Others(w) /\ frame'[w].pc \in {"m_final", "failed"}
      /\ frame'[w].pc = "m_final" => file["media"] \in {Original, None}
      /\ file' = (IF file["media"] = Original THEN [file EXCEPT !["media"] = None] ELSE file)
  BY <1>0, <1>1, GoEffect DEF UnlinkMedia, Unlinking, LeasePc, FreePc, Others
<1>3. UNCHANGED <<kind, owner, faults, tampers, entry, item, evidence, audits, intents, marks, terminals, Names>>
  BY <1>1 DEF env, rows, journal, Names, Owned
<1>4. /\ file' \in [Role -> {None, Original, Alien}] /\ "media" \in Role /\ Names \subseteq Role
      /\ \A r \in Role : file'[r] = Original => file[r] = Original
      /\ frame'[w].pc = "m_final" => file'["media"] # Original
  BY <1>1, <1>2, PermanentDeleteAssumption, NamesOf DEF Role
<1>5. TypeOK' /\ RecordOK' /\ Grows(w)
  BY <1>1, <1>2, <1>3, <1>4 DEF IInv, TypeOK, RecordOK, Grows, Others, Frames
<1>6. ActorOK(w)'
  BY <1>1, <1>2, <1>3, <1>4 DEF ActorOK, EntryPc, MediaPc
<1> QED BY <1>0, <1>2, <1>5, <1>6, ActorStep

(* What the record of a finished deletion needs.                           *)
LEMMA FinalizedEffect ==
    ASSUME IInv, kind = "media", intents # {}, file["media"] # Original, Finalized,
           UNCHANGED <<env, entry, file, intents, marks>>, frame' \in [Actor -> Frames]
    PROVE  /\ TypeOK' /\ RecordOK'
           /\ terminals' = 1 /\ UNCHANGED <<kind, owner, entry, file, intents>>
<1>1. Names = {"media"} /\ intents = Names /\ Names' = Names
  BY NamesOf DEF IInv, TypeOK, Names, Owned, env
<1>2. /\ audits' \in [plan : Nat, clear : Nat] /\ audits'.plan = 1 /\ audits'.clear = audits.clear
      /\ evidence' \in {"changed", "gone"}
  BY DEF IInv, TypeOK, Finalized
<1>3. TypeOK'
  BY <1>1, <1>2 DEF IInv, TypeOK, Finalized, env, Frames
<1>4. RecordOK'
  BY <1>1, <1>2 DEF IInv, RecordOK, Finalized, env
<1> QED BY <1>3, <1>4 DEF Finalized, env

(* So does the transaction that records the end of the deletion.           *)
LEMMA FinalizeMediaStep ==
    ASSUME IInv, NEW w \in Worker, FinalizeMedia(w)
    PROVE  IInv'
<1>0. w \in Actor
  BY DEF Actor
<1>1. /\ frame \in [Actor -> Frames] /\ frame[w].pc = "m_final" /\ ActorOK(w) /\ w = owner /\ kind = "media"
      /\ intents # {} /\ Finalized /\ UNCHANGED <<env, entry, file, intents, marks>>
  BY <1>0 DEF IInv, TypeOK, Frames, FinalizeMedia, At, Holding, ActorOK, MediaPc
<1>2. Others(w) /\ frame'[w].pc = "done"
  BY <1>0, <1>1, GoEffect DEF FinalizeMedia, LeasePc, FreePc, Others
<1>3. file["media"] # Original
  BY <1>1 DEF ActorOK
<1>4. TypeOK' /\ RecordOK' /\ Grows(w) /\ UNCHANGED <<kind, owner, entry, file, intents>>
  BY <1>0, <1>1, <1>2, <1>3, FinalizedEffect DEF Others, Grows
<1>5. ActorOK(w)'
  BY <1>1, <1>2, <1>3, <1>4 DEF ActorOK, EntryPc, MediaPc, Finalized
<1> QED BY <1>0, <1>2, <1>4, <1>5, ActorStep

(* So does the reconciliation of an item found executing.                  *)
LEMMA ReconcileMediaStep ==
    ASSUME IInv, NEW w \in Worker, ReconcileMedia(w)
    PROVE  IInv'
<1>0. w \in Actor
  BY DEF Actor
<1>1. /\ frame \in [Actor -> Frames] /\ frame[w].pc = "idle" /\ ActorOK(w) /\ w = owner /\ kind = "media"
      /\ item = "executing" /\ frame' = frame /\ UNCHANGED <<env, entry, file, intents, marks>>
  BY <1>0 DEF IInv, TypeOK, Frames, ReconcileMedia, At, Holding
<1>2. Others(w) /\ frame'[w].pc = "idle"
  BY <1>1 DEF Others
<1>3. CASE terminals > 0 \/ (intents /= {} /\ file["media"] = None)
  <2>1. Finalized
    BY <1>3 DEF ReconcileMedia
  <2>2. Names = {"media"} /\ intents # {} /\ file["media"] # Original
    BY <1>1, <1>3, NamesOf, PermanentDeleteAssumption DEF IInv, RecordOK
  <2>3. TypeOK' /\ RecordOK' /\ Grows(w)
    BY <1>1, <1>2, <2>1, <2>2, FinalizedEffect DEF Grows, Others
  <2>4. ActorOK(w)'
    BY <1>1, <1>2 DEF ActorOK, EntryPc, MediaPc, env
  <2> QED BY <1>0, <1>2, <2>3, <2>4, ActorStep
<1>4. CASE ~(terminals > 0 \/ (intents /= {} /\ file["media"] = None))
  <2>1. item' \in {"planned", "failed"} /\ UNCHANGED <<evidence, audits, terminals>>
    BY <1>4 DEF ReconcileMedia
  <2>2. UNCHANGED <<kind, owner, faults, tampers, entry, evidence, audits, file, intents, marks, terminals, Names>>
    BY <1>1, <2>1 DEF env, Names, Owned
  <2>3. TypeOK' /\ RecordOK' /\ Grows(w)
    BY <1>1, <1>2, <2>1, <2>2 DEF IInv, TypeOK, RecordOK, Grows, Others, Frames
  <2>4. ActorOK(w)'
    BY <1>1, <1>2, <2>2 DEF ActorOK, EntryPc, MediaPc
  <2> QED BY <1>0, <1>2, <2>3, <2>4, ActorStep
<1> QED BY <1>3, <1>4

-----------------------------------------------------------------------------
(* Workers that stop, the lease that changes hands, other requests, users  *)

(* So do a crash and a worker that gives up.                               *)
LEMMA StoppingStep ==
    ASSUME IInv, NEW a \in Actor, Crash(a) \/ (a \in Worker /\ Abandon(a))
    PROVE  IInv'
<1>1. Stop(a) /\ frame \in [Actor -> Frames] /\ ActorOK(a)
  BY DEF Crash, Abandon, IInv, TypeOK, Frames
<1>2. Others(a) /\ frame'[a].pc = "idle"
  BY <1>1, StopEffect DEF Others
<1>3. /\ UNCHANGED <<kind, owner, tampers, entry, item, evidence, audits, file, intents, marks, terminals, Names>>
      /\ faults' \in 0..MaxFaults
  BY PermanentDeleteAssumption DEF Crash, Abandon, env, rows, journal, Names, Owned, IInv, TypeOK
<1>4. TypeOK' /\ RecordOK' /\ Grows(a)
  BY <1>2, <1>3 DEF IInv, TypeOK, RecordOK, Grows, Others, Frames
<1>5. ActorOK(a)'
  BY <1>1, <1>2, <1>3 DEF ActorOK, EntryPc, MediaPc
<1> QED BY <1>2, <1>4, <1>5, ActorStep

(* So does another worker's takeover of the lease.                         *)
LEMMA TakeOverStep ==
    ASSUME IInv, NEW w \in Worker, TakeOver(w)
    PROVE  IInv'
<1>1. /\ UNCHANGED <<kind, tampers, entry, item, evidence, audits, file, intents, marks, terminals, frame, Names>>
      /\ owner' = w /\ frame[w].pc = "idle" /\ faults' \in 0..MaxFaults
  BY PermanentDeleteAssumption DEF TakeOver, At, rows, journal, Names, Owned, IInv, TypeOK
<1>2. TypeOK' /\ RecordOK'
  BY <1>1 DEF IInv, TypeOK, RecordOK
<1>3. ASSUME NEW a \in Actor PROVE ActorOK(a)'
  <2>1. RoleOf(a)' = RoleOf(a) /\ ActorOK(a)
    BY <1>1 DEF RoleOf, Owned, IInv
  <2> QED BY <1>1, <2>1 DEF ActorOK, EntryPc
<1> QED BY <1>2, <1>3 DEF IInv

(* So does a restore that takes the entry.                                 *)
LEMMA BeginRestoreStep ==
    ASSUME IInv, NEW w \in Worker, BeginRestore(w)
    PROVE  IInv'
<1>0. w \in Actor
  BY DEF Actor
<1>1. /\ frame' = frame /\ kind = "entry" /\ entry = "active" /\ entry' = "restoring" /\ ActorOK(w)
      /\ UNCHANGED <<kind, owner, faults, tampers, item, evidence, audits, file, intents, marks, terminals, Names>>
  BY <1>0 DEF BeginRestore, env, journal, Names, Owned, IInv
<1>2. TypeOK' /\ RecordOK' /\ Grows(w) /\ Others(w)
  BY <1>1 DEF IInv, TypeOK, RecordOK, Grows, Others, Frames
<1>3. ActorOK(w)'
  <2>1. RoleOf(w)' = RoleOf(w)
    BY <1>1 DEF RoleOf, Owned
  <2> QED BY <1>1, <2>1 DEF ActorOK, EntryPc
<1> QED BY <1>0, <1>2, <1>3, ActorStep

(* Users only take the frozen files away, and what is known of them.       *)
LEMMA UserStep ==
    ASSUME IInv, (\E r \in Names, c \in {None, Alien} : Tamper(r, c)) \/ Reprobe
    PROVE  IInv'
<1>1. /\ UNCHANGED <<kind, owner, faults, entry, item, audits, frame, intents, marks, terminals, Names>>
      /\ tampers' \in 0..MaxTampers
  BY PermanentDeleteAssumption DEF Tamper, Reprobe, rows, journal, Names, Owned, IInv, TypeOK
<1>2. /\ file' \in [Role -> {None, Original, Alien}]
      /\ \A r \in Role : file'[r] = Original => file[r] = Original
  BY PermanentDeleteAssumption DEF Tamper, Reprobe, IInv, TypeOK
<1>3. evidence' = evidence \/ evidence' = "changed"
  BY DEF Tamper, Reprobe, rows
<1>4. Names \subseteq Role /\ "media" \in Role
  BY NamesOf DEF IInv, TypeOK, Role
<1>5. TypeOK' /\ RecordOK'
  BY <1>1, <1>2, <1>3, <1>4 DEF IInv, TypeOK, RecordOK
<1>6. ASSUME NEW a \in Actor PROVE ActorOK(a)'
  <2>1. RoleOf(a)' = RoleOf(a) /\ ActorOK(a)
    BY <1>1 DEF RoleOf, Owned, IInv
  <2> QED BY <1>1, <1>2, <1>4, <2>1 DEF ActorOK
<1> QED BY <1>5, <1>6 DEF IInv

(* Every step keeps the invariant.                                         *)
LEMMA InvStep == IInv /\ [Next]_vars => IInv'
<1> SUFFICES ASSUME IInv, [Next]_vars PROVE IInv'
  OBVIOUS
<1>1. ASSUME NEW a \in Actor, Purge(a) PROVE IInv'
  BY <1>1, EnterStep, AuthorizeStep, FrozenStep, LookupStep, ProbeStep, IntendStep, UnlinkStep, MarkStep, TerminalStep
  DEF Purge
<1>2. ASSUME NEW w \in Worker, DeleteMedia(w) PROVE IInv'
  BY <1>2, OpenMediaStep, HashStep, IntendMediaStep, RehashStep, FenceMediaStep, UnlinkMediaStep, FinalizeMediaStep
  DEF DeleteMedia
<1>3. ASSUME NEW w \in Worker, Work(w) PROVE IInv'
  BY <1>1, <1>2, <1>3, FenceStep, ReconcileMediaStep, ItemDoneStep, ItemFailedStep, StoppingStep, ExecuteStep
  DEF Work, Actor
<1>4. ASSUME NEW w \in Worker, Execute(w) \/ BeginRestore(w) \/ TakeOver(w) PROVE IInv'
  BY <1>4, ExecuteStep, BeginRestoreStep, TakeOverStep
<1>5. ASSUME NEW c \in Clerk, Clear(c) \/ Purge(c) \/ Audit(c) PROVE IInv'
  BY <1>1, <1>5, ClearStep, AuditStep DEF Actor
<1>6. ASSUME NEW a \in Actor, Crash(a) PROVE IInv'
  BY <1>6, StoppingStep
<1>7. ASSUME UNCHANGED vars PROVE IInv'
  <2>1. TypeOK' /\ RecordOK'
    BY <1>7 DEF vars, IInv, TypeOK, RecordOK, Names, Owned
  <2>2. ASSUME NEW a \in Actor PROVE ActorOK(a)'
    BY <1>7 DEF vars, IInv, ActorOK, RoleOf, Owned
  <2> QED BY <2>1, <2>2 DEF IInv
<1> QED BY <1>3, <1>4, <1>5, <1>6, <1>7, UserStep DEF Next

-----------------------------------------------------------------------------
(* Theorems                                                                *)

(* The invariant holds in every state.                                     *)
LEMMA Invariance == Spec => []IInv
<1>1. Init => IInv
  BY InvInit
<1>2. IInv /\ [Next]_vars => IInv'
  BY InvStep
<1> QED BY <1>1, <1>2, PTL DEF Spec

(* Every variable of the deletions has its type, always.                   *)
THEOREM DeleteTypeCorrect == Spec => []TypeOK
<1>1. IInv => TypeOK
  BY DEF IInv
<1> QED BY <1>1, Invariance, PTL

(* RecordedOnce: one terminal record, one audit of each kind, and a whole  *)
(* journal behind whatever is reported as done.                            *)
THEOREM RecordsOnce == Spec => []RecordedOnce
<1>1. IInv => RecordedOnce
  <2> SUFFICES ASSUME IInv PROVE RecordedOnce
    OBVIOUS
  <2>1. RecordOK /\ TypeOK
    BY DEF IInv
  <2>2. entry = "purged" => kind = "entry"
    BY <2>1 DEF RecordOK, TypeOK
  <2>3. terminals = 1 => Proven
    BY <2>1 DEF RecordOK, Proven
  <2>4. audits.plan + audits.clear > 0 => audits.plan = 1 \/ audits.clear = 1
    BY <2>1 DEF RecordOK
  <2> QED BY <2>1, <2>2, <2>3, <2>4 DEF RecordedOnce, RecordOK
<1> QED BY <1>1, Invariance, PTL

(* How a step can change a file: by an unlink whose intent is behind it,   *)
(* of the frozen file and no other, or by the hand of a user.              *)
LEMMA FileStep ==
    ASSUME IInv, [Next]_vars, NEW r \in Role, file'[r] # file[r], tampers' = tampers
    PROVE  file[r] = Original /\ r \in intents /\ entry # "restoring" /\ (kind = "entry" => entry # "active")
<1>1. file \in [Role -> {None, Original, Alien}] /\ tampers \in Nat
  BY DEF IInv, TypeOK
<1>2. \A a \in Actor : ActorOK(a)
  BY DEF IInv
<1>3. ASSUME NEW a \in Actor, Purge(a)
      PROVE  file[r] = Original /\ r \in intents /\ entry # "restoring" /\ (kind = "entry" => entry # "active")
  <2>1. Unlink(a)
    BY <1>3 DEF Purge, Enter, Authorize, Frozen, Lookup, Probe, Intend, Mark, Terminal
  <2>2. frame[a].pc = "unlink" /\ file' # file
    BY <2>1 DEF Unlink, At
  <2>3. file[RoleOf(a)] = Original /\ file' = [file EXCEPT ![RoleOf(a)] = None]
    BY <2>1, <2>2 DEF Unlink
  <2>4. r = RoleOf(a)
    BY <1>1, <2>3
  <2> QED BY <1>2, <2>2, <2>3, <2>4 DEF ActorOK
<1>4. ASSUME NEW w \in Worker, DeleteMedia(w)
      PROVE  file[r] = Original /\ r \in intents /\ entry # "restoring" /\ (kind = "entry" => entry # "active")
  <2>1. UnlinkMedia(w)
    BY <1>4 DEF DeleteMedia, OpenMedia, Hash, IntendMedia, Rehash, FenceMedia, FinalizeMedia
  <2>2. frame[w].pc = "m_unlink" /\ w \in Actor
    BY <2>1 DEF UnlinkMedia, At, Actor
  <2>3. file["media"] = Original /\ file' = [file EXCEPT !["media"] = None]
    BY <2>1 DEF UnlinkMedia
  <2>4. r = "media"
    BY <1>1, <2>3
  <2>5. kind = "media" /\ intents # {}
    BY <1>2, <2>2 DEF ActorOK, MediaPc
  <2>6. intents = {"media"} /\ entry = "active"
    BY <2>5, NamesOf DEF IInv, TypeOK, RecordOK
  <2> QED BY <2>3, <2>4, <2>5, <2>6
<1>5. CASE \E s \in Names, c \in {None, Alien} : Tamper(s, c)
  BY <1>1, <1>5 DEF Tamper
<1> QED BY <1>3, <1>4, <1>5 DEF Next, Work, Actor, vars, Fence, ReconcileMedia, ItemDone, ItemFailed, Abandon, Execute,
             BeginRestore, TakeOver, Clear, Audit, Crash, Reprobe

(* OnlyTheFrozenFile: nobody removes another file than the frozen one, nor *)
(* anything without its intent, nor of an entry that a restore has taken.  *)
THEOREM RemovesOnlyFrozen == Spec => OnlyTheFrozenFile
<1>1. IInv /\ [Next]_vars =>
          [\A r \in Role : file'[r] /= file[r] /\ tampers' = tampers =>
              file[r] = Original /\ r \in intents /\ entry /= "restoring" /\ (kind = "entry" => entry /= "active")]_vars
  BY FileStep
<1> QED BY <1>1, Invariance, PTL DEF Spec, OnlyTheFrozenFile

-----------------------------------------------------------------------------
(* Both engines implement the write-ahead deletion                         *)

Kept == <<Names, {r \in Names : file[r] = Original}, intents, terminals > 0, tampers>>

(* An intent is written while the deletion is open.                        *)
LEMMA IntendsInOrder ==
    ASSUME IInv, NEW a \in Actor, Intend(a) \/ (a \in Worker /\ IntendMedia(a))
    PROVE  UNCHANGED Kept \/ \E n \in Names : Delete!Intend(n)
<1>1. UNCHANGED <<Names, file, terminals, tampers>>
  BY DEF Intend, IntendMedia, env, Names, Owned
<1>2. intents' = intents \/ \E n \in Names : intents' = intents \cup {n} /\ ~(terminals > 0)
  <2>1. CASE Intend(a)
    <3>1. kind = "entry" /\ frame \in [Actor -> Frames]
      BY <2>1 DEF IInv, TypeOK, Frames, Intend, At, ActorOK, EntryPc
    <3>2. RoleOf(a) \in Names
      BY <3>1, RoleInNames
    <3>3. entry = "purging" => terminals = 0
      BY <3>1 DEF IInv, RecordOK
    <3> QED BY <2>1, <3>2, <3>3 DEF Intend
  <2>2. CASE a \in Worker /\ IntendMedia(a)
    <3>1. kind = "media"
      BY <2>2 DEF IInv, IntendMedia, At, ActorOK, MediaPc
    <3>2. Names = {"media"} /\ intents \subseteq {"media"}
      BY <3>1, NamesOf DEF IInv, TypeOK
    <3>3. CASE intents' # intents
      <4>1. terminals = 0 /\ intents' = {"media"}
        BY <2>2, <3>3 DEF IntendMedia
      <4>2. ~(terminals > 0)
        BY <4>1
      <4>3. intents \cup {"media"} = {"media"}
        BY <3>2
      <4> QED BY <3>2, <4>1, <4>2, <4>3
    <3> QED BY <3>3
  <2> QED BY <2>1, <2>2
<1> QED BY <1>1, <1>2 DEF Kept, Delete!Intend

(* A file that disappears had its intent, or was taken by a user.          *)
LEMMA RemovesIntended ==
    ASSUME IInv, NEW a \in Actor, Unlink(a) \/ (a \in Worker /\ UnlinkMedia(a))
    PROVE  UNCHANGED Kept \/ \E n \in Names : Delete!Remove(n)
<1>1. UNCHANGED <<kind, Names, intents, terminals, tampers>> /\ ActorOK(a)
  BY DEF Unlink, UnlinkMedia, env, journal, Names, Owned, IInv
<1>2. file \in [Role -> {None, Original, Alien}] /\ Names \subseteq Role
  BY NamesOf DEF IInv, TypeOK
<1>3. file' = file \/ \E n \in Names : n \in intents /\ file' = [file EXCEPT ![n] = None]
  <2>1. CASE Unlink(a)
    <3>1. kind = "entry" /\ frame \in [Actor -> Frames]
      BY <2>1 DEF IInv, TypeOK, Frames, Unlink, At, ActorOK, EntryPc
    <3>2. RoleOf(a) \in Names /\ RoleOf(a) \in intents
      BY <1>1, <2>1, <3>1, RoleInNames DEF ActorOK, Unlink, At
    <3> QED BY <2>1, <3>2 DEF Unlink
  <2>2. CASE a \in Worker /\ UnlinkMedia(a)
    <3>1. kind = "media" /\ intents # {}
      BY <1>1, <2>2 DEF UnlinkMedia, At, ActorOK, MediaPc
    <3>2. Names = {"media"} /\ intents = {"media"}
      BY <3>1, NamesOf DEF IInv, TypeOK
    <3> QED BY <2>2, <3>2 DEF UnlinkMedia
  <2> QED BY <2>1, <2>2
<1>4. ASSUME NEW n \in Names, n \in intents, file' = [file EXCEPT ![n] = None] PROVE Delete!Remove(n)
  <2>1. {r \in Names : file'[r] = Original} = {r \in Names : file[r] = Original} \ {n}
    BY <1>2, <1>4, PermanentDeleteAssumption
  <2> QED BY <1>1, <1>4, <2>1 DEF Delete!Remove
<1> QED BY <1>1, <1>3, <1>4 DEF Kept

(* The end is recorded once everything is intended and gone.               *)
LEMMA ClosesComplete ==
    ASSUME IInv, NEW a \in Actor, Terminal(a) \/ (a \in Worker /\ (FinalizeMedia(a) \/ ReconcileMedia(a)))
    PROVE  UNCHANGED Kept \/ Delete!Close
<1>1. UNCHANGED <<kind, Names, intents, file, tampers>> /\ terminals \in {0, 1} /\ ActorOK(a)
  BY DEF Terminal, FinalizeMedia, ReconcileMedia, env, Names, Owned, IInv, RecordOK
<1>2. CASE terminals' = terminals
  BY <1>1, <1>2 DEF Kept
<1>3. CASE terminals = 1
  <2>1. CASE Terminal(a)
    <3>1. kind = "entry"
      BY <1>1, <2>1 DEF Terminal, At, ActorOK, EntryPc
    <3>2. entry # "purging"
      BY <1>3, <3>1 DEF IInv, RecordOK
    <3> QED BY <2>1, <3>2, <1>1, <1>3 DEF Terminal, Kept
  <2>2. CASE a \in Worker /\ (FinalizeMedia(a) \/ ReconcileMedia(a))
    <3>1. terminals' = 1 \/ terminals' = terminals
      BY <2>2 DEF FinalizeMedia, ReconcileMedia, Finalized
    <3> QED BY <3>1, <1>1, <1>3 DEF Kept
  <2> QED BY <2>1, <2>2
<1>4. CASE terminals = 0 /\ terminals' # terminals
  <2>1. terminals' = 1 /\ intents = Names /\ \A r \in Names : file[r] # Original
    <3>1. CASE Terminal(a)
      <4>1. Absent /\ intents = Names /\ terminals' = terminals + 1
        BY <1>4, <3>1 DEF Terminal
      <4> QED BY <1>4, <4>1, PermanentDeleteAssumption DEF Absent
    <3>2. CASE a \in Worker /\ FinalizeMedia(a)
      <4>1. kind = "media" /\ file["media"] # Original /\ intents # {}
        BY <1>1, <3>2 DEF FinalizeMedia, At, ActorOK, MediaPc
      <4>2. Names = {"media"} /\ intents = Names
        BY <4>1, NamesOf DEF IInv, TypeOK
      <4> QED BY <3>2, <4>1, <4>2 DEF FinalizeMedia, Finalized
    <3>3. CASE a \in Worker /\ ReconcileMedia(a)
      <4>1. kind = "media" /\ intents # {} /\ file["media"] = None /\ terminals' = 1
        BY <1>4, <3>3 DEF ReconcileMedia, Finalized
      <4>2. Names = {"media"} /\ intents = Names
        BY <4>1, NamesOf DEF IInv, TypeOK
      <4> QED BY <4>1, <4>2, PermanentDeleteAssumption
    <3> QED BY <3>1, <3>2, <3>3
  <2>2. {r \in Names : file[r] = Original} = {} /\ {r \in Names : file'[r] = Original} = {}
    BY <1>1, <2>1
  <2>3. ~(terminals > 0) /\ (terminals' > 0) = TRUE
    BY <1>4, <2>1
  <2> QED BY <1>1, <2>1, <2>2, <2>3 DEF Delete!Close
<1> QED BY <1>1, <1>2, <1>3, <1>4

(* What users do is a touch.                                               *)
LEMMA UsersTouch ==
    ASSUME IInv, (\E r \in Names, c \in {None, Alien} : Tamper(r, c)) \/ Reprobe
    PROVE  \E n \in Names : Delete!Touch(n)
<1>1. UNCHANGED <<Names, intents, terminals>> /\ tampers' = tampers + 1
  BY DEF Tamper, Reprobe, journal, Names, Owned
<1>2. file \in [Role -> {None, Original, Alien}] /\ Names \subseteq Role /\ Names # {}
  BY NamesOf DEF IInv, TypeOK
<1>3. ASSUME NEW n \in Names, NEW c \in {None, Alien}, Tamper(n, c) PROVE Delete!Touch(n)
  <2>1. {r \in Names : file'[r] = Original} = {r \in Names : file[r] = Original} \ {n}
    BY <1>2, <1>3, PermanentDeleteAssumption DEF Tamper
  <2> QED BY <1>1, <2>1 DEF Delete!Touch
<1>4. CASE Reprobe
  <2>1. file' = file
    BY <1>4 DEF Reprobe
  <2> QED BY <1>1, <1>2, <2>1 DEF Delete!Touch
<1> QED BY <1>3, <1>4

(* Every step is one of the write-ahead deletion, or a stutter.            *)
LEMMA DeleteStep == IInv /\ [Next]_vars => [Delete!Next]_(Delete!vars)
<1> SUFFICES ASSUME IInv, [Next]_vars PROVE UNCHANGED Kept \/ Delete!Next
  BY DEF Kept, Delete!vars
<1>0. UNCHANGED <<kind, file, intents, terminals, tampers>> => UNCHANGED Kept
  BY DEF Kept, Names, Owned
<1>1. ASSUME NEW a \in Actor, Purge(a) PROVE UNCHANGED Kept \/ Delete!Next
  <2>1. CASE Intend(a) \/ Unlink(a) \/ Terminal(a)
    BY <2>1, IntendsInOrder, RemovesIntended, ClosesComplete DEF Delete!Next
  <2>2. CASE Enter(a) \/ Authorize(a) \/ Frozen(a) \/ Lookup(a) \/ Probe(a) \/ Mark(a)
    BY <1>0, <2>2 DEF Enter, Authorize, Frozen, Lookup, Probe, Mark, env, journal
  <2> QED BY <1>1, <2>1, <2>2 DEF Purge
<1>2. ASSUME NEW w \in Worker, Work(w) PROVE UNCHANGED Kept \/ Delete!Next
  <2>0. w \in Actor
    BY DEF Actor
  <2>1. CASE IntendMedia(w) \/ UnlinkMedia(w) \/ FinalizeMedia(w) \/ ReconcileMedia(w)
    BY <2>0, <2>1, IntendsInOrder, RemovesIntended, ClosesComplete DEF Delete!Next
  <2>2. CASE \/ OpenMedia(w) \/ Hash(w) \/ Rehash(w) \/ FenceMedia(w) \/ Fence(w)
             \/ ItemDone(w) \/ ItemFailed(w) \/ Abandon(w) \/ Execute(w)
    BY <1>0, <2>2 DEF OpenMedia, Hash, Rehash, FenceMedia, Fence, ItemDone, ItemFailed, Abandon, Execute, env, journal
  <2> QED BY <1>1, <1>2, <2>0, <2>1, <2>2 DEF Work, DeleteMedia
<1>3. CASE \/ \E w \in Worker : Execute(w) \/ BeginRestore(w) \/ TakeOver(w)
           \/ \E c \in Clerk : Clear(c) \/ Audit(c)
           \/ \E a \in Actor : Crash(a)
           \/ UNCHANGED vars
  BY <1>0, <1>3 DEF Execute, BeginRestore, TakeOver, Clear, Audit, Crash, vars, env, journal
<1>4. CASE (\E r \in Names, c \in {None, Alien} : Tamper(r, c)) \/ Reprobe
  BY <1>4, UsersTouch DEF Delete!Next
<1> QED BY <1>1, <1>2, <1>3, <1>4 DEF Next, Actor

(* WriteAhead: the purge of an entry and the deletion of a media file are  *)
(* write-ahead deletions: a name goes after its intent, the end is         *)
(* recorded once, when all names were intended and none is left.           *)
THEOREM DeletionIsWriteAhead == Spec => WriteAhead
<1>1. Init => Delete!Init
  <2> SUFFICES ASSUME Init PROVE Delete!Init
    OBVIOUS
  <2>1. Names \subseteq Role
    BY NamesOf DEF Init
  <2>2. \A r \in Names : file[r] = Original
    BY <2>1 DEF Init
  <2>3. {r \in Names : file[r] = Original} = Names
    BY <2>2
  <2>4. intents = {} /\ (terminals > 0) = FALSE /\ tampers = 0
    BY DEF Init
  <2> QED BY <2>3, <2>4 DEF Delete!Init
<1> QED BY <1>1, DeleteStep, Invariance, PTL DEF Spec, WriteAhead, Delete!Spec
=============================================================================
