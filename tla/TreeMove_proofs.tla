--------------------------- MODULE TreeMove_proofs ---------------------------
(***************************************************************************)
(* Theorems of TreeMove, for any set of workers and any number of crashes, *)
(* takeovers, failing calls and changes by users: the owner of the lease   *)
(* takes away no last name of a file, what is reported moved is at the     *)
(* target, what was moved is found to be, and the clean-up that follows    *)
(* says of the emptied folder what is the case.                            *)
(***************************************************************************)
EXTENDS TreeMove, TLAPS, FiniteSetTheorems

(***************************************************************************)
(* The rows of the two items                                               *)
(***************************************************************************)

Settled == {"completed", "skipped", "failed"}

\* The clean-up is begun after the move is settled.
Order == clean /= "planned" => move \in Settled

\* Only what is completed has been journalled.
Journalled ==
    /\ move /= "completed" => journals.move = 0
    /\ clean /= "completed" => journals.clean = 0

BeforePc == {"boundary", "intent"}
HeadPc == {"load", "save", "root", "make_root", "record_root", "migrate"}
UnlinkPc == {"retire_file", "undo_file", "unlink_file"}
DirPc == {"record_dir", "enter_dir", "link", "publish_link", "record_link", "unlink_link", "leave_dir"}
TreePc == {"file", "link_file", "dir", "make_dir", "leave"} \cup UnlinkPc \cup DirPc
GonePc == {"confirm", "transplanted", "list", "rmdir", "removed", "kept"}
PairPc == {"look", "guard", "check", "rename", "enter", "failed", "skipped"} \cup HeadPc \cup TreePc \cup GonePc
CleanUpPc == {"begun", "authority", "rmdir_own", "relocate", "verify", "put_back"} \cup CleanPc

\* What the rows say when a worker is at a step.
Stage(w) ==
    /\ At(w, "preflight") => move /= "executing"
    /\ frame[w].pc \in BeforePc => move = "planned"
    /\ frame[w].pc \in PairPc => move = "executing"
    /\ At(w, "clean_intent") => move \in Settled
    /\ frame[w].pc \in CleanUpPc => clean = "executing"

Rows ==
    /\ Order /\ Journalled
    /\ \A w \in Worker : (Holding(w) => Stage(w)) /\ (At(w, "tidy") => move = "completed")

(***************************************************************************)
(* The trees, while nobody without the lease has changed them              *)
(***************************************************************************)

In(s, e) == names[s][e]

\* What is emptied or missing as a whole has nothing in it.
Shape ==
    /\ In("source", "root") = None => \A e \in Entry : In("source", e) = None
    /\ In("source", "dir") = None => In("source", "link") = None
    /\ In("source", "link") \in {Own, None}
    /\ In("target", "root") = None => \A e \in Entry : In("target", e) = None

\* What the owner is about to take away is somewhere else too.
Handles(w) ==
    /\ frame[w].pc \in UnlinkPc => In("source", "file") /= None /\ In("target", "file") = In("source", "file")
    /\ frame[w].pc \in {"record_link", "unlink_link"} => In("target", "link") = Own
    /\ frame[w].pc \in TreePc => In("target", "root") /= None
    /\ frame[w].pc \in DirPc => In("target", "dir") /= None

Recorded(s) == s /= None /\ "root" \in s.dirs /\ s.phase \in {"migrating", "transplanted"}

\* Where the child is, and what state.json says of it, when the owner is at a step.
Knows(w) ==
    /\ frame[w].pc \in {"intent", "look"} \cup HeadPc => home = Wrapper /\ In("source", "root") /= None
    /\ frame[w].pc \in GonePc => In("source", "root") = None
    /\ At(w, "migrate") => "root" \in Mem(w).dirs
    /\ frame[w].pc \in TreePc \cup {"enter", "transplanted"} =>
           state = Mem(w) /\ "root" \in Mem(w).dirs /\ Mem(w).phase = "migrating"

\* A wrapper with the child in it stays where it is while the child is moved.
Reachable == move = "executing" => home = Wrapper \/ In("source", "root") = None

Trees == Shape /\ Reachable /\ \A w \in Worker : Holding(w) => Handles(w) /\ Knows(w)

(***************************************************************************)
(* The trees, while no user has changed them either                        *)
(***************************************************************************)

\* Every entry is the child's or made for it, and is at the target if not at the source.
Whole ==
    /\ \A e \in Entry : In("source", e) \in {Own, None} /\ In("target", e) \in {Own, Made, None}
    /\ \A e \in {"file", "link"} : In("target", e) /= Made
    /\ \A e \in Entry : In("source", e) = None => In("target", e) /= None

\* The child and the wrapper are the frozen ones, and the state file tells of a transplanted child.
Identified ==
    /\ move = "executing" => ~drifted
    /\ \A w \in Worker : Holding(w) /\ At(w, "intent") => ~drifted
    /\ move = "executing" /\ In("source", "root") = None /\ In("target", "root") = Made => Recorded(state)

IInv ==
    /\ TypeOK /\ Rows
    /\ ~late => Trees
    /\ Undisturbed => Whole /\ Identified

-----------------------------------------------------------------------------
(* The entries are six different values.                                   *)

\* Five values are never six.
LEMMA FiveAreNotSix == \A a, b, c, d, e : Cardinality({a, b, c, d, e}) /= 6
<1> TAKE a, b, c, d, e
<1>1. IsFiniteSet({}) /\ Cardinality({}) = 0
  BY FS_EmptySet
<1>2. IsFiniteSet({a}) /\ Cardinality({a}) \in 0..1
  <2>1. {a} = {} \cup {a}
    OBVIOUS
  <2> QED BY <1>1, <2>1, FS_AddElement
<1>3. IsFiniteSet({a, b}) /\ Cardinality({a, b}) \in 0..2
  <2>1. {a, b} = {a} \cup {b}
    OBVIOUS
  <2> QED BY <1>2, <2>1, FS_AddElement
<1>4. IsFiniteSet({a, b, c}) /\ Cardinality({a, b, c}) \in 0..3
  <2>1. {a, b, c} = {a, b} \cup {c}
    OBVIOUS
  <2> QED BY <1>3, <2>1, FS_AddElement
<1>5. IsFiniteSet({a, b, c, d}) /\ Cardinality({a, b, c, d}) \in 0..4
  <2>1. {a, b, c, d} = {a, b, c} \cup {d}
    OBVIOUS
  <2> QED BY <1>4, <2>1, FS_AddElement
<1>6. Cardinality({a, b, c, d, e}) \in 0..5
  <2>1. {a, b, c, d, e} = {a, b, c, d} \cup {e}
    OBVIOUS
  <2> QED BY <1>5, <2>1, FS_AddElement
<1> QED BY <1>6

Distinct ==
    /\ Own /= None /\ Newer /= None /\ Alien /= None /\ Made /= None /\ Wrapper /= None
    /\ Own /= Made /\ Own /= Newer /\ Own /= Alien /\ Newer /= Made /\ Alien /= Made /\ Wrapper /= Alien

LEMMA Distinctness == Distinct
<1> DEFINE all == {Wrapper, Own, Made, Newer, Alien, None}
<1>1. Cardinality(all) = 6
  BY TreeMoveAssumption
<1>2. Own /= None /\ Newer /= None /\ Alien /= None
  <2>1. Own = None => all = {Wrapper, Own, Made, Newer, Alien}
    OBVIOUS
  <2>2. Newer = None => all = {Wrapper, Own, Made, Newer, Alien}
    OBVIOUS
  <2>3. Alien = None => all = {Wrapper, Own, Made, Newer, Alien}
    OBVIOUS
  <2> HIDE DEF all
  <2> QED BY <1>1, <2>1, <2>2, <2>3, FiveAreNotSix
<1>3. Made /= None /\ Wrapper /= None /\ Wrapper /= Alien
  <2>1. Made = None => all = {Wrapper, Own, Made, Newer, Alien}
    OBVIOUS
  <2>2. Wrapper = None => all = {Wrapper, Own, Made, Newer, Alien}
    OBVIOUS
  <2>3. Wrapper = Alien => all = {Wrapper, Own, Made, Newer, None}
    OBVIOUS
  <2> HIDE DEF all
  <2> QED BY <1>1, <2>1, <2>2, <2>3, FiveAreNotSix
<1>4. Own /= Made /\ Own /= Newer /\ Own /= Alien
  <2>1. Own = Made => all = {Wrapper, Own, Newer, Alien, None}
    OBVIOUS
  <2>2. Own = Newer => all = {Wrapper, Own, Made, Alien, None}
    OBVIOUS
  <2>3. Own = Alien => all = {Wrapper, Own, Made, Newer, None}
    OBVIOUS
  <2> HIDE DEF all
  <2> QED BY <1>1, <2>1, <2>2, <2>3, FiveAreNotSix, ZenonT(40)
<1>5. Newer /= Made /\ Alien /= Made
  <2>1. Newer = Made => all = {Wrapper, Own, Made, Alien, None}
    OBVIOUS
  <2>2. Alien = Made => all = {Wrapper, Own, Made, Newer, None}
    OBVIOUS
  <2> HIDE DEF all
  <2> QED BY <1>1, <2>1, <2>2, FiveAreNotSix
<1> QED BY <1>2, <1>3, <1>4, <1>5 DEF Distinct

-----------------------------------------------------------------------------
(* Frames.                                                                 *)

FrameType == [pc : Pc, mem : State, todo : SUBSET {"dir"}]

\* A step of w leaves the frames of the others as they are.
Alone(w) == frame' \in [Worker -> FrameType] /\ \A v \in Worker \ {w} : frame'[v] = frame[v]

\* And of its own only changes where it is.
Moved(w) == Alone(w) /\ frame'[w].mem = frame[w].mem /\ frame'[w].todo = frame[w].todo

\* The steps, one by one.
LEMMA PcNames ==
    Pc = {"idle", "begun", "intent", "clean_intent", "post", "failed", "skipped", "removed", "kept",
          "clean_completed", "clean_skipped", "clean_failed",
          "save", "record_root", "migrate", "record_dir", "record_link", "transplanted",
          "rename", "make_root", "link_file", "retire_file", "undo_file", "unlink_file", "make_dir",
          "publish_link", "unlink_link", "leave_dir", "leave", "rmdir", "rmdir_own", "relocate",
          "preflight", "boundary", "look", "guard", "check", "confirm", "load", "root", "enter", "file", "dir",
          "enter_dir", "link", "list", "tidy", "authority", "verify", "put_back"}
BY DEF Pc, FencedPc, SavePc, CallPc, LookPc, MovePc, CleanPc

\* A row is a record of these fields.
LEMMA FrameFields ==
    ASSUME frame \in [Worker -> FrameType], NEW w \in Worker
    PROVE  frame[w] \in FrameType /\ frame[w].pc \in Pc /\ frame[w].mem \in State /\ frame[w].todo \subseteq {"dir"}
<1>1. frame[w] \in FrameType
  OBVIOUS
<1> QED BY <1>1 DEF FrameType

\* Writing any of its fields leaves a row.
LEMMA RowStep ==
    ASSUME frame \in [Worker -> FrameType], NEW w \in Worker, NEW row \in FrameType, frame' = [frame EXCEPT ![w] = row]
    PROVE  Alone(w) /\ frame'[w] = row
BY DEF Alone

LEMMA GoStep ==
    ASSUME frame \in [Worker -> FrameType], NEW w \in Worker, NEW pc \in Pc, Go(w, pc)
    PROVE  Moved(w) /\ frame'[w].pc = pc
<1> DEFINE row == [frame[w] EXCEPT !.pc = pc]
<1>1. row \in FrameType /\ row.pc = pc /\ row.mem = frame[w].mem /\ row.todo = frame[w].todo
  BY FrameFields DEF FrameType
<1>2. frame' = [frame EXCEPT ![w] = row]
  BY DEF Go
<1> HIDE DEF row
<1> QED BY <1>1, <1>2, RowStep DEF Moved

LEMMA RestStep ==
    ASSUME frame \in [Worker -> FrameType], NEW w \in Worker, Rest(w)
    PROVE  Alone(w) /\ frame'[w].pc = "idle"
<1>1. Idle \in FrameType /\ Idle.pc = "idle"
  BY PcNames DEF Idle, FrameType, NewState, State, Phase
<1> QED BY <1>1, RowStep DEF Rest

LEMMA SaveStep ==
    ASSUME frame \in [Worker -> FrameType], NEW w \in Worker, NEW mem \in State, NEW pc \in Pc,
           frame' = [frame EXCEPT ![w].mem = mem, ![w].pc = pc]
    PROVE  Alone(w) /\ frame'[w].pc = pc /\ frame'[w].mem = mem
<1> DEFINE row == [frame[w] EXCEPT !.mem = mem, !.pc = pc]
<1>1. row \in FrameType /\ row.pc = pc /\ row.mem = mem
  BY FrameFields DEF FrameType
<1>2. frame' = [frame EXCEPT ![w] = row]
  OBVIOUS
<1> HIDE DEF row
<1> QED BY <1>1, <1>2, RowStep

LEMMA EnterStep ==
    ASSUME frame \in [Worker -> FrameType], NEW w \in Worker, NEW todo \in SUBSET {"dir"}, NEW pc \in Pc,
           frame' = [frame EXCEPT ![w].todo = todo, ![w].pc = pc]
    PROVE  Alone(w) /\ frame'[w].pc = pc /\ frame'[w].mem = frame[w].mem
<1> DEFINE row == [frame[w] EXCEPT !.todo = todo, !.pc = pc]
<1>1. row \in FrameType /\ row.pc = pc /\ row.mem = frame[w].mem
  BY FrameFields DEF FrameType
<1>2. frame' = [frame EXCEPT ![w] = row]
  OBVIOUS
<1> HIDE DEF row
<1> QED BY <1>1, <1>2, RowStep

\* The values of names, frames and journals, one by one.
LEMMA TypedFields ==
    ASSUME TypeOK
    PROVE  /\ \A s \in Side, e \in Entry : In(s, e) \in Content
           /\ \A w \in Worker : frame[w].pc \in Pc /\ frame[w].mem \in State /\ frame[w].todo \subseteq {"dir"}
           /\ frame \in [Worker -> FrameType]
           /\ journals.move \in 0..1 /\ journals.clean \in 0..1
BY FrameFields DEF TypeOK, FrameType, In

-----------------------------------------------------------------------------
(* Steps, by what they write.                                              *)

\* A look at the files.
Looks(w) ==
    \/ Guard(w) \/ CheckTarget(w) \/ Confirm(w) \/ List(w) \/ Load(w) \/ CheckRoot(w) \/ Enter(w) \/ File(w) \/ Dir(w)
    \/ EnterDir(w) \/ Link(w) \/ Authority(w) \/ Verify(w)
Checks(w) == Preflight(w) \/ Boundary(w) \/ Look(w)
\* A call on the names in the trees.
Calls(w) ==
    \/ Rename(w) \/ MakeRoot(w) \/ LinkFile(w) \/ RetireFile(w) \/ UndoFile(w) \/ UnlinkFile(w) \/ MakeDir(w)
    \/ PublishLink(w) \/ UnlinkLink(w) \/ LeaveDir(w) \/ Leave(w)
Saves(w) == SaveNew(w) \/ RecordRoot(w) \/ Migrate(w) \/ RecordDir(w) \/ RecordLink(w) \/ Finish(w)
\* A call on the wrapper.
Wraps(w) == RmdirPaired(w) \/ RmdirOwn(w) \/ Relocate(w) \/ PutBack(w)
\* The rows of the items or of the job are written.
Writes(w) == Begin(w) \/ Begun(w) \/ Intent(w) \/ Settle(w) \/ CleanIntent(w) \/ SettleClean(w) \/ Post(w)
Clears(w) == Tidy(w) \/ Residue(w)
Stops(w) == Abandon(w) \/ Crash(w) \/ CallFails(w) \/ TakeOver(w)

\* Every step of a worker is of one of nine kinds.
LEMMA WorkerSteps ==
    ASSUME NEW w \in Worker, Run(w) \/ Residue(w) \/ Crash(w) \/ CallFails(w) \/ TakeOver(w)
    PROVE  \/ Looks(w) \/ Checks(w) \/ Calls(w) \/ Saves(w) \/ Wraps(w) \/ PutHome(w) \/ Writes(w) \/ Clears(w) \/ Stops(w)
BY DEF Run, Pair, Transplant, CleanUp, Looks, Checks, Calls, Saves, Wraps, Writes, Clears, Stops

\* A step that writes no row does not take its worker to another stage of the plan.
Stays(w) ==
    /\ frame'[w].pc \in PairPc => frame[w].pc \in PairPc
    /\ frame'[w].pc \in CleanUpPc => frame[w].pc \in CleanUpPc
    /\ frame'[w].pc \notin BeforePc \cup {"preflight", "clean_intent", "tidy"}

\* The place a look, a call or a failure leads to.
Leads(pc, next) ==
    /\ next \in PairPc => pc \in PairPc
    /\ next \in CleanUpPc => pc \in CleanUpPc
    /\ next \notin BeforePc \cup {"preflight", "clean_intent", "tidy"}

LEMMA AfterPc ==
    ASSUME NEW todo
    PROVE  After(todo) \in {"file", "dir", "leave"}
BY DEF After

LEMMA DecideStep ==
    ASSUME TypeOK, NEW w \in Worker, NEW pc, NEW next \in Pc, Decide(w, pc, next), Leads(pc, next)
    PROVE  UNCHANGED <<plan, owner, wrapper, trees, env>> /\ Moved(w) /\ frame[w].pc = pc /\ frame'[w].pc = next /\ Stays(w)
BY TypedFields, GoStep DEF Decide, At, Leads, Stays

LEMMA LooksStep ==
    ASSUME TypeOK, NEW w \in Worker, Looks(w)
    PROVE  UNCHANGED <<plan, owner, wrapper, trees, env>> /\ Alone(w) /\ Stays(w)
<1> USE DecideStep, PcNames DEF Leads, PairPc, HeadPc, TreePc, UnlinkPc, DirPc, GonePc, CleanUpPc, CleanPc, BeforePc, Moved
<1>1. CASE Guard(w)
  <2>1. mode \in Mode
    BY DEF TypeOK
  <2> QED BY <1>1, <2>1 DEF Guard, Mode
<1>2. CASE CheckTarget(w) \/ Confirm(w) \/ List(w) \/ CheckRoot(w)
  BY <1>2 DEF CheckTarget, Confirm, List, CheckRoot
<1>3. CASE File(w) \/ Dir(w)
  BY <1>3, AfterPc DEF File, Dir, AfterFile
<1>4. CASE EnterDir(w) \/ Link(w)
  BY <1>4 DEF EnterDir, Link
<1>5. CASE Authority(w) \/ Verify(w)
  BY <1>5 DEF Authority, Verify
<1>6. CASE Load(w)
  <2> DEFINE mem == IF state = None THEN NewState ELSE state
             pc == CASE Source("root") = None -> IF Transplanted THEN "list" ELSE "failed"
                     [] Source("root") /= None /\ ~drifted -> IF state = None THEN "save" ELSE "root"
                     [] OTHER -> "failed"
  <2>1. mem \in State
    BY DEF TypeOK, NewState, State, Phase
  <2>2. pc \in {"list", "failed", "save", "root"}
    OBVIOUS
  <2>3. frame' = [frame EXCEPT ![w].mem = mem, ![w].pc = pc] /\ frame[w].pc = "load"
        /\ UNCHANGED <<plan, owner, wrapper, trees, env>>
    BY <1>6 DEF Load, At
  <2> HIDE DEF mem, pc
  <2>4. Alone(w) /\ frame'[w].pc = pc
    BY <2>1, <2>2, <2>3, TypedFields, SaveStep, ZenonT(40)
  <2> QED BY <2>2, <2>3, <2>4 DEF Stays
<1>7. CASE Enter(w)
  <2> DEFINE todo == {e \in {"file", "dir"} : Source(e) /= None}
             pc == IF Source("root") = Own /\ ~drifted /\ Target("root") = Made /\ "root" \in Mem(w).dirs
                   THEN After(todo) ELSE "failed"
  <2>1. todo \ {"file"} \in SUBSET {"dir"}
    OBVIOUS
  <2>2. pc \in {"file", "dir", "leave", "failed"}
    BY AfterPc
  <2>3. frame' = [frame EXCEPT ![w].todo = todo \ {"file"}, ![w].pc = pc] /\ frame[w].pc = "enter"
        /\ UNCHANGED <<plan, owner, wrapper, trees, env>>
    BY <1>7 DEF Enter, At
  <2> HIDE DEF todo, pc
  <2>4. Alone(w) /\ frame'[w].pc = pc
    BY <2>1, <2>2, <2>3, TypedFields, EnterStep, ZenonT(40)
  <2> QED BY <2>2, <2>3, <2>4 DEF Stays
<1> QED BY <1>1, <1>2, <1>3, <1>4, <1>5, <1>6, <1>7 DEF Looks

NamesType == [Side -> [Entry -> Content]]

\* Setting one name leaves the others alone.
LEMMA SetStep ==
    ASSUME names \in NamesType, NEW s \in Side, NEW e \in Entry, NEW c \in Content
    PROVE  /\ Set(s, e, c) \in NamesType /\ Set(s, e, c)[s][e] = c
           /\ \A s2 \in Side, e2 \in Entry : s2 /= s \/ e2 /= e => Set(s, e, c)[s2][e2] = names[s2][e2]
<1> DEFINE row == [names[s] EXCEPT ![e] = c]
<1>1. names[s] \in [Entry -> Content]
  BY DEF NamesType
<1>2. row \in [Entry -> Content] /\ row[e] = c /\ \A e2 \in Entry \ {e} : row[e2] = names[s][e2]
  BY <1>1
<1>3. Set(s, e, c) = [names EXCEPT ![s] = row]
  BY DEF Set
<1> HIDE DEF row
<1> QED BY <1>2, <1>3 DEF NamesType

\* The child's entries, found or not, are entries.
LEMMA SourceType ==
    ASSUME TypeOK, NEW e \in Entry
    PROVE  Source(e) \in Content /\ (Source(e) /= None => home = Wrapper /\ Source(e) = In("source", e))
           /\ Target(e) = In("target", e) /\ (home = Wrapper => Source(e) = In("source", e))
BY TypedFields DEF Source, Target, In, Content, Side

\* A rename empties the source into the target.
LEMMA RenamedNames ==
    ASSUME names \in NamesType
    PROVE  Renamed \in NamesType /\ \A e \in Entry : Renamed["source"][e] = None /\ Renamed["target"][e] = names["source"][e]
<1>1. names["source"] \in [Entry -> Content] /\ [e \in Entry |-> None] \in [Entry -> Content]
  BY DEF NamesType, Side, Content
<1> QED BY <1>1 DEF Renamed, NamesType, Side

LEMMA CallsStep ==
    ASSUME TypeOK, NEW w \in Worker, Calls(w)
    PROVE  /\ UNCHANGED <<plan, owner, wrapper, state, faults, tampers>> /\ late' = (late \/ ~Holding(w))
           /\ names' \in NamesType /\ Moved(w) /\ Stays(w)
<1>0. /\ names \in NamesType /\ "source" \in Side /\ "target" \in Side /\ {"root", "file", "dir", "link"} \subseteq Entry
      /\ {Own, Made, None} \subseteq Content
  BY DEF TypeOK, NamesType, Side, Entry, Content
<1> USE GoStep, TypedFields, PcNames, <1>0
    DEF PairPc, HeadPc, TreePc, UnlinkPc, DirPc, GonePc, CleanUpPc, CleanPc, BeforePc, Stays, Call, At
<1>1. CASE Rename(w)
  BY <1>1, RenamedNames DEF Rename
<1>2. CASE LinkFile(w)
  BY <1>2, SetStep, SourceType DEF LinkFile
<1>3. CASE MakeRoot(w) \/ MakeDir(w) \/ PublishLink(w)
  BY <1>3, SetStep DEF MakeRoot, MakeDir, PublishLink
<1>4. CASE RetireFile(w) \/ UndoFile(w) \/ UnlinkFile(w)
  <2>1. AfterFile(w) \in {"file", "dir", "leave"}
    BY AfterPc DEF AfterFile
  <2>2. CASE RetireFile(w)
    BY <2>1, <2>2, SetStep DEF RetireFile
  <2>3. CASE UndoFile(w)
    BY <2>3, SetStep DEF UndoFile
  <2>4. CASE UnlinkFile(w)
    BY <2>1, <2>4, SetStep DEF UnlinkFile
  <2> QED BY <1>4, <2>2, <2>3, <2>4
<1>5. CASE UnlinkLink(w) \/ LeaveDir(w) \/ Leave(w)
  BY <1>5, SetStep DEF UnlinkLink, LeaveDir, Leave
<1> QED BY <1>1, <1>2, <1>3, <1>4, <1>5 DEF Calls

\* What a worker writes to the state file is a state.
LEMMA StateWrites ==
    ASSUME NEW mem \in State
    PROVE  /\ \A e \in {"root", "dir"} : LET new == [mem EXCEPT !.dirs = @ \cup {e}]
                                       IN  new \in State /\ new.dirs = mem.dirs \cup {e} /\ new.phase = mem.phase
           /\ LET new == [mem EXCEPT !.link = TRUE]
              IN  new \in State /\ new.dirs = mem.dirs /\ new.phase = mem.phase
           /\ \A ph \in Phase : LET new == [mem EXCEPT !.phase = ph]
                                 IN  new \in State /\ new.dirs = mem.dirs /\ new.phase = ph
BY DEF State

\* The root is recorded before the migration, whose phase is written last.
LEMMA SavesStep ==
    ASSUME TypeOK, NEW w \in Worker, Saves(w)
    PROVE  /\ UNCHANGED <<plan, owner, wrapper, names, faults, tampers>> /\ late' = (late \/ ~Holding(w))
           /\ Alone(w) /\ frame'[w].mem \in State /\ state' = frame'[w].mem
           /\ \/ At(w, "save") /\ frame'[w].pc = "root"
              \/ At(w, "record_root") /\ frame'[w].pc = "migrate" /\ "root" \in frame'[w].mem.dirs
              \/ /\ At(w, "migrate") /\ frame'[w].pc = "enter"
                 /\ frame'[w].mem.dirs = Mem(w).dirs /\ frame'[w].mem.phase = "migrating"
              \/ /\ At(w, "record_dir") /\ frame'[w].pc = "enter_dir"
                 /\ Mem(w).dirs \subseteq frame'[w].mem.dirs /\ frame'[w].mem.phase = Mem(w).phase
              \/ /\ At(w, "record_link") /\ frame'[w].pc = "unlink_link"
                 /\ frame'[w].mem.dirs = Mem(w).dirs /\ frame'[w].mem.phase = Mem(w).phase
              \/ /\ At(w, "transplanted") /\ frame'[w].pc = "list"
                 /\ frame'[w].mem.dirs = Mem(w).dirs /\ frame'[w].mem.phase = "transplanted"
<1>0. Mem(w) \in State /\ frame \in [Worker -> FrameType]
  BY TypedFields DEF Mem
<1>1. ASSUME NEW pc, NEW mem \in State, NEW next \in Pc, Save(w, pc, mem, next)
      PROVE  /\ UNCHANGED <<plan, owner, wrapper, names, faults, tampers>> /\ late' = (late \/ ~Holding(w))
             /\ state' = mem /\ Alone(w) /\ frame'[w].mem = mem /\ At(w, pc) /\ frame'[w].pc = next
  BY <1>0, <1>1, SaveStep DEF Save
<1>2. CASE SaveNew(w)
  BY <1>0, <1>1, <1>2, PcNames DEF SaveNew
<1>3. CASE RecordRoot(w)
  <2> DEFINE mem == WithDir(w, "root")
  <2>1. mem \in State /\ mem.dirs = Mem(w).dirs \cup {"root"}
    BY <1>0, StateWrites DEF WithDir
  <2>2. Save(w, "record_root", mem, "migrate")
    BY <1>3 DEF RecordRoot
  <2> HIDE DEF mem
  <2> QED BY <1>1, <2>1, <2>2, PcNames
<1>4. CASE Migrate(w)
  <2> DEFINE mem == [Mem(w) EXCEPT !.phase = "migrating"]
  <2>1. mem \in State /\ mem.dirs = Mem(w).dirs /\ mem.phase = "migrating"
    BY <1>0, StateWrites DEF Phase
  <2>2. Save(w, "migrate", mem, "enter")
    BY <1>4 DEF Migrate
  <2> HIDE DEF mem
  <2> QED BY <1>1, <2>1, <2>2, PcNames
<1>5. CASE RecordDir(w)
  <2> DEFINE mem == WithDir(w, "dir")
  <2>1. mem \in State /\ mem.dirs = Mem(w).dirs \cup {"dir"} /\ mem.phase = Mem(w).phase
    BY <1>0, StateWrites DEF WithDir
  <2>2. Save(w, "record_dir", mem, "enter_dir")
    BY <1>5 DEF RecordDir
  <2> HIDE DEF mem
  <2> QED BY <1>1, <2>1, <2>2, PcNames
<1>6. CASE RecordLink(w)
  <2> DEFINE mem == [Mem(w) EXCEPT !.link = TRUE]
  <2>1. mem \in State /\ mem.dirs = Mem(w).dirs /\ mem.phase = Mem(w).phase
    BY <1>0, StateWrites
  <2>2. Save(w, "record_link", mem, "unlink_link")
    BY <1>6 DEF RecordLink
  <2> HIDE DEF mem
  <2> QED BY <1>1, <2>1, <2>2, PcNames
<1>7. CASE Finish(w)
  <2> DEFINE mem == [Mem(w) EXCEPT !.phase = "transplanted"]
  <2>1. mem \in State /\ mem.dirs = Mem(w).dirs /\ mem.phase = "transplanted"
    BY <1>0, StateWrites DEF Phase
  <2>2. Save(w, "transplanted", mem, "list")
    BY <1>7 DEF Finish
  <2> HIDE DEF mem
  <2> QED BY <1>1, <2>1, <2>2, PcNames
<1> QED BY <1>2, <1>3, <1>4, <1>5, <1>6, <1>7 DEF Saves

LEMMA SavesStay ==
    ASSUME TypeOK, NEW w \in Worker, Saves(w)
    PROVE  Stays(w)
<1>1. /\ frame[w].pc \in SavePc
      /\ frame'[w].pc \in {"root", "migrate", "enter", "enter_dir", "unlink_link", "list"}
  BY SavesStep DEF SavePc, At
<1> QED BY <1>1 DEF PairPc, HeadPc, TreePc, UnlinkPc, DirPc, GonePc, CleanUpPc, CleanPc, BeforePc, Stays, SavePc

LEMMA WrapsStep ==
    ASSUME TypeOK, NEW w \in Worker, Wraps(w)
    PROVE  /\ UNCHANGED <<plan, owner, extra, drifted, trees, faults, tampers>> /\ late' = (late \/ ~Holding(w))
           /\ {home', reserve'} \subseteq {Wrapper, Alien, None} /\ Moved(w) /\ Stays(w)
<1> USE GoStep, PcNames, TypedFields
    DEF PairPc, HeadPc, TreePc, UnlinkPc, DirPc, GonePc, CleanUpPc, CleanPc, BeforePc, Stays, At, TypeOK
<1>1. CASE RmdirPaired(w) \/ RmdirOwn(w)
  BY <1>1 DEF RmdirPaired, RmdirOwn, Rmdir
<1>2. CASE Relocate(w)
  BY <1>2 DEF Relocate
<1>3. CASE PutBack(w)
  BY <1>3 DEF PutBack
<1> QED BY <1>1, <1>2, <1>3 DEF Wraps

LEMMA PutHomeStep ==
    ASSUME TypeOK, NEW w \in Worker, PutHome(w)
    PROVE  /\ UNCHANGED <<plan, owner, extra, drifted, trees, env>> /\ home' = reserve /\ reserve' = None
           /\ Holding(w) /\ clean = "executing" /\ move /= "completed" /\ home = None
           /\ Moved(w) /\ frame'[w].pc = "begun"
BY GoStep, PcNames, TypedFields DEF PutHome, Hidden

\* A worker that stops is idle, or goes on as after a failure.
LEMMA StopsStep ==
    ASSUME TypeOK, NEW w \in Worker, Stops(w)
    PROVE  /\ UNCHANGED <<plan, wrapper, trees, tampers, late>> /\ owner' \in Worker /\ faults' \in 0..MaxFaults
           /\ Alone(w)
           /\ \/ owner' = owner /\ frame'[w].pc = "idle"
              \/ /\ owner' = owner /\ frame[w].pc \in SavePc \cup CallPc /\ frame'[w].pc = Refused(frame[w].pc)
                 /\ frame'[w].mem = frame[w].mem
              \/ owner' = w /\ frame' = frame /\ frame[w].pc = "idle"
<1>0. MaxFaults \in Nat /\ faults \in 0..MaxFaults /\ owner \in Worker /\ frame \in [Worker -> FrameType]
  BY TreeMoveAssumption, TypedFields DEF TypeOK
<1>1. CASE Abandon(w)
  <2>1. Rest(w) /\ UNCHANGED <<plan, owner, wrapper, trees, faults, tampers, late>>
    BY <1>1 DEF Abandon, env
  <2> QED BY <1>0, <2>1, RestStep
<1>2. CASE Crash(w)
  <2>1. Rest(w) /\ UNCHANGED <<plan, owner, wrapper, trees, tampers, late>> /\ faults < MaxFaults /\ faults' = faults + 1
    BY <1>2 DEF Crash
  <2> QED BY <1>0, <2>1, RestStep
<1>3. CASE CallFails(w)
  <2>1. frame[w].pc \in SavePc \cup CallPc /\ Go(w, Refused(frame[w].pc))
        /\ UNCHANGED <<plan, wrapper, trees, tampers, late, owner>> /\ faults' = faults + 1 /\ faults < MaxFaults
    BY <1>3 DEF CallFails
  <2>2. Refused(frame[w].pc) \in Pc
    BY PcNames DEF Refused
  <2>3. Moved(w) /\ frame'[w].pc = Refused(frame[w].pc)
    BY <1>0, <2>1, <2>2, GoStep
  <2> QED BY <1>0, <2>1, <2>3 DEF Moved
<1>4. CASE TakeOver(w)
  <2>1. /\ UNCHANGED <<plan, wrapper, trees, frame, tampers, late>> /\ faults < MaxFaults /\ faults' = faults + 1
        /\ owner' = w /\ frame[w].pc = "idle"
    BY <1>4 DEF TakeOver, At
  <2> QED BY <1>0, <2>1 DEF Alone
<1> QED BY <1>1, <1>2, <1>3, <1>4 DEF Stops

LEMMA StopsStay ==
    ASSUME TypeOK, NEW w \in Worker, Stops(w)
    PROVE  Stays(w)
<1>1. CASE frame'[w].pc = "idle"
  BY <1>1 DEF PairPc, HeadPc, TreePc, UnlinkPc, DirPc, GonePc, CleanUpPc, CleanPc, BeforePc, Stays
<1>2. CASE frame[w].pc \in SavePc \cup CallPc /\ frame'[w].pc = Refused(frame[w].pc)
  <2>1. \/ frame'[w].pc \in {"undo_file", "kept", "failed"} /\ frame[w].pc \notin {"rmdir_own", "relocate"}
        \/ frame'[w].pc = "clean_failed" /\ frame[w].pc \in {"rmdir_own", "relocate"}
    BY <1>2 DEF Refused
  <2>2. frame[w].pc \notin {"rmdir_own", "relocate"} => frame[w].pc \in PairPc
    BY <1>2 DEF SavePc, CallPc, PairPc, HeadPc, TreePc, UnlinkPc, DirPc, GonePc
  <2>3. {"rmdir_own", "relocate", "clean_failed"} \subseteq CleanUpPc /\ "clean_failed" \notin PairPc
        /\ \A pc \in {"undo_file", "kept", "failed"} : pc \notin CleanUpPc
    BY DEF CleanUpPc, CleanPc, PairPc, HeadPc, TreePc, UnlinkPc, DirPc, GonePc
  <2> QED BY <2>1, <2>2, <2>3 DEF BeforePc, Stays
<1> QED BY <1>1, <1>2, StopsStep

LEMMA ClearsStep ==
    ASSUME TypeOK, NEW w \in Worker, Clears(w)
    PROVE  /\ UNCHANGED <<plan, owner, wrapper, names, env>> /\ state' \in {state, None}
           /\ Alone(w)
           /\ \/ At(w, "tidy") /\ frame'[w].pc = "post"
              \/ move = "completed" /\ frame' = frame /\ frame'[w].pc = "idle"
<1>1. CASE Tidy(w)
  <2>1. At(w, "tidy") /\ Go(w, "post") /\ state' \in {state, None} /\ UNCHANGED <<plan, owner, wrapper, names, env>>
    BY <1>1 DEF Tidy
  <2> QED BY <2>1, GoStep, TypedFields, PcNames DEF Moved
<1>2. CASE Residue(w)
  BY <1>2, TypedFields DEF Residue, Alone, At
<1> QED BY <1>1, <1>2 DEF Clears

\* The step a freshness check leads to.
Passed(pc) == [preflight |-> "boundary", boundary |-> "intent", look |-> "guard"][pc]

\* A check passes, has the numbers taken anew, or fails the move; a move that is settled is passed over.
LEMMA ChecksStep ==
    ASSUME TypeOK, NEW w \in Worker, Checks(w)
    PROVE  /\ UNCHANGED <<mode, trusted, job, clean, journals, owner, home, reserve, extra, trees, env>> /\ Moved(w)
           /\ \/ /\ At(w, "preflight") /\ move /= "planned" /\ frame'[w].pc = "clean_intent"
                 /\ UNCHANGED <<move, drifted>>
              \/ /\ frame[w].pc \in {"preflight", "boundary", "look"}
                 /\ At(w, "preflight") => move = "planned"
                 /\ \/ Fresh /\ frame'[w].pc = Passed(frame[w].pc) /\ UNCHANGED <<move, drifted>>
                    \/ /\ Holding(w) /\ Rebased /\ drifted' = FALSE
                       /\ frame'[w].pc = Passed(frame[w].pc) /\ UNCHANGED move
                    \/ /\ Holding(w) /\ ~Fresh /\ ~Rebased /\ move' = "failed"
                       /\ frame'[w].pc = "post" /\ UNCHANGED drifted
<1>0. frame \in [Worker -> FrameType]
  BY TypedFields
<1>1. ASSUME NEW pc \in {"preflight", "boundary", "look"}, Check(w, pc, Passed(pc))
      PROVE  /\ UNCHANGED <<mode, trusted, job, clean, journals, owner, home, reserve, extra, trees, env>> /\ Moved(w)
             /\ At(w, pc)
             /\ \/ Fresh /\ frame'[w].pc = Passed(pc) /\ UNCHANGED <<move, drifted>>
                \/ Holding(w) /\ Rebased /\ drifted' = FALSE /\ frame'[w].pc = Passed(pc) /\ UNCHANGED move
                \/ Holding(w) /\ ~Fresh /\ ~Rebased /\ move' = "failed" /\ frame'[w].pc = "post" /\ UNCHANGED drifted
  <2>1. Passed(pc) \in Pc /\ "post" \in Pc
    BY PcNames DEF Passed
  <2> QED BY <1>0, <1>1, <2>1, GoStep DEF Check
<1>2. CASE move = "planned" /\ Check(w, "preflight", "boundary")
  <2>1. Passed("preflight") = "boundary"
    BY DEF Passed
  <2> QED BY <1>1, <1>2, <2>1 DEF At
<1>3. CASE Check(w, "boundary", "intent")
  <2>1. Passed("boundary") = "intent"
    BY DEF Passed
  <2> QED BY <1>1, <1>3, <2>1 DEF At
<1>4. CASE Check(w, "look", "guard")
  <2>1. Passed("look") = "guard"
    BY DEF Passed
  <2> QED BY <1>1, <1>4, <2>1 DEF At
<1>5. CASE move /= "planned" /\ Decide(w, "preflight", "clean_intent")
  BY <1>0, <1>5, GoStep, PcNames DEF Decide, At, plan, wrapper
<1> QED BY <1>2, <1>3, <1>4, <1>5 DEF Checks, Preflight, Boundary, Look

\* The rows a worker writes, with the lease; the trees are not touched.
LEMMA WritesStep ==
    ASSUME TypeOK, NEW w \in Worker, Writes(w)
    PROVE  /\ UNCHANGED <<mode, trusted, owner, wrapper, trees, env>> /\ Holding(w) /\ Alone(w)
           /\ \/ /\ At(w, "idle") /\ frame'[w].pc = "preflight" /\ UNCHANGED job
                 /\ move' = IF move = "executing" THEN MoveVerdict ELSE move
                 /\ clean' = IF clean = "executing" THEN CleanVerdict(move' = "completed") ELSE clean
                 /\ journals' = [move |-> IF move' = "completed" THEN 1 ELSE journals.move,
                                 clean |-> IF clean' = "completed" THEN 1 ELSE journals.clean]
              \/ At(w, "begun") /\ frame'[w].pc = "preflight" /\ clean' = "failed" /\ UNCHANGED <<move, journals, job>>
              \/ At(w, "intent") /\ frame'[w].pc = "look" /\ move' = "executing" /\ UNCHANGED <<clean, journals, job>>
              \/ /\ frame[w].pc \in MovePc /\ UNCHANGED job
                 /\ frame'[w].pc = IF move' = "completed" THEN "tidy" ELSE "post"
                 /\ move' = MoveResult(frame[w].pc) /\ clean' = PairResult(frame[w].pc)
                 /\ journals' = [move |-> journals.move + (IF move' = "completed" THEN 1 ELSE 0),
                                 clean |-> IF clean' = "completed" THEN 1 ELSE journals.clean]
              \/ /\ At(w, "clean_intent") /\ UNCHANGED <<move, journals, job>>
                 /\ \/ clean = "planned" /\ clean' = "executing" /\ frame'[w].pc = "authority"
                    \/ clean' = clean /\ frame'[w].pc = "post"
              \/ /\ frame[w].pc \in CleanPc /\ frame'[w].pc = "post" /\ clean' = CleanResult(frame[w].pc)
                 /\ journals' = [journals EXCEPT !.clean = @ + (IF clean' = "completed" THEN 1 ELSE 0)]
                 /\ UNCHANGED <<move, job>>
              \/ At(w, "post") /\ frame'[w].pc = "idle" /\ job' = "done" /\ UNCHANGED <<move, clean, journals>>
<1> USE TypedFields, PcNames, GoStep
<1>1. CASE Begin(w)
  BY <1>1 DEF Begin, Moved
<1>2. CASE Begun(w)
  BY <1>2 DEF Begun, Moved
<1>3. CASE Intent(w)
  BY <1>3 DEF Intent, Moved
<1>4. CASE Settle(w)
  BY <1>4 DEF Settle, Moved
<1>5. CASE CleanIntent(w)
  BY <1>5 DEF CleanIntent, Moved
<1>6. CASE SettleClean(w)
  BY <1>6 DEF SettleClean, Moved
<1>7. CASE Post(w)
  BY <1>7, RestStep DEF Post
<1> QED BY <1>1, <1>2, <1>3, <1>4, <1>5, <1>6, <1>7 DEF Writes

-----------------------------------------------------------------------------
(* The rows.                                                               *)

\* Rows that are not written fit a worker that stays at its stage.
LEMMA RowsKept ==
    ASSUME TypeOK, Rows, NEW w \in Worker, UNCHANGED <<move, clean, journals, owner>>, Alone(w), Stays(w)
    PROVE  Rows'
<1>1. Order' /\ Journalled'
  BY DEF Rows, Order, Journalled
<1>2. ASSUME NEW v \in Worker, v /= w PROVE (Holding(v) => Stage(v))' /\ (At(v, "tidy") => move = "completed")'
  <2>1. frame'[v] = frame[v]
    BY <1>2 DEF Alone
  <2> QED BY <2>1 DEF Rows, Stage, At, Holding
<1>3. (Holding(w) => Stage(w))' /\ (At(w, "tidy") => move = "completed")'
  <2>1. Holding(w) => Stage(w)
    BY DEF Rows
  <2> QED BY <2>1 DEF Stage, At, Holding, Stays
<1> QED BY <1>1, <1>2, <1>3 DEF Rows

\* Only the owner writes rows; the others see no completed move undone.
LEMMA RowsWritten ==
    ASSUME TypeOK, Rows, NEW w \in Worker, owner' = owner, Alone(w), Holding(w) \/ UNCHANGED <<move, clean>>,
           move = "completed" => move' = "completed", Order', Journalled', Holding(w) => Stage(w)',
           ~At(w, "tidy")' \/ move' = "completed"
    PROVE  Rows'
<1>1. ASSUME NEW v \in Worker, v /= w PROVE (Holding(v) => Stage(v))' /\ (At(v, "tidy") => move = "completed")'
  <2>1. frame'[v] = frame[v]
    BY <1>1 DEF Alone
  <2> QED BY <1>1, <2>1 DEF Rows, At, Holding, Stage
<1> QED BY <1>1 DEF Rows, Holding

\* A check leaves the clean-up alone, and fails only a move that is not completed.
LEMMA ChecksRows ==
    ASSUME TypeOK, Rows, NEW w \in Worker, Checks(w)
    PROVE  Rows' /\ move' \in ItemState
<1>1. Alone(w) /\ UNCHANGED <<clean, journals, owner>>
  BY ChecksStep DEF Moved
<1>2. move \in ItemState /\ (Holding(w) => Stage(w)) /\ Order /\ Journalled
  BY DEF TypeOK, Rows
<1>3. CASE At(w, "preflight") /\ move /= "planned" /\ frame'[w].pc = "clean_intent" /\ UNCHANGED move
  <2>1. (Holding(w) => Stage(w)') /\ ~At(w, "tidy")'
    BY <1>2, <1>3 DEF Stage, At, BeforePc, PairPc, HeadPc, TreePc, UnlinkPc, DirPc, GonePc, CleanUpPc, CleanPc,
                      ItemState, Settled
  <2>2. Order' /\ Journalled'
    BY <1>1, <1>2, <1>3 DEF Order, Journalled
  <2> QED BY <1>1, <1>2, <1>3, <2>1, <2>2, RowsWritten
<1>4. CASE frame[w].pc \in {"preflight", "boundary", "look"} /\ (At(w, "preflight") => move = "planned")
           /\ frame'[w].pc = Passed(frame[w].pc) /\ UNCHANGED move
  <2>1. (Holding(w) => Stage(w)') /\ ~At(w, "tidy")'
    BY <1>2, <1>4 DEF Stage, At, BeforePc, PairPc, HeadPc, TreePc, UnlinkPc, DirPc, GonePc, CleanUpPc, CleanPc, Passed
  <2>2. Order' /\ Journalled'
    BY <1>1, <1>2, <1>4 DEF Order, Journalled
  <2> QED BY <1>1, <1>2, <1>4, <2>1, <2>2, RowsWritten
<1>5. CASE /\ frame[w].pc \in {"preflight", "boundary", "look"} /\ (At(w, "preflight") => move = "planned")
           /\ Holding(w) /\ move' = "failed" /\ frame'[w].pc = "post"
  <2>1. move /= "completed"
    BY <1>2, <1>5 DEF Stage, At, BeforePc, PairPc
  <2>2. Stage(w)' /\ ~At(w, "tidy")'
    BY <1>5 DEF Stage, At, BeforePc, PairPc, HeadPc, TreePc, UnlinkPc, DirPc, GonePc, CleanUpPc, CleanPc
  <2>3. Order' /\ Journalled'
    BY <1>1, <1>2, <1>5, <2>1 DEF Order, Journalled, Settled
  <2>4. Rows'
    BY <1>1, <1>5, <2>1, <2>2, <2>3, RowsWritten
  <2> QED BY <1>5, <2>4 DEF ItemState
<1> QED BY <1>3, <1>4, <1>5, ChecksStep

\* What the start of a job finds.
LEMMA Verdicts ==
    /\ MoveVerdict \in {"completed", "planned", "failed"}
    /\ \A moved : CleanVerdict(moved) \in {"completed", "planned", "failed"}
BY DEF MoveVerdict, CleanVerdict

\* The owner writes rows in order, and each journal once.
LEMMA WritesRows ==
    ASSUME TypeOK, Rows, NEW w \in Worker, Writes(w)
    PROVE  Rows' /\ move' \in ItemState /\ clean' \in ItemState /\ journals' \in [{"move", "clean"} -> 0..1]
<1>1. Holding(w) /\ Alone(w) /\ owner' = owner
  BY WritesStep
<1>2. /\ move \in ItemState /\ clean \in ItemState /\ journals \in [{"move", "clean"} -> 0..1]
      /\ Stage(w) /\ Order /\ Journalled
  BY <1>1 DEF TypeOK, Rows
<1> DEFINE Fine ==
      /\ move' \in ItemState /\ clean' \in ItemState /\ journals' \in [{"move", "clean"} -> 0..1]
      /\ move = "completed" => move' = "completed"
      /\ Order' /\ Journalled' /\ Stage(w)' /\ (~At(w, "tidy")' \/ move' = "completed")
<1>3. Fine => Rows'
  BY <1>1, RowsWritten
<1> USE DEF At, Order, Journalled, ItemState, Settled, BeforePc, CleanUpPc, CleanPc
<1>4. CASE /\ At(w, "idle") /\ frame'[w].pc = "preflight"
           /\ move' = IF move = "executing" THEN MoveVerdict ELSE move
           /\ clean' = IF clean = "executing" THEN CleanVerdict(move' = "completed") ELSE clean
           /\ journals' = [move |-> IF move' = "completed" THEN 1 ELSE journals.move,
                           clean |-> IF clean' = "completed" THEN 1 ELSE journals.clean]
  <2>1. /\ move' \in ItemState /\ move' /= "executing" /\ (move = "completed" => move' = "completed")
        /\ move /= "executing" => move' = move
    BY <1>2, <1>4, Verdicts
  <2>2. clean' \in ItemState /\ (clean = "planned" => clean' = "planned")
    BY <1>2, <1>4, Verdicts
  <2>3. journals' \in [{"move", "clean"} -> 0..1]
        /\ (move' /= "completed" => journals'.move = 0) /\ (clean' /= "completed" => journals'.clean = 0)
    BY <1>2, <1>4, <2>1, <2>2, Verdicts
  <2>4. Order' /\ Journalled'
    BY <1>2, <2>1, <2>2, <2>3
  <2>5. Stage(w)' /\ ~At(w, "tidy")'
    BY <1>4, <2>1 DEF Stage, PairPc, HeadPc, TreePc, UnlinkPc, DirPc, GonePc
  <2> QED BY <1>3, <2>1, <2>2, <2>3, <2>4, <2>5
<1>5. CASE At(w, "begun") /\ frame'[w].pc = "preflight" /\ clean' = "failed" /\ UNCHANGED <<move, journals>>
  <2>1. move \in Settled
    BY <1>2, <1>5 DEF Stage
  <2>2. Stage(w)' /\ ~At(w, "tidy")'
    BY <1>5, <2>1 DEF Stage, PairPc, HeadPc, TreePc, UnlinkPc, DirPc, GonePc
  <2>3. clean = "executing"
    BY <1>2, <1>5 DEF Stage
  <2> QED BY <1>2, <1>3, <1>5, <2>1, <2>2, <2>3
<1>6. CASE At(w, "intent") /\ frame'[w].pc = "look" /\ move' = "executing" /\ UNCHANGED <<clean, journals>>
  <2>1. move = "planned"
    BY <1>2, <1>6 DEF Stage
  <2>2. Stage(w)' /\ ~At(w, "tidy")'
    BY <1>6 DEF Stage
  <2> QED BY <1>2, <1>3, <1>6, <2>1, <2>2
<1>7. CASE /\ frame[w].pc \in MovePc
           /\ frame'[w].pc = IF move' = "completed" THEN "tidy" ELSE "post"
           /\ move' = MoveResult(frame[w].pc) /\ clean' = PairResult(frame[w].pc)
           /\ journals' = [move |-> journals.move + (IF move' = "completed" THEN 1 ELSE 0),
                           clean |-> IF clean' = "completed" THEN 1 ELSE journals.clean]
  <2>1. move = "executing" /\ clean = "planned" /\ journals.move = 0 /\ journals.clean = 0
    <3>1. MovePc \subseteq PairPc
      BY DEF MovePc, PairPc, GonePc
    <3> QED BY <1>2, <1>7, <3>1 DEF Stage
  <2>2. move' \in Settled /\ clean' \in {"completed", "failed"}
    BY <1>7 DEF MovePc, MoveResult, PairResult
  <2>3. journals' \in [{"move", "clean"} -> 0..1]
        /\ (move' /= "completed" => journals'.move = 0) /\ (clean' /= "completed" => journals'.clean = 0)
    BY <1>7, <2>1
  <2>4. Stage(w)' /\ (~At(w, "tidy")' \/ move' = "completed")
    BY <1>7 DEF Stage, PairPc, HeadPc, TreePc, UnlinkPc, DirPc, GonePc
  <2> QED BY <1>3, <2>1, <2>2, <2>3, <2>4
<1>8. CASE /\ At(w, "clean_intent") /\ UNCHANGED <<move, journals>>
           /\ \/ clean = "planned" /\ clean' = "executing" /\ frame'[w].pc = "authority"
              \/ clean' = clean /\ frame'[w].pc = "post"
  <2>1. move \in Settled
    BY <1>2, <1>8 DEF Stage
  <2>2. Stage(w)' /\ ~At(w, "tidy")'
    BY <1>8, <2>1 DEF Stage, PairPc, HeadPc, TreePc, UnlinkPc, DirPc, GonePc
  <2> QED BY <1>2, <1>3, <1>8, <2>1, <2>2
<1>9. CASE /\ frame[w].pc \in CleanPc /\ frame'[w].pc = "post" /\ clean' = CleanResult(frame[w].pc)
           /\ journals' = [journals EXCEPT !.clean = @ + (IF clean' = "completed" THEN 1 ELSE 0)]
           /\ UNCHANGED move
  <2>1. clean = "executing" /\ move \in Settled /\ journals.clean = 0
    BY <1>2, <1>9 DEF Stage
  <2>2. clean' \in Settled
    BY <1>9 DEF CleanResult
  <2>3. journals' \in [{"move", "clean"} -> 0..1] /\ journals'.move = journals.move
        /\ (clean' /= "completed" => journals'.clean = 0)
    BY <1>2, <1>9, <2>1
  <2>4. Stage(w)' /\ ~At(w, "tidy")'
    BY <1>9 DEF Stage, PairPc, HeadPc, TreePc, UnlinkPc, DirPc, GonePc
  <2> QED BY <1>2, <1>3, <1>9, <2>1, <2>2, <2>3, <2>4
<1>10. CASE At(w, "post") /\ frame'[w].pc = "idle" /\ UNCHANGED <<move, clean, journals>>
  <2>1. Stage(w)' /\ ~At(w, "tidy")'
    BY <1>10 DEF Stage, PairPc, HeadPc, TreePc, UnlinkPc, DirPc, GonePc
  <2> QED BY <1>2, <1>3, <1>10, <2>1
<1> HIDE DEF Fine
<1> QED BY <1>4, <1>5, <1>6, <1>7, <1>8, <1>9, <1>10, WritesStep

Tampers == (\E s \in Side, e \in Entry : Tamper(s, e)) \/ TamperWrapper \/ Drift

LEMMA TampersStep ==
    ASSUME TypeOK, Tampers
    PROVE  /\ UNCHANGED <<plan, owner, reserve, state, frame, faults, late>>
           /\ tampers' = tampers + 1 /\ tampers' \in 0..MaxTampers
           /\ names' \in NamesType /\ home' \in {Wrapper, Alien, None} /\ {extra', drifted'} \subseteq BOOLEAN
<1>0. /\ MaxTampers \in Nat /\ tampers \in 0..MaxTampers /\ names \in NamesType
      /\ home \in {Wrapper, Alien, None} /\ {extra, drifted} \subseteq BOOLEAN
  BY TreeMoveAssumption DEF TypeOK, NamesType
<1>1. ASSUME NEW s \in Side, NEW e \in Entry, Tamper(s, e)
      PROVE  /\ UNCHANGED <<plan, owner, home, reserve, extra, drifted, state, frame, faults, late>>
             /\ tampers < MaxTampers /\ tampers' = tampers + 1 /\ names' \in NamesType
  <2> DEFINE c == IF s = "source" THEN Newer ELSE Alien
  <2>1. c \in Content
    BY DEF Content
  <2>2. /\ UNCHANGED <<plan, owner, home, reserve, extra, drifted, state, frame, faults, late>>
        /\ tampers < MaxTampers /\ tampers' = tampers + 1 /\ names' = Set(s, e, c)
    BY <1>1 DEF Tamper, wrapper
  <2> HIDE DEF c
  <2> QED BY <1>0, <2>1, <2>2, SetStep
<1>2. CASE \E s \in Side, e \in Entry : Tamper(s, e)
  BY <1>0, <1>1, <1>2
<1>3. CASE TamperWrapper
  <2>1. /\ UNCHANGED <<plan, owner, reserve, drifted, trees, frame, faults, late>>
        /\ tampers' = tampers + 1 /\ tampers' \in 0..MaxTampers /\ names' \in NamesType
    BY <1>0, <1>3 DEF TamperWrapper, trees
  <2>2. home' \in {Wrapper, Alien, None} /\ extra' \in BOOLEAN
    BY <1>0, <1>3 DEF TamperWrapper
  <2> QED BY <1>0, <2>1, <2>2 DEF trees
<1>4. CASE Drift
  BY <1>0, <1>4 DEF Drift, trees
<1> QED BY <1>2, <1>3, <1>4 DEF Tampers

\* Every step is a worker's, or a user's.
LEMMA Steps ==
    ASSUME Next
    PROVE  (\E w \in Worker : Run(w) \/ Residue(w) \/ Crash(w) \/ CallFails(w) \/ TakeOver(w)) \/ Tampers
BY DEF Next, Tampers

\* Every step keeps the types, and the rows in order.
LEMMA RowsStep ==
    ASSUME TypeOK, Rows, Next
    PROVE  TypeOK' /\ Rows'
<1>0. /\ mode \in Mode /\ {trusted, drifted, extra, late} \subseteq BOOLEAN /\ owner \in Worker /\ job \in {"active", "done"}
      /\ move \in ItemState /\ clean \in ItemState /\ journals \in [{"move", "clean"} -> 0..1]
      /\ home \in {Wrapper, Alien, None} /\ reserve \in {Wrapper, Alien, None}
      /\ names \in NamesType /\ state \in State \cup {None} /\ frame \in [Worker -> FrameType]
      /\ faults \in 0..MaxFaults /\ tampers \in 0..MaxTampers
  BY DEF TypeOK, NamesType, FrameType
<1>1. ASSUME NEW w \in Worker, Looks(w) PROVE TypeOK' /\ Rows'
  <2>1. UNCHANGED <<plan, owner, wrapper, trees, env>> /\ Alone(w) /\ Stays(w)
    BY <1>1, LooksStep
  <2>2. TypeOK'
    BY <1>0, <2>1 DEF TypeOK, plan, wrapper, trees, env, Alone, FrameType, NamesType
  <2> QED BY <2>1, <2>2, RowsKept DEF plan
<1>2. ASSUME NEW w \in Worker, Checks(w) PROVE TypeOK' /\ Rows'
  <2>1. /\ UNCHANGED <<mode, trusted, job, clean, journals, owner, home, reserve, extra, trees, env>> /\ Alone(w)
        /\ drifted' \in {drifted, FALSE}
    BY <1>2, ChecksStep DEF Moved
  <2>2. Rows' /\ move' \in ItemState
    BY <1>2, ChecksRows
  <2> QED BY <1>0, <2>1, <2>2 DEF TypeOK, trees, env, Alone, FrameType, NamesType
<1>3. ASSUME NEW w \in Worker, Calls(w) PROVE TypeOK' /\ Rows'
  <2>1. /\ UNCHANGED <<plan, owner, wrapper, state, faults, tampers>> /\ late' \in BOOLEAN
        /\ names' \in NamesType /\ Alone(w) /\ Stays(w)
    BY <1>0, <1>3, CallsStep DEF Moved
  <2>2. TypeOK'
    BY <1>0, <2>1 DEF TypeOK, plan, wrapper, Alone, FrameType, NamesType
  <2> QED BY <2>1, <2>2, RowsKept DEF plan
<1>4. ASSUME NEW w \in Worker, Saves(w) PROVE TypeOK' /\ Rows'
  <2>1. /\ UNCHANGED <<plan, owner, wrapper, names, faults, tampers>> /\ late' \in BOOLEAN
        /\ state' \in State /\ Alone(w)
    BY <1>0, <1>4, SavesStep
  <2>2. TypeOK'
    BY <1>0, <2>1 DEF TypeOK, plan, wrapper, Alone, FrameType, NamesType
  <2> QED BY <1>4, <2>1, <2>2, RowsKept, SavesStay DEF plan
<1>5. ASSUME NEW w \in Worker, Wraps(w) PROVE TypeOK' /\ Rows'
  <2>1. /\ UNCHANGED <<plan, owner, extra, drifted, trees, faults, tampers>> /\ late' \in BOOLEAN
        /\ {home', reserve'} \subseteq {Wrapper, Alien, None} /\ Alone(w) /\ Stays(w)
    BY <1>0, <1>5, WrapsStep DEF Moved
  <2>2. TypeOK'
    BY <1>0, <2>1 DEF TypeOK, plan, trees, Alone, FrameType, NamesType
  <2> QED BY <2>1, <2>2, RowsKept DEF plan
<1>6. ASSUME NEW w \in Worker, PutHome(w) PROVE TypeOK' /\ Rows'
  <2>1. /\ UNCHANGED <<plan, owner, extra, drifted, trees, env>> /\ home' = reserve /\ reserve' = None
        /\ Alone(w) /\ frame'[w].pc = "begun" /\ clean = "executing" /\ Holding(w)
    BY <1>6, PutHomeStep DEF Moved
  <2>2. TypeOK'
    BY <1>0, <2>1 DEF TypeOK, plan, trees, env, Alone, FrameType, NamesType
  <2>3. Stage(w)' /\ ~At(w, "tidy")'
    BY <2>1 DEF Stage, At, BeforePc, PairPc, HeadPc, TreePc, UnlinkPc, DirPc, GonePc, plan
  <2>4. Order' /\ Journalled'
    BY <2>1 DEF Rows, Order, Journalled, plan
  <2> QED BY <2>1, <2>2, <2>3, <2>4, RowsWritten DEF plan
<1>7. ASSUME NEW w \in Worker, Writes(w) PROVE TypeOK' /\ Rows'
  <2>1. /\ UNCHANGED <<mode, trusted, owner, wrapper, trees, env>> /\ Alone(w) /\ job' \in {"active", "done"}
    BY <1>0, <1>7, WritesStep
  <2>2. Rows' /\ move' \in ItemState /\ clean' \in ItemState /\ journals' \in [{"move", "clean"} -> 0..1]
    BY <1>7, WritesRows
  <2> QED BY <1>0, <2>1, <2>2 DEF TypeOK, wrapper, trees, env, Alone, FrameType, NamesType
<1>8. ASSUME NEW w \in Worker, Clears(w) PROVE TypeOK' /\ Rows'
  <2>1. /\ UNCHANGED <<plan, owner, wrapper, names, env>> /\ state' \in {state, None} /\ Alone(w)
        /\ frame'[w].pc \in {"post", "idle"}
    BY <1>8, ClearsStep
  <2>2. TypeOK'
    BY <1>0, <2>1 DEF TypeOK, plan, wrapper, env, Alone, FrameType, NamesType
  <2>3. Stays(w)
    BY <2>1 DEF Stays, BeforePc, PairPc, HeadPc, TreePc, UnlinkPc, DirPc, GonePc, CleanUpPc, CleanPc
  <2> QED BY <2>1, <2>2, <2>3, RowsKept DEF plan
<1>9. ASSUME NEW w \in Worker, Stops(w) PROVE TypeOK' /\ Rows'
  <2>1. /\ UNCHANGED <<plan, wrapper, trees, tampers, late>> /\ owner' \in Worker /\ faults' \in 0..MaxFaults /\ Alone(w)
    BY <1>9, StopsStep
  <2>2. TypeOK'
    BY <1>0, <2>1 DEF TypeOK, plan, wrapper, trees, Alone, FrameType, NamesType
  <2>3. CASE owner' = owner
    BY <1>9, <2>1, <2>2, <2>3, RowsKept, StopsStay DEF plan
  <2>4. CASE owner' = w /\ frame' = frame /\ frame[w].pc = "idle"
    <3>1. \A v \in Worker : Holding(v)' => v = w
      BY <2>4 DEF Holding
    <3>2. Stage(w)'
      BY <2>4 DEF Stage, At, BeforePc, PairPc, HeadPc, TreePc, UnlinkPc, DirPc, GonePc, CleanUpPc, CleanPc
    <3>3. \A v \in Worker : At(v, "tidy")' => move' = "completed"
      BY <2>1, <2>4 DEF Rows, At, plan
    <3>4. Order' /\ Journalled'
      BY <2>1 DEF Rows, Order, Journalled, plan
    <3> QED BY <2>2, <3>1, <3>2, <3>3, <3>4 DEF Rows
  <2> QED BY <1>9, <2>3, <2>4, StopsStep
<1>10. ASSUME Tampers PROVE TypeOK' /\ Rows'
  <2>1. /\ UNCHANGED <<plan, owner, reserve, state, frame, faults, late>> /\ tampers' \in 0..MaxTampers
        /\ names' \in NamesType /\ home' \in {Wrapper, Alien, None} /\ {extra', drifted'} \subseteq BOOLEAN
    BY <1>10, TampersStep
  <2>2. TypeOK'
    BY <1>0, <2>1 DEF TypeOK, plan, FrameType, NamesType
  <2>3. Rows'
    BY <2>1 DEF Rows, Order, Journalled, Stage, At, Holding, plan
  <2> QED BY <2>2, <2>3
<1> QED BY <1>1, <1>2, <1>3, <1>4, <1>5, <1>6, <1>7, <1>8, <1>9, <1>10, Steps, WorkerSteps

-----------------------------------------------------------------------------
(* The trees, as the owner of the lease finds and leaves them.             *)

\* What nobody else disturbs is still so.
LEMMA TreesAside ==
    ASSUME TypeOK, Trees, NEW w \in Worker, ~Holding(w), Alone(w), UNCHANGED <<names, home, state, owner, move>>
    PROVE  Trees'
<1>1. Shape' /\ Reachable'
  BY DEF Trees, Shape, Reachable, In
<1>2. ASSUME NEW v \in Worker, Holding(v)' PROVE Handles(v)' /\ Knows(v)'
  <2>1. Holding(v) /\ frame'[v] = frame[v]
    BY <1>2 DEF Holding, Alone
  <2> QED BY <2>1 DEF Trees, Handles, Knows, Mem, At, In
<1> QED BY <1>1, <1>2 DEF Trees

\* It is the owner's own step that counts.
LEMMA TreesByOwner ==
    ASSUME Trees, NEW w \in Worker, Holding(w), owner' = owner, Shape', Reachable', Handles(w)', Knows(w)'
    PROVE  Trees'
BY DEF Trees, Holding

\* Where nothing is known of the trees.
ElsewherePc == Pc \ ({"intent", "look", "enter"} \cup HeadPc \cup TreePc \cup GonePc)

LEMMA Elsewhere ==
    ASSUME NEW w \in Worker, frame'[w].pc \in ElsewherePc
    PROVE  Handles(w)' /\ Knows(w)'
<1>1. /\ frame'[w].pc \notin {"intent", "look"} \cup HeadPc
      /\ frame'[w].pc \notin GonePc /\ frame'[w].pc \notin TreePc \cup {"enter", "transplanted"}
      /\ frame'[w].pc \notin DirPc /\ frame'[w].pc \notin UnlinkPc /\ frame'[w].pc /= "migrate"
      /\ frame'[w].pc \notin {"record_link", "unlink_link"}
  BY DEF ElsewherePc, HeadPc, TreePc, DirPc, UnlinkPc, GonePc
<1> QED BY <1>1 DEF Handles, Knows, At

LEMMA ElsewhereNames ==
    {"idle", "begun", "clean_intent", "post", "failed", "skipped", "clean_completed", "clean_skipped", "clean_failed",
     "rename", "rmdir_own", "relocate", "preflight", "boundary", "guard", "check", "tidy", "authority", "verify",
     "put_back"} \subseteq ElsewherePc
BY PcNames DEF ElsewherePc, HeadPc, TreePc, DirPc, UnlinkPc, GonePc

\* The entries after one of them was set.
LEMMA SetIn ==
    ASSUME TypeOK, NEW s \in Side, NEW e \in Entry, NEW c \in Content, names' = Set(s, e, c)
    PROVE  In(s, e)' = c /\ \A s2 \in Side, e2 \in Entry : s2 /= s \/ e2 /= e => In(s2, e2)' = In(s2, e2)
BY SetStep DEF TypeOK, NamesType, In

\* A look of the owner tells what the next step relies on.
LEMMA LooksTrees ==
    ASSUME TypeOK, Trees, NEW w \in Worker, Holding(w), Looks(w)
    PROVE  Trees'
<1>1. UNCHANGED <<plan, owner, wrapper, trees, env>> /\ Alone(w)
  BY LooksStep
<1>2. UNCHANGED <<names, home, state, owner, move>>
  BY <1>1 DEF plan, wrapper, trees
<1>3. Shape' /\ Reachable' /\ Handles(w) /\ Knows(w)
  BY <1>2 DEF Trees, Shape, Reachable, In
<1>4. (Handles(w)' /\ Knows(w)') => Trees'
  BY <1>2, <1>3, TreesByOwner
<1>5. frame \in [Worker -> FrameType]
  BY TypedFields
<1>6. /\ {"root", "file", "dir", "link"} \subseteq Entry
      /\ \A e \in Entry : Source(e) /= None => home = Wrapper /\ Source(e) = In("source", e)
      /\ \A e \in Entry : home = Wrapper => Source(e) = In("source", e)
      /\ \A e \in Entry : Target(e) = In("target", e)
  BY SourceType DEF Entry
<1>7. \A s, e : In(s, e)' = In(s, e)
  BY <1>2 DEF In
<1>8. ASSUME NEW pc, NEW next \in Pc, Decide(w, pc, next)
      PROVE  frame[w].pc = pc /\ frame'[w].pc = next /\ Mem(w)' = Mem(w)
  BY <1>5, <1>8, GoStep DEF Decide, At, Moved, Mem
<1>9. CASE Guard(w)
  <2>1. mode \in Mode
    BY DEF TypeOK
  <2>2. \/ frame'[w].pc \in {"failed", "rename", "check"}
        \/ frame'[w].pc = "load" /\ Source("root") /= None
    BY <1>8, <1>9, <2>1, PcNames DEF Guard, Mode
  <2>3. frame'[w].pc = "load" /\ Source("root") /= None => Handles(w)' /\ Knows(w)'
    BY <1>2, <1>6, <1>7 DEF Handles, Knows, At, HeadPc, TreePc, DirPc, UnlinkPc, GonePc
  <2> QED BY <1>4, <2>2, <2>3, Elsewhere, ElsewhereNames
<1>10. CASE CheckTarget(w) \/ Authority(w) \/ Verify(w)
  <2>1. frame'[w].pc \in {"skipped", "rename", "clean_skipped", "rmdir_own", "relocate", "clean_failed",
                          "clean_completed", "put_back"}
    BY <1>8, <1>10, PcNames DEF CheckTarget, Authority, Verify
  <2> QED BY <1>4, <2>1, Elsewhere, ElsewhereNames
<1>11. CASE Confirm(w) \/ List(w)
  <2>1. /\ frame[w].pc \in {"confirm", "list"}
        /\ frame'[w].pc \in {"list", "failed", "rmdir", "kept"}
    BY <1>8, <1>11, PcNames DEF Confirm, List
  <2>2. In("source", "root") = None
    BY <1>3, <2>1 DEF Knows, GonePc
  <2>3. frame'[w].pc \in {"list", "rmdir", "kept"} => Handles(w)' /\ Knows(w)'
    BY <1>7, <2>2 DEF Handles, Knows, At, HeadPc, TreePc, DirPc, UnlinkPc, GonePc
  <2> QED BY <1>4, <2>1, <2>3, Elsewhere, ElsewhereNames
<1>12. CASE Load(w)
  <2>1. home = Wrapper /\ In("source", "root") /= None
    BY <1>3, <1>12 DEF Load, At, Knows, HeadPc
  <2>2. Source("root") /= None
    BY <1>6, <2>1
  <2> DEFINE mem == IF state = None THEN NewState ELSE state
             pc == CASE Source("root") = None -> IF Transplanted THEN "list" ELSE "failed"
                     [] Source("root") /= None /\ ~drifted -> IF state = None THEN "save" ELSE "root"
                     [] OTHER -> "failed"
  <2>3. mem \in State
    BY DEF TypeOK, NewState, State, Phase
  <2>4. pc \in {"failed", "save", "root"}
    BY <2>2
  <2>5. frame' = [frame EXCEPT ![w].mem = mem, ![w].pc = pc]
    BY <1>12 DEF Load
  <2> HIDE DEF mem, pc
  <2>6. frame'[w].pc = pc
    BY <1>5, <2>3, <2>4, <2>5, SaveStep, PcNames
  <2>7. frame'[w].pc \in {"save", "root"} => Handles(w)' /\ Knows(w)'
    BY <1>2, <1>7, <2>1 DEF Handles, Knows, At, HeadPc, TreePc, DirPc, UnlinkPc, GonePc
  <2> QED BY <1>4, <2>4, <2>6, <2>7, Elsewhere, ElsewhereNames
<1>13. CASE CheckRoot(w)
  <2>1. /\ frame[w].pc = "root" /\ Mem(w)' = Mem(w)
        /\ \/ frame'[w].pc \in {"failed", "skipped"}
           \/ frame'[w].pc = "make_root"
           \/ frame'[w].pc = "migrate" /\ "root" \in Mem(w).dirs
    BY <1>8, <1>13, PcNames DEF CheckRoot
  <2>2. home = Wrapper /\ In("source", "root") /= None
    BY <1>3, <2>1 DEF Knows, HeadPc
  <2>3. frame'[w].pc \in {"make_root", "migrate"} => Handles(w)' /\ Knows(w)'
    BY <1>2, <1>7, <2>1, <2>2 DEF Handles, Knows, At, HeadPc, TreePc, DirPc, UnlinkPc, GonePc
  <2> QED BY <1>4, <2>1, <2>3, Elsewhere, ElsewhereNames
<1>14. CASE Enter(w)
  <2> DEFINE todo == {e \in {"file", "dir"} : Source(e) /= None}
             pc == IF Source("root") = Own /\ ~drifted /\ Target("root") = Made /\ "root" \in Mem(w).dirs
                   THEN After(todo) ELSE "failed"
  <2>1. todo \ {"file"} \in SUBSET {"dir"}
    OBVIOUS
  <2>2. \/ pc = "failed"
        \/ pc \in {"file", "dir", "leave"} /\ Target("root") = Made
    <3>1. After(todo) \in {"file", "dir", "leave"}
      BY AfterPc
    <3> HIDE DEF todo
    <3> QED BY <3>1
  <2>3. frame' = [frame EXCEPT ![w].todo = todo \ {"file"}, ![w].pc = pc] /\ frame[w].pc = "enter"
    BY <1>14 DEF Enter, At
  <2> HIDE DEF todo, pc
  <2>4. frame'[w].pc = pc /\ frame'[w].mem = frame[w].mem
    BY <1>5, <2>1, <2>2, <2>3, EnterStep, PcNames
  <2>5. state = Mem(w) /\ "root" \in Mem(w).dirs /\ Mem(w).phase = "migrating" /\ Mem(w)' = Mem(w)
    BY <1>3, <2>3, <2>4 DEF Knows, Mem
  <2>6. pc \in {"file", "dir", "leave"} /\ Target("root") = Made => Handles(w)' /\ Knows(w)'
    BY <1>2, <1>6, <1>7, <2>4, <2>5, Distinctness
       DEF Handles, Knows, At, HeadPc, TreePc, DirPc, UnlinkPc, GonePc, Distinct
  <2> QED BY <1>4, <2>2, <2>4, <2>6, Elsewhere, ElsewhereNames
<1>15. CASE File(w) \/ Dir(w) \/ EnterDir(w) \/ Link(w)
  <2>1. AfterFile(w) \in {"file", "dir", "leave"}
    BY AfterPc DEF AfterFile
  <2>2. /\ frame[w].pc \in {"file", "dir", "enter_dir", "link"} /\ Mem(w)' = Mem(w)
        /\ \/ frame'[w].pc = "failed"
           \/ frame'[w].pc \in {"file", "dir", "leave", "link_file", "make_dir"}
           \/ frame'[w].pc = "unlink_file" /\ Source("file") /= None /\ Target("file") = Source("file")
           \/ frame'[w].pc = "enter_dir" /\ Target("dir") /= None
           \/ frame'[w].pc \in {"link", "leave_dir", "publish_link"} /\ frame[w].pc \in {"enter_dir", "link"}
           \/ frame'[w].pc = "unlink_link" /\ frame[w].pc = "link" /\ Target("link") = Own
    BY <1>8, <1>15, <2>1, PcNames DEF File, Dir, EnterDir, Link
  <2>3. /\ state = Mem(w) /\ "root" \in Mem(w).dirs /\ Mem(w).phase = "migrating" /\ In("target", "root") /= None
        /\ frame[w].pc \in {"enter_dir", "link"} => In("target", "dir") /= None
    BY <1>3, <2>2 DEF Handles, Knows, TreePc, DirPc
  <2>4. frame'[w].pc /= "failed" => Handles(w)' /\ Knows(w)'
    BY <1>2, <1>6, <1>7, <2>2, <2>3 DEF Handles, Knows, At, HeadPc, TreePc, DirPc, UnlinkPc, GonePc
  <2> QED BY <1>4, <2>4, Elsewhere, ElsewhereNames
<1> QED BY <1>9, <1>10, <1>11, <1>12, <1>13, <1>14, <1>15 DEF Looks

\* The root of the source only disappears.
Leaving == In("source", "root")' \in {In("source", "root"), None}

\* A call of the owner leaves the trees in shape, and prepares its next step.
LEMMA CallsTrees ==
    ASSUME TypeOK, Trees, NEW w \in Worker, Holding(w), Calls(w)
    PROVE  Trees'
<1>1. UNCHANGED <<home, state, owner, move>> /\ Mem(w)' = Mem(w)
  BY CallsStep DEF plan, wrapper, Moved, Mem
<1>2. Shape /\ Reachable /\ Handles(w) /\ Knows(w)
  BY DEF Trees
<1>3. frame \in [Worker -> FrameType] /\ names \in NamesType
  BY TypedFields DEF TypeOK, NamesType
<1>4. /\ {"root", "file", "dir", "link"} = Entry /\ Side = {"source", "target"} /\ {Own, Made, None} \subseteq Content
      /\ \A e \in Entry : In("source", e) \in Content /\ Source(e) \in Content
      /\ \A e \in Entry : Source(e) /= None => home = Wrapper /\ Source(e) = In("source", e)
      /\ \A e \in Entry : home = Wrapper => Source(e) = In("source", e)
      /\ \A e \in Entry : Target(e) = In("target", e)
  BY SourceType, TypedFields DEF Entry, Side, Content
<1>5. ASSUME Shape', Leaving, Handles(w)', Knows(w)' PROVE Trees'
  <2>1. Reachable'
    BY <1>1, <1>2, <1>5 DEF Reachable, Leaving
  <2> QED BY <1>1, <1>5, <2>1, TreesByOwner
<1>6. ASSUME names' = names, frame'[w].pc \in ElsewherePc PROVE Trees'
  <2>1. Shape' /\ Leaving
    BY <1>2, <1>6 DEF Shape, In, Leaving
  <2> QED BY <1>5, <1>6, <2>1, Elsewhere
<1>7. ASSUME NEW pc \in Pc, Go(w, pc) PROVE frame'[w].pc = pc
  BY <1>3, <1>7, GoStep
<1>8. frame[w].pc \in TreePc => /\ state = Mem(w) /\ "root" \in Mem(w).dirs /\ Mem(w).phase = "migrating"
                                /\ In("target", "root") /= None
  BY <1>2 DEF Handles, Knows
<1>9. AfterFile(w) \in {"file", "dir", "leave"}
  BY AfterPc DEF AfterFile
<1> USE DEF Call, At
<1>10. CASE Rename(w)
  <2>1. \/ names' = names /\ frame'[w].pc \in {"failed", "skipped"}
        \/ names' = Renamed /\ Source("root") /= None /\ frame'[w].pc \in {"list", "confirm"}
    BY <1>7, <1>10, PcNames DEF Rename
  <2>2. CASE names' = Renamed /\ Source("root") /= None /\ frame'[w].pc \in {"list", "confirm"}
    <3>1. \A e \in Entry : In("source", e)' = None /\ In("target", e)' = In("source", e)
      BY <1>3, <2>2, RenamedNames DEF In
    <3>2. Shape' /\ Leaving
      BY <1>4, <2>2, <3>1 DEF Shape, Leaving
    <3>3. Handles(w)' /\ Knows(w)'
      BY <1>4, <2>2, <3>1 DEF Handles, Knows, HeadPc, TreePc, DirPc, UnlinkPc, GonePc
    <3> QED BY <1>5, <3>2, <3>3
  <2> QED BY <1>6, <2>1, <2>2, ElsewhereNames
<1>11. CASE MakeRoot(w)
  <2>1. /\ frame[w].pc = "make_root"
        /\ \/ names' = names /\ frame'[w].pc = "skipped"
           \/ names' = Set("target", "root", Made) /\ frame'[w].pc = "record_root"
    BY <1>7, <1>11, PcNames DEF MakeRoot
  <2>2. CASE names' = Set("target", "root", Made) /\ frame'[w].pc = "record_root"
    <3>1. In("target", "root")' = Made /\ \A s \in Side, e \in Entry : s /= "target" \/ e /= "root" => In(s, e)' = In(s, e)
      BY <1>4, <2>2, SetIn
    <3>2. Shape' /\ Leaving
      BY <1>2, <1>4, <3>1, Distinctness DEF Shape, Leaving, Distinct
    <3>3. home = Wrapper /\ In("source", "root") /= None
      BY <1>2, <2>1 DEF Knows, HeadPc
    <3>4. Handles(w)' /\ Knows(w)'
      BY <1>1, <1>4, <2>2, <3>1, <3>3 DEF Handles, Knows, HeadPc, TreePc, DirPc, UnlinkPc, GonePc
    <3> QED BY <1>5, <3>2, <3>4
  <2> QED BY <1>6, <2>1, <2>2, ElsewhereNames
<1>12. CASE LinkFile(w)
  <2>1. /\ frame[w].pc = "link_file"
        /\ \/ names' = names /\ frame'[w].pc \in {"failed", "skipped"}
           \/ names' = Set("target", "file", Source("file")) /\ Source("file") /= None /\ frame'[w].pc = "retire_file"
    BY <1>7, <1>12, PcNames DEF LinkFile
  <2>2. CASE names' = Set("target", "file", Source("file")) /\ Source("file") /= None /\ frame'[w].pc = "retire_file"
    <3>1. In("target", "file")' = In("source", "file") /\ In("source", "file") /= None
          /\ \A s \in Side, e \in Entry : s /= "target" \/ e /= "file" => In(s, e)' = In(s, e)
      BY <1>4, <2>2, SetIn
    <3>2. In("target", "root") /= None /\ state = Mem(w) /\ "root" \in Mem(w).dirs /\ Mem(w).phase = "migrating"
      BY <1>8, <2>1 DEF TreePc
    <3>3. Shape' /\ Leaving
      BY <1>2, <1>4, <3>1, <3>2 DEF Shape, Leaving
    <3>4. Handles(w)' /\ Knows(w)'
      BY <1>1, <1>4, <2>2, <3>1, <3>2 DEF Handles, Knows, HeadPc, TreePc, DirPc, UnlinkPc, GonePc
    <3> QED BY <1>5, <3>3, <3>4
  <2> QED BY <1>6, <2>1, <2>2, ElsewhereNames
<1>13. CASE RetireFile(w) \/ UnlinkFile(w)
  <2>1. /\ frame[w].pc \in {"retire_file", "unlink_file"}
        /\ \/ names' = names /\ frame'[w].pc \in {"failed", "undo_file"}
           \/ names' = Set("source", "file", None) /\ frame'[w].pc \in {"file", "dir", "leave"}
    BY <1>7, <1>9, <1>13, PcNames DEF RetireFile, UnlinkFile
  <2>2. /\ In("target", "root") /= None /\ state = Mem(w) /\ "root" \in Mem(w).dirs /\ Mem(w).phase = "migrating"
        /\ In("source", "file") /= None /\ In("target", "file") = In("source", "file")
    BY <1>2, <1>8, <2>1 DEF TreePc, UnlinkPc, Handles
  <2>3. CASE names' = names /\ frame'[w].pc = "undo_file"
    <3>1. \A s, e : In(s, e)' = In(s, e)
      BY <2>3 DEF In
    <3>2. Shape' /\ Leaving
      BY <1>2, <3>1 DEF Shape, Leaving
    <3>3. Handles(w)' /\ Knows(w)'
      BY <1>1, <2>2, <2>3, <3>1 DEF Handles, Knows, HeadPc, TreePc, DirPc, UnlinkPc, GonePc
    <3> QED BY <1>5, <3>2, <3>3
  <2>4. CASE names' = Set("source", "file", None) /\ frame'[w].pc \in {"file", "dir", "leave"}
    <3>1. In("source", "file")' = None /\ \A s \in Side, e \in Entry : s /= "source" \/ e /= "file" => In(s, e)' = In(s, e)
      BY <1>4, <2>4, SetIn
    <3>2. Shape' /\ Leaving
      BY <1>2, <1>4, <3>1 DEF Shape, Leaving
    <3>3. Handles(w)' /\ Knows(w)'
      BY <1>1, <1>4, <2>2, <2>4, <3>1 DEF Handles, Knows, HeadPc, TreePc, DirPc, UnlinkPc, GonePc
    <3> QED BY <1>5, <3>2, <3>3
  <2> QED BY <1>6, <2>1, <2>3, <2>4, ElsewhereNames
<1>14. CASE UndoFile(w)
  <2>1. (names' = names \/ names' = Set("target", "file", None)) /\ frame'[w].pc = "failed"
    BY <1>7, <1>14, PcNames DEF UndoFile
  <2>2. CASE names' = Set("target", "file", None)
    <3>1. In("target", "file")' = None /\ \A s \in Side, e \in Entry : s /= "target" \/ e /= "file" => In(s, e)' = In(s, e)
      BY <1>4, <2>2, SetIn
    <3>2. Shape' /\ Leaving
      BY <1>2, <1>4, <3>1 DEF Shape, Leaving
    <3> QED BY <1>5, <2>1, <3>2, Elsewhere, ElsewhereNames
  <2> QED BY <1>6, <2>1, <2>2, ElsewhereNames
<1>15. CASE MakeDir(w)
  <2>1. /\ frame[w].pc = "make_dir"
        /\ \/ names' = names /\ frame'[w].pc = "skipped"
           \/ names' = Set("target", "dir", Made) /\ frame'[w].pc = "record_dir"
    BY <1>7, <1>15, PcNames DEF MakeDir
  <2>2. CASE names' = Set("target", "dir", Made) /\ frame'[w].pc = "record_dir"
    <3>1. In("target", "dir")' = Made /\ \A s \in Side, e \in Entry : s /= "target" \/ e /= "dir" => In(s, e)' = In(s, e)
      BY <1>4, <2>2, SetIn
    <3>2. In("target", "root") /= None /\ state = Mem(w) /\ "root" \in Mem(w).dirs /\ Mem(w).phase = "migrating"
      BY <1>8, <2>1 DEF TreePc
    <3>3. Shape' /\ Leaving
      BY <1>2, <1>4, <3>1, <3>2 DEF Shape, Leaving
    <3>4. Handles(w)' /\ Knows(w)'
      BY <1>1, <1>4, <2>2, <3>1, <3>2, Distinctness
         DEF Handles, Knows, HeadPc, TreePc, DirPc, UnlinkPc, GonePc, Distinct
    <3> QED BY <1>5, <3>3, <3>4
  <2> QED BY <1>6, <2>1, <2>2, ElsewhereNames
<1>16. CASE PublishLink(w)
  <2>1. /\ frame[w].pc = "publish_link"
        /\ \/ names' = names /\ frame'[w].pc = "skipped"
           \/ names' = Set("target", "link", Own) /\ frame'[w].pc = "record_link"
    BY <1>7, <1>16, PcNames DEF PublishLink
  <2>2. CASE names' = Set("target", "link", Own) /\ frame'[w].pc = "record_link"
    <3>1. In("target", "link")' = Own /\ \A s \in Side, e \in Entry : s /= "target" \/ e /= "link" => In(s, e)' = In(s, e)
      BY <1>4, <2>2, SetIn
    <3>2. /\ In("target", "root") /= None /\ state = Mem(w) /\ "root" \in Mem(w).dirs /\ Mem(w).phase = "migrating"
          /\ In("target", "dir") /= None
      BY <1>2, <1>8, <2>1 DEF TreePc, DirPc, Handles
    <3>3. Shape' /\ Leaving
      BY <1>2, <1>4, <3>1, <3>2 DEF Shape, Leaving
    <3>4. Handles(w)' /\ Knows(w)'
      BY <1>1, <1>4, <2>2, <3>1, <3>2 DEF Handles, Knows, HeadPc, TreePc, DirPc, UnlinkPc, GonePc
    <3> QED BY <1>5, <3>3, <3>4
  <2> QED BY <1>6, <2>1, <2>2, ElsewhereNames
<1>17. CASE UnlinkLink(w)
  <2>1. /\ frame[w].pc = "unlink_link"
        /\ \/ names' = names /\ frame'[w].pc = "failed"
           \/ names' = Set("source", "link", None) /\ frame'[w].pc = "leave_dir"
    BY <1>7, <1>17, PcNames DEF UnlinkLink
  <2>2. CASE names' = Set("source", "link", None) /\ frame'[w].pc = "leave_dir"
    <3>1. In("source", "link")' = None /\ \A s \in Side, e \in Entry : s /= "source" \/ e /= "link" => In(s, e)' = In(s, e)
      BY <1>4, <2>2, SetIn
    <3>2. /\ In("target", "root") /= None /\ state = Mem(w) /\ "root" \in Mem(w).dirs /\ Mem(w).phase = "migrating"
          /\ In("target", "dir") /= None
      BY <1>2, <1>8, <2>1 DEF TreePc, DirPc, Handles
    <3>3. Shape' /\ Leaving
      BY <1>2, <1>4, <3>1 DEF Shape, Leaving
    <3>4. Handles(w)' /\ Knows(w)'
      BY <1>1, <1>4, <2>2, <3>1, <3>2 DEF Handles, Knows, HeadPc, TreePc, DirPc, UnlinkPc, GonePc
    <3> QED BY <1>5, <3>3, <3>4
  <2> QED BY <1>6, <2>1, <2>2, ElsewhereNames
<1>18. CASE LeaveDir(w)
  <2>1. /\ frame[w].pc = "leave_dir"
        /\ \/ names' = names /\ frame'[w].pc = "failed"
           \/ /\ names' = Set("source", "dir", None) /\ frame'[w].pc = "leave"
              /\ Source("dir") /= None /\ Source("link") = None
    BY <1>7, <1>18, PcNames DEF LeaveDir
  <2>2. CASE /\ names' = Set("source", "dir", None) /\ frame'[w].pc = "leave"
             /\ Source("dir") /= None /\ Source("link") = None
    <3>1. In("source", "dir")' = None /\ \A s \in Side, e \in Entry : s /= "source" \/ e /= "dir" => In(s, e)' = In(s, e)
      BY <1>4, <2>2, SetIn
    <3>2. /\ In("target", "root") /= None /\ state = Mem(w) /\ "root" \in Mem(w).dirs /\ Mem(w).phase = "migrating"
          /\ In("source", "link") = None
      BY <1>4, <1>8, <2>1, <2>2 DEF TreePc, DirPc
    <3>3. Shape' /\ Leaving
      BY <1>2, <1>4, <3>1, <3>2 DEF Shape, Leaving
    <3>4. Handles(w)' /\ Knows(w)'
      BY <1>1, <1>4, <2>2, <3>1, <3>2 DEF Handles, Knows, HeadPc, TreePc, DirPc, UnlinkPc, GonePc
    <3> QED BY <1>5, <3>3, <3>4
  <2> QED BY <1>6, <2>1, <2>2, ElsewhereNames
<1>19. CASE Leave(w)
  <2>1. /\ frame[w].pc = "leave"
        /\ \/ names' = names /\ frame'[w].pc = "failed"
           \/ /\ names' = Set("source", "root", None) /\ frame'[w].pc = "transplanted"
              /\ Source("root") /= None /\ Source("file") = None /\ Source("dir") = None
    BY <1>7, <1>19, PcNames DEF Leave
  <2>2. CASE /\ names' = Set("source", "root", None) /\ frame'[w].pc = "transplanted"
             /\ Source("root") /= None /\ Source("file") = None /\ Source("dir") = None
    <3>1. In("source", "root")' = None /\ \A s \in Side, e \in Entry : s /= "source" \/ e /= "root" => In(s, e)' = In(s, e)
      BY <1>4, <2>2, SetIn
    <3>2. state = Mem(w) /\ "root" \in Mem(w).dirs /\ Mem(w).phase = "migrating"
      BY <1>8, <2>1 DEF TreePc
    <3>3. In("source", "file") = None /\ In("source", "dir") = None /\ In("source", "link") = None
      BY <1>2, <1>4, <2>2 DEF Shape
    <3>4. Shape' /\ Leaving
      BY <1>2, <1>4, <3>1, <3>3 DEF Shape, Leaving
    <3>5. Handles(w)' /\ Knows(w)'
      BY <1>1, <1>4, <2>2, <3>1, <3>2 DEF Handles, Knows, HeadPc, TreePc, DirPc, UnlinkPc, GonePc
    <3> QED BY <1>5, <3>4, <3>5
  <2> QED BY <1>6, <2>1, <2>2, ElsewhereNames
<1> QED BY <1>10, <1>11, <1>12, <1>13, <1>14, <1>15, <1>16, <1>17, <1>18, <1>19 DEF Calls

\* So does what it writes to the state file.
LEMMA SavesTrees ==
    ASSUME TypeOK, Trees, NEW w \in Worker, Holding(w), Saves(w)
    PROVE  Trees'
<1>1. UNCHANGED <<names, home, owner, move>> /\ state' = Mem(w)'
  BY SavesStep DEF plan, wrapper, Mem
<1>2. Shape /\ Reachable /\ Handles(w) /\ Knows(w)
  BY DEF Trees
<1>3. \A s, e : In(s, e)' = In(s, e)
  BY <1>1 DEF In
<1>4. Shape' /\ Reachable'
  BY <1>1, <1>2, <1>3 DEF Shape, Reachable
<1>5. \/ frame[w].pc = "save" /\ frame'[w].pc = "root"
      \/ frame[w].pc = "record_root" /\ frame'[w].pc = "migrate" /\ "root" \in Mem(w)'.dirs
      \/ frame[w].pc = "migrate" /\ frame'[w].pc = "enter" /\ Mem(w)'.dirs = Mem(w).dirs /\ Mem(w)'.phase = "migrating"
      \/ /\ frame[w].pc = "record_dir" /\ frame'[w].pc = "enter_dir"
         /\ Mem(w).dirs \subseteq Mem(w)'.dirs /\ Mem(w)'.phase = Mem(w).phase
      \/ /\ frame[w].pc = "record_link" /\ frame'[w].pc = "unlink_link"
         /\ Mem(w)'.dirs = Mem(w).dirs /\ Mem(w)'.phase = Mem(w).phase
      \/ frame[w].pc = "transplanted" /\ frame'[w].pc = "list"
  BY SavesStep DEF At, Mem
<1>6. CASE frame[w].pc \in {"save", "record_root", "migrate"}
  <2>1. home = Wrapper /\ In("source", "root") /= None /\ (frame[w].pc = "migrate" => "root" \in Mem(w).dirs)
    BY <1>2, <1>6 DEF Knows, HeadPc, At
  <2>2. Handles(w)' /\ Knows(w)'
    BY <1>1, <1>3, <1>5, <1>6, <2>1 DEF Handles, Knows, At, HeadPc, TreePc, DirPc, UnlinkPc, GonePc
  <2> QED BY <1>1, <1>4, <2>2, TreesByOwner
<1>7. CASE frame[w].pc \in {"record_dir", "record_link"}
  <2>1. /\ state = Mem(w) /\ "root" \in Mem(w).dirs /\ Mem(w).phase = "migrating"
        /\ In("target", "root") /= None /\ In("target", "dir") /= None
        /\ frame[w].pc = "record_link" => In("target", "link") = Own
    BY <1>2, <1>7 DEF Handles, Knows, TreePc, DirPc
  <2>2. Handles(w)' /\ Knows(w)'
    BY <1>1, <1>3, <1>5, <1>7, <2>1 DEF Handles, Knows, At, HeadPc, TreePc, DirPc, UnlinkPc, GonePc
  <2> QED BY <1>1, <1>4, <2>2, TreesByOwner
<1>8. CASE frame[w].pc = "transplanted"
  <2>1. In("source", "root") = None
    BY <1>2, <1>8 DEF Knows, GonePc
  <2>2. Handles(w)' /\ Knows(w)'
    BY <1>3, <1>5, <1>8, <2>1 DEF Handles, Knows, At, HeadPc, TreePc, DirPc, UnlinkPc, GonePc
  <2> QED BY <1>1, <1>4, <2>2, TreesByOwner
<1> QED BY <1>5, <1>6, <1>7, <1>8

\* A check finds the child, and where it fails the move nothing is begun.
LEMMA ChecksTrees ==
    ASSUME TypeOK, Rows, Trees, NEW w \in Worker, Checks(w)
    PROVE  Trees'
<1>1. UNCHANGED <<names, home, state, owner>> /\ Alone(w) /\ move' \in {move, "failed"}
      /\ (~Holding(w) => UNCHANGED move)
  BY ChecksStep DEF trees, Moved
<1>2. CASE ~Holding(w)
  BY <1>1, <1>2, TreesAside
<1>3. CASE Holding(w)
  <2>1. \A s, e : In(s, e)' = In(s, e)
    BY <1>1 DEF In
  <2>2. Shape' /\ Reachable'
    BY <1>1, <2>1 DEF Trees, Shape, Reachable
  <2>3. \/ frame'[w].pc \in {"clean_intent", "boundary", "guard", "post"}
        \/ frame'[w].pc = "intent" /\ Source("root") = Own
    <3>1. Passed("preflight") = "boundary" /\ Passed("boundary") = "intent" /\ Passed("look") = "guard"
      BY DEF Passed
    <3>2. Fresh \/ Rebased => Source("root") = Own
      BY DEF Fresh, Rebased
    <3> QED BY <3>1, <3>2, ChecksStep
  <2>4. CASE frame'[w].pc = "intent" /\ Source("root") = Own
    <3>1. home = Wrapper /\ In("source", "root") /= None
      BY <2>4, SourceType, Distinctness DEF Entry, Distinct
    <3>2. Handles(w)' /\ Knows(w)'
      BY <1>1, <2>1, <2>4, <3>1 DEF Handles, Knows, At, HeadPc, TreePc, DirPc, UnlinkPc, GonePc
    <3> QED BY <1>1, <1>3, <2>2, <3>2, TreesByOwner
  <2> QED BY <1>1, <1>3, <2>2, <2>3, <2>4, TreesByOwner, Elsewhere, ElsewhereNames
<1> QED BY <1>2, <1>3

\* A wrapper with the child in it is only touched once the move is settled.
LEMMA WrapsTrees ==
    ASSUME TypeOK, Rows, Trees, NEW w \in Worker, Holding(w), Wraps(w) \/ PutHome(w)
    PROVE  Trees'
<1>1. UNCHANGED <<names, state, owner, move>>
  BY WrapsStep, PutHomeStep DEF plan, trees
<1>2. \A s, e : In(s, e)' = In(s, e)
  BY <1>1 DEF In
<1>3. Shape' /\ Reachable /\ Knows(w) /\ Stage(w) /\ Order
  BY <1>2 DEF Trees, Shape, Rows
<1>4. \/ frame[w].pc = "rmdir" /\ frame'[w].pc \in {"removed", "kept"}
      \/ clean = "executing" /\ frame'[w].pc \in {"begun", "clean_completed", "clean_skipped", "clean_failed", "verify"}
  <2>1. frame \in [Worker -> FrameType]
    BY TypedFields
  <2> USE <2>1, GoStep, PcNames DEF At
  <2>2. CASE RmdirPaired(w)
    BY <2>2 DEF RmdirPaired, Rmdir
  <2>3. CASE RmdirOwn(w)
    BY <1>3, <2>3 DEF RmdirOwn, Rmdir, Stage, CleanUpPc
  <2>4. CASE Relocate(w)
    BY <1>3, <2>4 DEF Relocate, Stage, CleanUpPc
  <2>5. CASE PutBack(w)
    BY <1>3, <2>5 DEF PutBack, Stage, CleanUpPc
  <2>6. CASE PutHome(w)
    BY <2>6, PutHomeStep
  <2> QED BY <2>2, <2>3, <2>4, <2>5, <2>6 DEF Wraps
<1>5. CASE frame[w].pc = "rmdir" /\ frame'[w].pc \in {"removed", "kept"}
  <2>1. In("source", "root") = None
    BY <1>3, <1>5 DEF Knows, GonePc
  <2>2. Reachable' /\ Handles(w)' /\ Knows(w)'
    BY <1>2, <1>5, <2>1 DEF Reachable, Handles, Knows, At, HeadPc, TreePc, DirPc, UnlinkPc, GonePc
  <2> QED BY <1>1, <1>3, <2>2, TreesByOwner
<1>6. CASE clean = "executing" /\ frame'[w].pc \in {"begun", "clean_completed", "clean_skipped", "clean_failed", "verify"}
  <2>1. Reachable'
    BY <1>1, <1>3, <1>6 DEF Order, Settled, Reachable
  <2> QED BY <1>1, <1>3, <1>6, <2>1, TreesByOwner, Elsewhere, ElsewhereNames
<1> QED BY <1>4, <1>5, <1>6

\* The move begins with the child in its wrapper.
LEMMA WritesTrees ==
    ASSUME TypeOK, Rows, Trees, NEW w \in Worker, Writes(w)
    PROVE  Trees'
<1>1. UNCHANGED <<names, home, state, owner>> /\ Holding(w)
  BY WritesStep DEF wrapper, trees
<1>2. \A s, e : In(s, e)' = In(s, e)
  BY <1>1 DEF In
<1>3. Shape' /\ Reachable /\ Knows(w)
  BY <1>1, <1>2 DEF Trees, Shape
<1>4. CASE frame[w].pc = "intent" /\ frame'[w].pc = "look" /\ move' = "executing"
  <2>1. home = Wrapper /\ In("source", "root") /= None
    BY <1>3, <1>4 DEF Knows
  <2>2. Reachable' /\ Handles(w)' /\ Knows(w)'
    BY <1>1, <1>2, <1>4, <2>1 DEF Reachable, Handles, Knows, At, HeadPc, TreePc, DirPc, UnlinkPc, GonePc
  <2> QED BY <1>1, <1>3, <2>2, TreesByOwner
<1>5. CASE (move' = "executing" => move = "executing")
           /\ frame'[w].pc \in {"preflight", "tidy", "post", "authority", "idle"}
  <2>1. Reachable'
    BY <1>1, <1>2, <1>3, <1>5 DEF Reachable
  <2> QED BY <1>1, <1>3, <1>5, <2>1, TreesByOwner, Elsewhere, ElsewhereNames
<1>6. \A pc \in MovePc : MoveResult(pc) /= "executing"
  BY DEF MovePc, MoveResult
<1> QED BY <1>4, <1>5, <1>6, WritesStep DEF At

\* A state file is only removed when no move is under way.
LEMMA ClearsTrees ==
    ASSUME TypeOK, Rows, Trees, NEW w \in Worker, Clears(w)
    PROVE  Trees'
<1>1. UNCHANGED <<names, home, owner, move>> /\ Alone(w) /\ move = "completed"
      /\ frame'[w].pc \in {"post", "idle"}
  BY ClearsStep DEF plan, wrapper, Rows
<1>2. \A s, e : In(s, e)' = In(s, e)
  BY <1>1 DEF In
<1>3. Shape' /\ Reachable'
  BY <1>1, <1>2 DEF Trees, Shape, Reachable
<1>4. ASSUME NEW v \in Worker, Holding(v)', v /= w PROVE Handles(v)' /\ Knows(v)'
  <2>1. Holding(v) /\ frame'[v] = frame[v] /\ Stage(v) /\ Handles(v) /\ Knows(v)
    BY <1>1, <1>4 DEF Holding, Alone, Trees, Rows
  <2>2. frame[v].pc \notin PairPc
    BY <1>1, <2>1 DEF Stage
  <2>3. frame[v].pc \notin TreePc \cup {"enter", "transplanted"}
    BY <2>2 DEF PairPc, GonePc
  <2> QED BY <1>1, <1>2, <2>1, <2>3 DEF Handles, Knows, At, Mem
<1>5. Handles(w)' /\ Knows(w)'
  BY <1>1, Elsewhere, ElsewhereNames
<1> QED BY <1>3, <1>4, <1>5 DEF Trees

\* Whoever stops does nothing to the trees, and the next owner begins anew.
LEMMA StopsTrees ==
    ASSUME TypeOK, Trees, NEW w \in Worker, Stops(w)
    PROVE  Trees'
<1>1. UNCHANGED <<names, home, state, move>> /\ Alone(w)
  BY StopsStep DEF plan, wrapper, trees
<1>2. \A s, e : In(s, e)' = In(s, e)
  BY <1>1 DEF In
<1>3. Shape' /\ Reachable'
  BY <1>1, <1>2 DEF Trees, Shape, Reachable
<1>4. CASE owner' = owner /\ ~Holding(w)
  BY <1>1, <1>4, TreesAside
<1>5. CASE owner' = owner /\ Holding(w) /\ frame'[w].pc = "idle"
  BY <1>3, <1>5, TreesByOwner, Elsewhere, ElsewhereNames
<1>6. CASE owner' = owner /\ Holding(w) /\ frame[w].pc \in SavePc \cup CallPc /\ frame'[w].pc = Refused(frame[w].pc)
           /\ frame'[w].mem = frame[w].mem
  <2>1. \/ frame[w].pc = "retire_file" /\ frame'[w].pc = "undo_file"
        \/ frame[w].pc = "rmdir" /\ frame'[w].pc = "kept"
        \/ frame'[w].pc \in {"clean_failed", "failed"}
    BY <1>6 DEF Refused
  <2>2. Handles(w) /\ Knows(w)
    BY <1>6 DEF Trees
  <2>3. frame'[w].pc \in {"undo_file", "kept"} => Handles(w)' /\ Knows(w)'
    BY <1>1, <1>2, <1>6, <2>1, <2>2 DEF Handles, Knows, At, Mem, HeadPc, TreePc, DirPc, UnlinkPc, GonePc
  <2> QED BY <1>3, <1>6, <2>1, <2>3, TreesByOwner, Elsewhere, ElsewhereNames
<1>7. CASE owner' = w /\ frame' = frame /\ frame[w].pc = "idle"
  <2>1. Handles(w)' /\ Knows(w)'
    BY <1>7, Elsewhere, ElsewhereNames
  <2> QED BY <1>3, <1>7, <2>1 DEF Trees, Holding
<1> QED BY <1>4, <1>5, <1>6, <1>7, StopsStep

\* Nobody else replaces what the owner is about to unlink, or takes away where it is.
LEMMA TampersTrees ==
    ASSUME TypeOK, Trees, Tampers
    PROVE  Trees'
<1>1. UNCHANGED <<plan, owner, reserve, state, frame>>
  BY TampersStep
<1>2. ASSUME UNCHANGED names, home' = home \/ home = None PROVE Trees'
  <2>1. \A s, e : In(s, e)' = In(s, e)
    BY <1>2 DEF In
  <2>2. Shape'
    BY <2>1 DEF Trees, Shape
  <2>3. Reachable'
    BY <1>1, <1>2, <2>1, Distinctness DEF Trees, Reachable, plan, Distinct
  <2>4. ASSUME NEW w \in Worker, Holding(w)' PROVE Handles(w)' /\ Knows(w)'
    BY <1>1, <1>2, <2>1, <2>4, Distinctness DEF Trees, Holding, Handles, Knows, At, Mem, Distinct
  <2> QED BY <2>2, <2>3, <2>4 DEF Trees
<1>3. CASE TamperWrapper \/ Drift
  BY <1>2, <1>3 DEF TamperWrapper, Drift, trees
<1>4. ASSUME NEW s \in Side, NEW e \in Entry, Tamper(s, e) PROVE Trees'
  <2> DEFINE c == IF s = "source" THEN Newer ELSE Alien
  <2>1. c \in Content /\ c /= None
    BY Distinctness DEF Content, Distinct
  <2>2. /\ names' = Set(s, e, c) /\ UNCHANGED home
        /\ \/ s = "source" /\ e = "file" /\ In("source", "root") /= None /\ ~Unlinking
           \/ /\ s = "target" /\ In("target", e) = None
              /\ e /= "root" => In("target", "root") /= None \/ In("target", "dir") /= None
    BY <1>4, SourceType DEF Tamper, wrapper, Entry
  <2> HIDE DEF c
  <2>3. In(s, e)' = c /\ \A s2 \in Side, e2 \in Entry : s2 /= s \/ e2 /= e => In(s2, e2)' = In(s2, e2)
    BY <2>1, <2>2, SetIn
  <2>4. /\ {"root", "file", "dir", "link"} = Entry /\ Side = {"source", "target"}
    BY DEF Entry, Side
  <2>5. Shape'
    BY <2>1, <2>2, <2>3, <2>4 DEF Trees, Shape
  <2>6. Reachable'
    BY <1>1, <2>2, <2>3, <2>4 DEF Trees, Reachable, plan
  <2>7. ASSUME NEW w \in Worker, Holding(w)' PROVE Handles(w)' /\ Knows(w)'
    <3>1. Handles(w) /\ Knows(w) /\ UNCHANGED <<frame, home, state>>
      BY <1>1, <2>2, <2>7 DEF Trees, Holding
    <3>2. Unlinking \/ frame[w].pc \notin UnlinkPc
      BY DEF Unlinking, UnlinkPc
    <3>3. Handles(w)'
      BY <2>1, <2>2, <2>3, <2>4, <3>1, <3>2, Distinctness DEF Handles, Distinct, UnlinkPc
    <3>4. Knows(w)'
      BY <2>1, <2>2, <2>3, <2>4, <3>1 DEF Knows, At, Mem
    <3> QED BY <3>3, <3>4
  <2> QED BY <2>5, <2>6, <2>7 DEF Trees
<1> QED BY <1>3, <1>4 DEF Tampers

\* While nobody without the lease changes the trees, the owner knows them.
LEMMA TreesStep ==
    ASSUME TypeOK, Rows, ~late => Trees, Next, ~late'
    PROVE  Trees'
<1>1. ASSUME NEW w \in Worker, Looks(w) PROVE Trees'
  <2>1. UNCHANGED <<names, home, state, owner, move, late>> /\ Alone(w)
    BY <1>1, LooksStep DEF plan, wrapper, trees, env
  <2> QED BY <1>1, <2>1, LooksTrees, TreesAside
<1>2. ASSUME NEW w \in Worker, Checks(w) PROVE Trees'
  BY <1>2, ChecksStep, ChecksTrees DEF env
<1>3. ASSUME NEW w \in Worker, Calls(w) PROVE Trees'
  BY <1>3, CallsStep, CallsTrees
<1>4. ASSUME NEW w \in Worker, Saves(w) PROVE Trees'
  BY <1>4, SavesStep, SavesTrees
<1>5. ASSUME NEW w \in Worker, Wraps(w) \/ PutHome(w) PROVE Trees'
  BY <1>5, WrapsStep, PutHomeStep, WrapsTrees DEF env
<1>6. ASSUME NEW w \in Worker, Writes(w) PROVE Trees'
  BY <1>6, WritesStep, WritesTrees DEF env
<1>7. ASSUME NEW w \in Worker, Clears(w) PROVE Trees'
  BY <1>7, ClearsStep, ClearsTrees DEF env
<1>8. ASSUME NEW w \in Worker, Stops(w) PROVE Trees'
  BY <1>8, StopsStep, StopsTrees
<1>9. ASSUME Tampers PROVE Trees'
  BY <1>9, TampersStep, TampersTrees
<1> QED BY <1>1, <1>2, <1>3, <1>4, <1>5, <1>6, <1>7, <1>8, <1>9, Steps, WorkerSteps

-----------------------------------------------------------------------------
(* The trees without changes by users.                                     *)

Told == move = "executing" /\ In("source", "root") = None /\ In("target", "root") = Made => Recorded(state)

\* Inode numbers do not change while a move is begun or under way.
LEMMA IdentifiedBy ==
    ASSUME Identified, NEW w \in Worker, owner' = owner, Alone(w), drifted' \in {drifted, FALSE}, Told',
           frame'[w].pc = "intent" => ~drifted', move' = "executing" => move = "executing" \/ ~drifted'
    PROVE  Identified'
<1>1. ASSUME NEW v \in Worker, Holding(v)', At(v, "intent")', v /= w PROVE ~drifted'
  BY <1>1 DEF Identified, Holding, At, Alone
<1>2. At(w, "intent")' => ~drifted'
  BY DEF At
<1>3. move' = "executing" => ~drifted'
  BY DEF Identified
<1>4. (\A v \in Worker : Holding(v) /\ At(v, "intent") => ~drifted)'
  BY <1>1, <1>2
<1> QED BY <1>3, <1>4 DEF Identified, Told

\* A worker that makes no check comes to no intent.
LEMMA IdentifiedStill ==
    ASSUME Identified, NEW w \in Worker, owner' = owner, Alone(w), drifted' = drifted, Told',
           frame'[w].pc /= "intent", move' = "executing" => move = "executing"
    PROVE  Identified'
BY IdentifiedBy

\* Nothing is lost from the tree by a call of the owner, and what it has made is recorded.
LEMMA CallsWhole ==
    ASSUME TypeOK, Trees, Whole, Identified, NEW w \in Worker, Holding(w), Calls(w)
    PROVE  Whole' /\ Told'
<1>1. UNCHANGED <<state, move>>
  BY CallsStep DEF plan
<1>2. Shape /\ Handles(w) /\ Knows(w)
  BY DEF Trees
<1>3. names \in NamesType
  BY DEF TypeOK, NamesType
<1>4. /\ {"root", "file", "dir", "link"} = Entry /\ Side = {"source", "target"} /\ {Own, Made, None} \subseteq Content
      /\ \A e \in Entry : Source(e) /= None => home = Wrapper /\ Source(e) = In("source", e)
      /\ \A e \in Entry : home = Wrapper => Source(e) = In("source", e)
      /\ \A e \in Entry : Target(e) = In("target", e)
  BY SourceType DEF Entry, Side, Content
<1>5. Told
  BY DEF Identified, Told
<1>6. ASSUME names' = names PROVE Whole' /\ Told'
  BY <1>1, <1>5, <1>6 DEF Whole, Told, In
<1>7. ASSUME In("source", "root")' = In("source", "root"), In("target", "root")' = In("target", "root") PROVE Told'
  BY <1>1, <1>5, <1>7 DEF Told
<1> USE DEF Call, At
<1>8. CASE Rename(w)
  <2>1. CASE names' = Renamed /\ Source("root") /= None /\ Target("root") = None
    <3>1. \A e \in Entry : In("source", e)' = None /\ In("target", e)' = In("source", e)
      BY <1>3, <2>1, RenamedNames DEF In
    <3>2. \A e \in Entry : In("source", e) = Own
      BY <1>2, <1>4, <2>1 DEF Shape, Whole
    <3>3. Whole'
      BY <1>4, <3>1, <3>2, Distinctness DEF Whole, Distinct
    <3>4. Told'
      BY <1>4, <3>1, <3>2, Distinctness DEF Told, Distinct
    <3> QED BY <3>3, <3>4
  <2> QED BY <1>6, <1>8, <2>1 DEF Rename
<1>9. CASE MakeRoot(w)
  <2>1. In("source", "root") /= None
    BY <1>2, <1>9 DEF MakeRoot, Knows, HeadPc
  <2>2. CASE names' = Set("target", "root", Made)
    <3>1. In("target", "root")' = Made /\ \A s \in Side, e \in Entry : s /= "target" \/ e /= "root" => In(s, e)' = In(s, e)
      BY <1>4, <2>2, SetIn
    <3>2. Whole' /\ Told'
      BY <1>4, <2>1, <3>1, Distinctness DEF Whole, Told, Distinct
    <3> QED BY <3>2
  <2> QED BY <1>6, <1>9, <2>2 DEF MakeRoot
<1>10. CASE LinkFile(w)
  <2>1. CASE names' = Set("target", "file", Source("file")) /\ Source("file") /= None
    <3>1. In("source", "file") = Own /\ Source("file") = Own
      BY <1>4, <2>1 DEF Whole
    <3>2. In("target", "file")' = Own /\ \A s \in Side, e \in Entry : s /= "target" \/ e /= "file" => In(s, e)' = In(s, e)
      BY <1>4, <2>1, <3>1, SetIn
    <3>3. Whole'
      BY <1>4, <3>2, Distinctness DEF Whole, Distinct
    <3> QED BY <1>4, <1>7, <3>2, <3>3
  <2> QED BY <1>6, <1>10, <2>1 DEF LinkFile
<1>11. CASE RetireFile(w) \/ UnlinkFile(w)
  <2>1. In("target", "file") = In("source", "file") /\ In("source", "file") /= None
    BY <1>2, <1>11 DEF RetireFile, UnlinkFile, Handles, UnlinkPc
  <2>2. CASE names' = Set("source", "file", None)
    <3>1. In("source", "file")' = None /\ \A s \in Side, e \in Entry : s /= "source" \/ e /= "file" => In(s, e)' = In(s, e)
      BY <1>4, <2>2, SetIn
    <3>2. Whole'
      BY <1>4, <2>1, <3>1 DEF Whole
    <3> QED BY <1>4, <1>7, <3>1, <3>2
  <2> QED BY <1>6, <1>11, <2>2 DEF RetireFile, UnlinkFile
<1>12. CASE UndoFile(w)
  <2>1. In("source", "file") /= None
    BY <1>2, <1>12 DEF UndoFile, Handles, UnlinkPc
  <2>2. CASE names' = Set("target", "file", None)
    <3>1. In("target", "file")' = None /\ \A s \in Side, e \in Entry : s /= "target" \/ e /= "file" => In(s, e)' = In(s, e)
      BY <1>4, <2>2, SetIn
    <3>2. Whole'
      BY <1>4, <2>1, <3>1, Distinctness DEF Whole, Distinct
    <3> QED BY <1>4, <1>7, <3>1, <3>2
  <2> QED BY <1>6, <1>12, <2>2 DEF UndoFile
<1>13. CASE MakeDir(w)
  <2>1. CASE names' = Set("target", "dir", Made)
    <3>1. In("target", "dir")' = Made /\ \A s \in Side, e \in Entry : s /= "target" \/ e /= "dir" => In(s, e)' = In(s, e)
      BY <1>4, <2>1, SetIn
    <3>2. Whole'
      BY <1>4, <3>1, Distinctness DEF Whole, Distinct
    <3> QED BY <1>4, <1>7, <3>1, <3>2
  <2> QED BY <1>6, <1>13, <2>1 DEF MakeDir
<1>14. CASE PublishLink(w)
  <2>1. CASE names' = Set("target", "link", Own)
    <3>1. In("target", "link")' = Own /\ \A s \in Side, e \in Entry : s /= "target" \/ e /= "link" => In(s, e)' = In(s, e)
      BY <1>4, <2>1, SetIn
    <3>2. Whole'
      BY <1>4, <3>1, Distinctness DEF Whole, Distinct
    <3> QED BY <1>4, <1>7, <3>1, <3>2
  <2> QED BY <1>6, <1>14, <2>1 DEF PublishLink
<1>15. CASE UnlinkLink(w)
  <2>1. In("target", "link") = Own
    BY <1>2, <1>15 DEF UnlinkLink, Handles
  <2>2. CASE names' = Set("source", "link", None)
    <3>1. In("source", "link")' = None /\ \A s \in Side, e \in Entry : s /= "source" \/ e /= "link" => In(s, e)' = In(s, e)
      BY <1>4, <2>2, SetIn
    <3>2. Whole'
      BY <1>4, <2>1, <3>1, Distinctness DEF Whole, Distinct
    <3> QED BY <1>4, <1>7, <3>1, <3>2
  <2> QED BY <1>6, <1>15, <2>2 DEF UnlinkLink
<1>16. CASE LeaveDir(w)
  <2>1. In("target", "dir") /= None
    BY <1>2, <1>16 DEF LeaveDir, Handles, DirPc
  <2>2. CASE names' = Set("source", "dir", None)
    <3>1. In("source", "dir")' = None /\ \A s \in Side, e \in Entry : s /= "source" \/ e /= "dir" => In(s, e)' = In(s, e)
      BY <1>4, <2>2, SetIn
    <3>2. Whole'
      BY <1>4, <2>1, <3>1 DEF Whole
    <3> QED BY <1>4, <1>7, <3>1, <3>2
  <2> QED BY <1>6, <1>16, <2>2 DEF LeaveDir
<1>17. CASE Leave(w)
  <2>1. In("target", "root") /= None /\ state = Mem(w) /\ "root" \in Mem(w).dirs /\ Mem(w).phase = "migrating"
        /\ Mem(w) \in State
    BY <1>2, <1>17, TypedFields DEF Leave, Handles, Knows, TreePc, Mem
  <2>2. CASE names' = Set("source", "root", None)
    <3>1. In("source", "root")' = None /\ \A s \in Side, e \in Entry : s /= "source" \/ e /= "root" => In(s, e)' = In(s, e)
      BY <1>4, <2>2, SetIn
    <3>2. Whole'
      BY <1>4, <2>1, <3>1 DEF Whole
    <3>3. Recorded(state)
      BY <2>1, NoneIsNoState DEF Recorded
    <3> QED BY <1>1, <3>2, <3>3 DEF Told
  <2> QED BY <1>6, <1>17, <2>2 DEF Leave
<1> QED BY <1>8, <1>9, <1>10, <1>11, <1>12, <1>13, <1>14, <1>15, <1>16, <1>17 DEF Calls

\* Undisturbed, the tree stays whole, and the wrapper is still the frozen one.
LEMMA UndisturbedStep ==
    ASSUME TypeOK, Rows, Trees, Whole, Identified, Next, Undisturbed, Undisturbed'
    PROVE  Whole' /\ Identified'
<1>0. ~late' /\ tampers' = 0 /\ tampers = 0
  BY DEF Undisturbed
<1>1. Told /\ (move = "executing" => ~drifted)
  BY DEF Identified, Told
<1>2. ASSUME UNCHANGED names PROVE Whole' /\ (\A s, e : In(s, e)' = In(s, e))
  BY <1>2 DEF Whole, In
<1>3. ASSUME UNCHANGED <<names, state, move>> PROVE Whole' /\ Told'
  BY <1>1, <1>2, <1>3 DEF Told
<1>4. ASSUME NEW w \in Worker, Looks(w) PROVE Whole' /\ Identified'
  <2>1. UNCHANGED <<names, state, move, owner, drifted>> /\ Alone(w) /\ frame'[w].pc /= "intent"
    BY <1>4, LooksStep DEF plan, wrapper, trees, Stays, BeforePc
  <2> QED BY <1>3, <2>1, IdentifiedStill
<1>5. ASSUME NEW w \in Worker, Checks(w) PROVE Whole' /\ Identified'
  <2>1. UNCHANGED <<names, state, owner>> /\ Alone(w) /\ move' \in {move, "failed"} /\ drifted' \in {drifted, FALSE}
    BY <1>5, ChecksStep DEF trees, Moved
  <2>2. frame'[w].pc = "intent" => ~drifted'
    <3>1. Passed("preflight") = "boundary" /\ Passed("boundary") = "intent" /\ Passed("look") = "guard"
      BY DEF Passed
    <3>2. Fresh => ~drifted
      BY DEF Fresh
    <3> QED BY <1>5, <3>1, <3>2, ChecksStep
  <2>3. Whole' /\ Told'
    BY <1>1, <1>2, <2>1 DEF Told
  <2> QED BY <2>1, <2>2, <2>3, IdentifiedBy
<1>6. ASSUME NEW w \in Worker, Calls(w) PROVE Whole' /\ Identified'
  <2>1. Holding(w) /\ UNCHANGED <<move, owner, drifted>> /\ Alone(w) /\ frame'[w].pc /= "intent"
    BY <1>0, <1>6, CallsStep DEF plan, wrapper, Stays, BeforePc, Moved
  <2> QED BY <1>6, <2>1, CallsWhole, IdentifiedStill
<1>7. ASSUME NEW w \in Worker, Saves(w) PROVE Whole' /\ Identified'
  <2>1. /\ Holding(w) /\ UNCHANGED <<names, move, owner, drifted>> /\ Alone(w) /\ frame'[w].pc /= "intent"
        /\ state' = frame'[w].mem /\ state' \in State
    BY <1>0, <1>7, SavesStep DEF plan, wrapper
  <2>2. Knows(w)
    BY <2>1 DEF Trees
  <2>3. CASE frame[w].pc \in {"save", "record_root", "migrate"}
    <3>1. In("source", "root") /= None
      BY <2>2, <2>3 DEF Knows, HeadPc
    <3> QED BY <1>2, <2>1, <3>1, IdentifiedStill DEF Told
  <2>4. CASE frame[w].pc \in {"record_dir", "record_link", "transplanted"}
    <3>1. "root" \in Mem(w).dirs /\ Mem(w).phase = "migrating"
      BY <2>2, <2>4 DEF Knows, TreePc, DirPc
    <3>2. "root" \in state'.dirs /\ state'.phase \in {"migrating", "transplanted"}
      BY <1>7, <2>1, <2>4, <3>1, SavesStep DEF At
    <3>3. Recorded(state)'
      BY <2>1, <3>2, NoneIsNoState DEF Recorded
    <3> QED BY <1>2, <2>1, <3>3, IdentifiedStill DEF Told
  <2> QED BY <1>7, <2>3, <2>4, SavesStep DEF At
<1>8. ASSUME NEW w \in Worker, Wraps(w) \/ PutHome(w) PROVE Whole' /\ Identified'
  <2>1. UNCHANGED <<names, state, move, owner, drifted>> /\ Alone(w) /\ frame'[w].pc /= "intent"
    BY <1>8, WrapsStep, PutHomeStep DEF plan, trees, Stays, BeforePc, Moved
  <2> QED BY <1>3, <2>1, IdentifiedStill
<1>9. ASSUME NEW w \in Worker, Writes(w) PROVE Whole' /\ Identified'
  <2>1. UNCHANGED <<names, state, owner, drifted>> /\ Holding(w) /\ Alone(w)
    BY <1>9, WritesStep DEF wrapper, trees
  <2>2. CASE frame[w].pc = "intent" /\ frame'[w].pc = "look"
    <3>1. ~drifted /\ In("source", "root") /= None
      BY <2>1, <2>2 DEF Identified, At, Trees, Knows
    <3> QED BY <1>2, <2>1, <2>2, <3>1, IdentifiedBy DEF Told
  <2>3. CASE (move' = "executing" => move = "executing") /\ frame'[w].pc /= "intent"
    <3>1. Whole' /\ Told'
      BY <1>1, <1>2, <2>1, <2>3 DEF Told
    <3> QED BY <2>1, <2>3, <3>1, IdentifiedStill
  <2>4. \A pc \in MovePc : MoveResult(pc) /= "executing"
    BY DEF MovePc, MoveResult
  <2>5. MoveVerdict /= "executing"
    BY Verdicts
  <2> QED BY <1>9, <2>2, <2>3, <2>4, <2>5, WritesStep DEF At
<1>10. ASSUME NEW w \in Worker, Clears(w) PROVE Whole' /\ Identified'
  <2>1. UNCHANGED <<names, move, owner, drifted>> /\ Alone(w) /\ frame'[w].pc /= "intent" /\ move = "completed"
    BY <1>10, ClearsStep DEF plan, wrapper, Rows
  <2> QED BY <1>2, <2>1, IdentifiedStill DEF Told
<1>11. ASSUME NEW w \in Worker, Stops(w) PROVE Whole' /\ Identified'
  <2>1. UNCHANGED <<names, state, move, drifted>> /\ Alone(w)
    BY <1>11, StopsStep DEF plan, wrapper, trees
  <2>2. CASE owner' = owner
    BY <1>3, <1>11, <2>1, <2>2, StopsStay, IdentifiedStill DEF Stays, BeforePc
  <2>3. CASE owner' = w /\ frame' = frame /\ frame[w].pc = "idle"
    <3>1. \A v \in Worker : ~(Holding(v)' /\ At(v, "intent")')
      BY <2>3 DEF Holding, At
    <3> QED BY <1>1, <1>3, <2>1, <3>1 DEF Identified, Told
  <2> QED BY <1>11, <2>2, <2>3, StopsStep
<1>12. ~Tampers
  BY <1>0, TampersStep
<1> QED BY <1>4, <1>5, <1>6, <1>7, <1>8, <1>9, <1>10, <1>11, <1>12, Steps, WorkerSteps

-----------------------------------------------------------------------------
(* The invariant.                                                          *)

LEMMA InitialInvariant ==
    ASSUME Init
    PROVE  IInv
<1>1. /\ \A e \in Entry : In("source", e) = Own /\ In("target", e) = None
      /\ \A w \in Worker : frame[w].pc = "idle"
  BY DEF Init, In, Side, Idle
<1>2. TypeOK
  <2>1. names \in NamesType
    BY DEF Init, NamesType, Side, Entry, Content
  <2>2. frame \in [Worker -> FrameType]
    BY PcNames DEF Init, Idle, FrameType, NewState, State, Phase
  <2>3. journals \in [{"move", "clean"} -> 0..1]
    BY DEF Init
  <2>4. faults \in 0..MaxFaults /\ tampers \in 0..MaxTampers
    BY TreeMoveAssumption DEF Init
  <2> QED BY <2>1, <2>2, <2>3, <2>4 DEF Init, TypeOK, NamesType, FrameType, ItemState
<1>3. Rows
  BY <1>1 DEF Init, Rows, Order, Journalled, Stage, At, BeforePc, PairPc, HeadPc, TreePc, UnlinkPc, DirPc, GonePc,
              CleanUpPc, CleanPc
<1>4. Trees
  <2>1. Shape
    BY <1>1, Distinctness DEF Shape, Entry, Distinct
  <2>2. Reachable
    BY DEF Init, Reachable
  <2>3. \A w \in Worker : Handles(w) /\ Knows(w)
    BY <1>1 DEF Handles, Knows, At, HeadPc, TreePc, UnlinkPc, DirPc, GonePc
  <2> QED BY <2>1, <2>2, <2>3 DEF Trees
<1>5. Whole /\ Identified
  <2>1. Whole
    BY <1>1, Distinctness DEF Whole, Entry, Distinct
  <2> QED BY <1>1, <2>1 DEF Init, Identified, At
<1> QED BY <1>2, <1>3, <1>4, <1>5 DEF IInv

\* Every step keeps the invariant, and what is late or disturbed stays so.
LEMMA NextInvariant ==
    ASSUME IInv, [Next]_vars
    PROVE  IInv'
<1>1. CASE Next
  <2>1. TypeOK' /\ Rows'
    BY <1>1, RowsStep DEF IInv
  <2>2. ~late' => Trees'
    BY <1>1, TreesStep DEF IInv
  <2>3. Undisturbed' => Undisturbed
    <3>1. ASSUME NEW w \in Worker, Run(w) \/ Residue(w) \/ Crash(w) \/ CallFails(w) \/ TakeOver(w)
          PROVE  tampers' = tampers /\ (late => late')
      BY <3>1, WorkerSteps, LooksStep, ChecksStep, CallsStep, SavesStep, WrapsStep, PutHomeStep, WritesStep, ClearsStep,
         StopsStep DEF IInv, env
    <3>2. Tampers => tampers' /= 0
      BY TampersStep DEF IInv, TypeOK
    <3> QED BY <1>1, <3>1, <3>2, Steps DEF Undisturbed
  <2>4. Undisturbed' => Whole' /\ Identified'
    BY <1>1, <2>3, UndisturbedStep DEF IInv, Undisturbed
  <2> QED BY <2>1, <2>2, <2>4 DEF IInv
<1>2. CASE UNCHANGED vars
  <2>1. /\ UNCHANGED <<mode, trusted, drifted, owner, job, move, clean, journals, home, reserve, extra, names, state>>
        /\ UNCHANGED <<frame, faults, tampers, late>>
    BY <1>2 DEF vars, plan, wrapper, trees, env
  <2>2. \A s, e : In(s, e)' = In(s, e)
    BY <2>1 DEF In
  <2>3. TypeOK' /\ Rows'
    BY <2>1 DEF IInv, TypeOK, Rows, Order, Journalled, Stage, At, Holding
  <2>4. ~late' => Trees'
    BY <2>1, <2>2 DEF IInv, Trees, Shape, Reachable, Handles, Knows, At, Holding, Mem
  <2>5. Undisturbed' => Whole' /\ Identified'
    BY <2>1, <2>2 DEF IInv, Undisturbed, Whole, Identified, At, Holding
  <2> QED BY <2>3, <2>4, <2>5 DEF IInv
<1> QED BY <1>1, <1>2

\* The invariant holds always.
LEMMA Invariance == Spec => []IInv
<1>1. Init => IInv
  BY InitialInvariant
<1>2. IInv /\ [Next]_vars => IInv'
  BY NextInvariant
<1> QED BY <1>1, <1>2, PTL DEF Spec

-----------------------------------------------------------------------------
(* What the invariant says about the properties.                           *)

(* Every variable keeps the values the code gives it, and every journal is *)
(* written once.                                                           *)
THEOREM MoveTypeCorrect == Spec => []TypeOK
BY Invariance, PTL DEF IInv

\* A call of the owner takes away no name that is not left elsewhere.
LEMMA CallsLoseNothing ==
    ASSUME TypeOK, Trees, NEW w \in Worker, Calls(w)
    PROVE  LosesNothing \/ late'
<1>0. SUFFICES ASSUME Holding(w), NEW e \in {"file", "link"}, NEW c \in {Own, Newer, Alien}, Kept(e, c)
               PROVE  Kept(e, c)'
  BY CallsStep DEF LosesNothing
<1>1. /\ {"root", "file", "dir", "link"} = Entry /\ Side = {"source", "target"} /\ {Own, Made, None} \subseteq Content
      /\ \A x \in Entry : Source(x) \in Content /\ (Source(x) /= None => Source(x) = In("source", x))
      /\ \A x \in Entry : Target(x) = In("target", x)
  BY SourceType DEF Entry, Side, Content
<1>2. Shape /\ Handles(w) /\ c /= None /\ names \in NamesType
  BY <1>0, Distinctness DEF Trees, Distinct, TypeOK, NamesType
<1>3. \/ In("source", e) = c
      \/ In("target", e) = c
  BY <1>0, <1>1 DEF Kept, In
<1>4. ASSUME In("source", e)' = c \/ In("target", e)' = c PROVE Kept(e, c)'
  BY <1>1, <1>4 DEF Kept, In
<1>5. ASSUME names' = names PROVE Kept(e, c)'
  BY <1>3, <1>4, <1>5 DEF In
<1>6. ASSUME NEW s \in Side, NEW x \in {"root", "dir"}, NEW d \in Content, names' = Set(s, x, d) PROVE Kept(e, c)'
  BY <1>1, <1>3, <1>4, <1>6, SetIn
<1> USE DEF Call, At
<1>7. CASE Rename(w)
  <2>1. CASE names' = Renamed /\ Target("root") = None
    <3>1. In("target", e) = None /\ In("target", e)' = In("source", e)
      BY <1>1, <1>2, <2>1, RenamedNames DEF Shape, In
    <3> QED BY <1>2, <1>3, <1>4, <3>1
  <2> QED BY <1>5, <1>7, <2>1 DEF Rename
<1>8. CASE MakeRoot(w) \/ MakeDir(w) \/ LeaveDir(w) \/ Leave(w)
  BY <1>1, <1>5, <1>6, <1>8 DEF MakeRoot, MakeDir, LeaveDir, Leave
<1>9. CASE LinkFile(w)
  <2>1. CASE names' = Set("target", "file", Source("file")) /\ Target("file") = None
    <3>1. \A s \in Side, x \in Entry : s /= "target" \/ x /= "file" => In(s, x)' = In(s, x)
      BY <1>1, <2>1, SetIn
    <3> QED BY <1>1, <1>2, <1>3, <1>4, <2>1, <3>1
  <2> QED BY <1>5, <1>9, <2>1 DEF LinkFile
<1>10. CASE RetireFile(w) \/ UnlinkFile(w)
  <2>1. In("target", "file") = In("source", "file")
    BY <1>2, <1>10 DEF RetireFile, UnlinkFile, Handles, UnlinkPc
  <2>2. CASE names' = Set("source", "file", None)
    <3>1. \A s \in Side, x \in Entry : s /= "source" \/ x /= "file" => In(s, x)' = In(s, x)
      BY <1>1, <2>2, SetIn
    <3> QED BY <1>1, <1>3, <1>4, <2>1, <3>1
  <2> QED BY <1>5, <1>10, <2>2 DEF RetireFile, UnlinkFile
<1>11. CASE UndoFile(w)
  <2>1. In("target", "file") = In("source", "file")
    BY <1>2, <1>11 DEF UndoFile, Handles, UnlinkPc
  <2>2. CASE names' = Set("target", "file", None)
    <3>1. \A s \in Side, x \in Entry : s /= "target" \/ x /= "file" => In(s, x)' = In(s, x)
      BY <1>1, <2>2, SetIn
    <3> QED BY <1>1, <1>3, <1>4, <2>1, <3>1
  <2> QED BY <1>5, <1>11, <2>2 DEF UndoFile
<1>12. CASE PublishLink(w)
  <2>1. CASE names' = Set("target", "link", Own) /\ Target("link") = None
    <3>1. \A s \in Side, x \in Entry : s /= "target" \/ x /= "link" => In(s, x)' = In(s, x)
      BY <1>1, <2>1, SetIn
    <3> QED BY <1>1, <1>2, <1>3, <1>4, <2>1, <3>1
  <2> QED BY <1>5, <1>12, <2>1 DEF PublishLink
<1>13. CASE UnlinkLink(w)
  <2>1. In("target", "link") = Own /\ In("source", "link") \in {Own, None}
    BY <1>2, <1>13 DEF UnlinkLink, Handles, Shape
  <2>2. CASE names' = Set("source", "link", None)
    <3>1. \A s \in Side, x \in Entry : s /= "source" \/ x /= "link" => In(s, x)' = In(s, x)
      BY <1>1, <2>2, SetIn
    <3> QED BY <1>1, <1>2, <1>3, <1>4, <2>1, <3>1
  <2> QED BY <1>5, <1>13, <2>2 DEF UnlinkLink
<1> QED BY <1>7, <1>8, <1>9, <1>10, <1>11, <1>12, <1>13 DEF Calls

(* Whatever is interrupted, repeated or fails, and whatever users put into *)
(* the trees, no step takes away the last name of a file or symlink, as    *)
(* long as no worker has made a call without the lease                     *)
(* (directory_transplant.py:230-297).                                      *)
THEOREM MoveLosesNothing == Spec => NothingLost
<1>1. IInv /\ [Next]_vars => LosesNothing \/ Disturbs
  <2> SUFFICES ASSUME IInv, [Next]_vars PROVE LosesNothing \/ Disturbs
    OBVIOUS
  <2>1. ASSUME UNCHANGED names PROVE LosesNothing
    BY <2>1 DEF LosesNothing, Kept
  <2>2. ASSUME NEW w \in Worker, Calls(w) PROVE LosesNothing \/ late'
    <3>1. late => late'
      BY <2>2, CallsStep DEF IInv
    <3> QED BY <2>2, <3>1, CallsLoseNothing DEF IInv
  <2>3. ASSUME Tampers PROVE tampers' /= tampers
    BY <2>3, TampersStep DEF IInv, TypeOK
  <2>4. ASSUME NEW w \in Worker, \/ Looks(w) \/ Checks(w) \/ Saves(w) \/ Wraps(w) \/ PutHome(w) \/ Writes(w)
                                 \/ Clears(w) \/ Stops(w)
        PROVE  UNCHANGED names
    BY <2>4, LooksStep, ChecksStep, SavesStep, WrapsStep, PutHomeStep, WritesStep, ClearsStep, StopsStep DEF IInv, trees
  <2>5. CASE UNCHANGED vars
    BY <2>1, <2>5 DEF vars, trees
  <2> QED BY <2>1, <2>2, <2>3, <2>4, <2>5, Steps, WorkerSteps DEF Disturbs
<1> QED BY <1>1, Invariance, PTL DEF Spec, NothingLost

\* A move is settled by a verdict, a check, or the worker that made it.
LEMMA Settling ==
    ASSUME IInv, Next, move' /= move
    PROVE  \/ move = "executing" /\ move' = MoveVerdict
           \/ \E w \in Worker : Holding(w) /\ frame[w].pc \in MovePc /\ move' = MoveResult(frame[w].pc)
           \/ \E w \in Worker : Holding(w) /\ frame[w].pc \in {"preflight", "boundary", "look"} /\ move' = "failed"
                                /\ (At(w, "preflight") => move = "planned")
           \/ move' = "executing"
<1>1. \A w \in Worker : ~(Looks(w) \/ Calls(w) \/ Saves(w) \/ Wraps(w) \/ PutHome(w) \/ Clears(w) \/ Stops(w))
  BY LooksStep, CallsStep, SavesStep, WrapsStep, PutHomeStep, ClearsStep, StopsStep DEF IInv, plan
<1>2. ~Tampers
  BY TampersStep DEF IInv, plan
<1>3. PICK w \in Worker : Writes(w) \/ Checks(w)
  BY <1>1, <1>2, Steps, WorkerSteps
<1>4. CASE Writes(w)
  BY <1>4, WritesStep DEF IInv
<1>5. CASE Checks(w)
  BY <1>5, ChecksStep DEF IInv
<1> QED BY <1>3, <1>4, <1>5

(* A move is reported completed, by its worker or after a crash, only when *)
(* the source is gone and the whole tree is at the target.                 *)
THEOREM MoveTruthful == Spec => TruthfulMove
<1> DEFINE There ==
      /\ \A e \in Entry : Source(e) = None
      /\ \A e \in {"file", "link"} : Target(e) = Own
      /\ {Target("root"), Target("dir")} \subseteq {Own, Made}
<1>1. IInv /\ [Next]_vars => (move /= "completed" /\ move' = "completed" /\ Undisturbed => There)
  <2> SUFFICES ASSUME IInv, Next, move /= "completed", move' = "completed", Undisturbed PROVE There
    BY DEF vars, plan
  <2>1. Trees /\ Whole
    BY DEF IInv, Undisturbed
  <2>2. In("source", "root") = None
    <3>1. CASE move = "executing" /\ move' = MoveVerdict
      <4>1. Source("root") = None
        BY <3>1 DEF MoveVerdict, Transplanted
      <4> QED BY <2>1, <3>1, <4>1 DEF Trees, Reachable, Source, In
    <3>2. ASSUME NEW w \in Worker, Holding(w), frame[w].pc \in MovePc, move' = MoveResult(frame[w].pc)
          PROVE  In("source", "root") = None
      <4>1. frame[w].pc \in {"removed", "kept"}
        BY <3>2 DEF MovePc, MoveResult
      <4> QED BY <2>1, <3>2, <4>1 DEF Trees, Knows, GonePc
    <3> QED BY <3>1, <3>2, Settling
  <2>3. \A e \in Entry : In("source", e) = None
    BY <2>1, <2>2 DEF Trees, Shape
  <2>4. \A e \in Entry : Source(e) = None /\ Target(e) = In("target", e)
    BY <2>3 DEF Source, Target, In
  <2>5. /\ {"root", "file", "dir", "link"} = Entry
        /\ \A e \in Entry : In("target", e) \in {Own, Made} /\ (e \in {"file", "link"} => In("target", e) = Own)
    BY <2>1, <2>3 DEF Whole, Entry
  <2> QED BY <2>4, <2>5
<1> QED BY <1>1, Invariance, PTL DEF Spec, TruthfulMove

(* A finished move that was interrupted before it was reported is found to *)
(* be finished: recovery fails only a move whose source is still there     *)
(* (handlers_base.py:621-674).                                             *)
THEOREM FinishedMoveFound == Spec => FinishedMoveIsFound
<1>1. IInv /\ [Next]_vars => (move = "executing" /\ move' = "failed" /\ Undisturbed =>
                                  Source("root") /= None \/ \E w \in Worker : At(w, "failed"))
  <2> SUFFICES ASSUME IInv, Next, move = "executing", move' = "failed", Undisturbed
               PROVE  Source("root") /= None \/ \E w \in Worker : At(w, "failed")
    BY DEF vars, plan
  <2>1. Trees /\ Whole /\ Identified /\ Rows /\ TypeOK
    BY DEF IInv, Undisturbed
  <2>2. CASE move' = MoveVerdict
    <3> SUFFICES ASSUME Source("root") = None PROVE FALSE
      OBVIOUS
    <3>1. In("source", "root") = None
      BY <2>1 DEF Trees, Reachable, Source, In
    <3>2. In("target", "root") \in {Own, Made} /\ Target("root") = In("target", "root")
      BY <2>1, <3>1 DEF Whole, Entry, Target, In
    <3>3. CASE Target("root") = Own
      BY <2>1, <2>2, <3>3 DEF Identified, MoveVerdict
    <3>4. CASE Target("root") = Made
      <4>1. Recorded(state)
        BY <2>1, <3>1, <3>2, <3>4 DEF Identified
      <4>2. Transplanted
        BY <3>4, <4>1 DEF Recorded, Transplanted
      <4> QED BY <2>2, <4>2 DEF MoveVerdict
    <3> QED BY <3>2, <3>3, <3>4
  <2>3. ASSUME NEW w \in Worker, frame[w].pc \in MovePc, move' = MoveResult(frame[w].pc)
        PROVE  At(w, "failed")
    BY <2>3 DEF MovePc, MoveResult, At
  <2>4. ASSUME NEW w \in Worker, Holding(w), frame[w].pc \in {"preflight", "boundary", "look"},
               At(w, "preflight") => move = "planned"
        PROVE  Source("root") /= None
    <3>1. frame[w].pc = "look"
      BY <2>1, <2>4 DEF Rows, Stage, At, BeforePc
    <3>2. home = Wrapper /\ In("source", "root") /= None
      BY <2>1, <2>4, <3>1 DEF Trees, Knows
    <3> QED BY <3>2 DEF Source, In
  <2> QED BY <2>2, <2>3, <2>4, Settling
<1> QED BY <1>1, Invariance, PTL DEF Spec, FinishedMoveIsFound

-----------------------------------------------------------------------------
(* The wrapper, whoever has the lease and whatever users do.               *)

Aborted == {"skipped", "failed"}

Gone == home /= Wrapper /\ reserve /= Wrapper

\* What was put into the quarantine was not the empty wrapper.
Spoiled == ~Empty \/ drifted \/ Gone

\* The child can not be moved any more.
Blocked == In("source", "root") = None \/ In("target", "root") /= None \/ drifted

TransplantPc == HeadPc \cup TreePc \cup {"enter", "transplanted"}

\* What a worker has found out of the wrapper stays so until it acts on it.
CleansUp(v) ==
    /\ At(v, "authority") => move \in Settled /\ (move \in Aborted /\ mode = "native" => Blocked)
    /\ frame[v].pc \in {"relocate", "verify", "put_back"} => move \in Aborted /\ (mode = "native" => Blocked)
    /\ frame[v].pc \in {"verify", "put_back"} => mode = "native"
    /\ At(v, "verify") => Spoiled \/ reserve = Wrapper
    /\ At(v, "put_back") => Spoiled
    /\ At(v, "rmdir_own") => move = "completed"
    /\ At(v, "removed") => Gone
    /\ At(v, "clean_completed") =>
           \/ move = "completed" /\ Gone
           \/ mode = "native" /\ move \in Aborted /\ reserve = Wrapper /\ Empty /\ ~drifted
    /\ frame[v].pc \in TransplantPc => mode = "transplant"

\* Only the wrapper of a move that came to nothing is relocated.
Relocates == reserve /= None => move \in Aborted /\ mode = "native"

\* The wrapper is in one place or removed, empty.
InOnePlace == (Gone => Empty) /\ (reserve = Wrapper => home /= Wrapper) /\ In("source", "root") \in {Own, None}

\* A clean-up that may relocate does not meet a move.
Apart == move \in Aborted /\ clean \in {"planned", "executing"} /\ mode = "native" => Blocked

Wrapping == Relocates /\ InOnePlace /\ Apart /\ \A v \in Worker : CleansUp(v)

\* What no step does to the wrapper and to the child's root.
OnlyAhead ==
    /\ mode' = mode
    /\ \/ In("source", "root")' = In("source", "root")
       \/ /\ In("source", "root")' = None /\ home = Wrapper
          /\ mode /= "transplant" => In("target", "root") = None
    /\ In("target", "root") /= None => In("target", "root")' /= None
    /\ extra' /= extra => home = Wrapper /\ home' = Wrapper /\ extra'
    /\ mode = "native" => drifted' = drifted
    /\ Wrapper \in {home', reserve'} => Wrapper \in {home, reserve}
    /\ home = Wrapper /\ home' /= Wrapper /\ reserve' /= Wrapper => Empty
    /\ reserve = Wrapper /\ reserve' /= Wrapper => Spoiled /\ home' = Wrapper
    /\ reserve' = Wrapper => home' /= Wrapper
    /\ reserve = None /\ reserve' /= None => move \in Aborted /\ mode = "native"
    /\ move \in Settled => move' = move

LEMMA SettledMoves == Aborted \subseteq Settled /\ "completed" \in Settled /\ "completed" \notin Aborted
BY DEF Aborted, Settled

\* A step that does not touch them.
LEMMA Untouched ==
    ASSUME InOnePlace, UNCHANGED <<mode, wrapper, names>>, move \in Settled => move' = move
    PROVE  OnlyAhead
BY DEF OnlyAhead, InOnePlace, In, wrapper

LEMMA WritesAhead ==
    ASSUME TypeOK, Rows, NEW w \in Worker, Writes(w)
    PROVE  move \in Settled => move' = move
<1> SUFFICES ASSUME move \in Settled PROVE move' = move
  OBVIOUS
<1>1. Holding(w) /\ Stage(w)
  BY WritesStep DEF Rows
<1>2. move /= "planned" /\ move /= "executing"
  BY DEF Settled
<1>3. frame[w].pc \notin BeforePc /\ frame[w].pc \notin PairPc
  BY <1>1, <1>2 DEF Stage
<1>4. ~At(w, "intent") /\ frame[w].pc \notin MovePc
  BY <1>3 DEF BeforePc, PairPc, GonePc, MovePc, At
<1> QED BY <1>2, <1>4, WritesStep

LEMMA ChecksAhead ==
    ASSUME TypeOK, Rows, InOnePlace, NEW w \in Worker, Checks(w)
    PROVE  OnlyAhead
<1>1. UNCHANGED <<mode, home, reserve, extra, names>>
  BY ChecksStep DEF trees
<1>2. move \in Settled => move' = move
  <2>1. Holding(w) => Stage(w)
    BY DEF Rows
  <2>2. move \in Settled /\ Holding(w) => frame[w].pc \notin {"boundary", "look"}
    BY <2>1 DEF Stage, Settled, BeforePc, PairPc
  <2> QED BY <2>2, ChecksStep DEF Settled, At
<1>3. mode = "native" => drifted' = drifted
  BY ChecksStep DEF Rebased
<1> QED BY <1>1, <1>2, <1>3 DEF OnlyAhead, InOnePlace, In

\* Only a rename and the last rmdir of a transplant take the root from the source.
LEMMA CallsAhead ==
    ASSUME TypeOK, Wrapping, NEW w \in Worker, Calls(w)
    PROVE  OnlyAhead
<1>1. /\ {"root", "file", "dir", "link"} = Entry /\ Side = {"source", "target"} /\ {Own, Made, None} \subseteq Content
      /\ \A x \in Entry : Source(x) \in Content /\ (Source(x) /= None => home = Wrapper /\ Source(x) = In("source", x))
      /\ \A x \in Entry : Target(x) = In("target", x)
  BY SourceType DEF Entry, Side, Content
<1>2. names \in NamesType /\ Made /= None
  BY Distinctness DEF TypeOK, NamesType, Distinct
<1>3. /\ UNCHANGED <<plan, wrapper>>
      /\ "source" \in Side /\ "target" \in Side /\ "root" \in Entry /\ Made \in Content /\ None \in Content
      /\ Source("root") /= None => home = Wrapper
      /\ Target("root") = In("target", "root")
  BY <1>1, CallsStep
<1> DEFINE Roots == /\ \/ In("source", "root")' = In("source", "root")
                       \/ /\ In("source", "root")' = None /\ home = Wrapper
                          /\ mode /= "transplant" => In("target", "root") = None
                    /\ In("target", "root") /= None => In("target", "root")' /= None
<1>4. Roots => OnlyAhead
  BY <1>3 DEF OnlyAhead, Wrapping, InOnePlace, plan, wrapper
<1>5. ASSUME names' = names PROVE Roots
  BY <1>5 DEF In
<1>6. ASSUME NEW s \in Side, NEW x \in {"file", "dir", "link"}, NEW c \in Content, names' = Set(s, x, c) PROVE Roots
  BY <1>1, <1>6, SetIn
<1> USE DEF Call, At
<1>7. CASE Rename(w)
  <2>1. CASE names' = Renamed /\ Source("root") /= None /\ Target("root") = None
    <3>1. In("source", "root")' = None
      BY <1>2, <1>3, <2>1, RenamedNames DEF In
    <3> QED BY <1>3, <1>4, <2>1, <3>1
  <2> QED BY <1>4, <1>5, <1>7, <2>1 DEF Rename
<1>8. CASE MakeRoot(w)
  <2>1. CASE names' = Set("target", "root", Made)
    <3>1. In("target", "root")' = Made /\ In("source", "root")' = In("source", "root")
      BY <1>3, <2>1, SetIn
    <3> QED BY <1>2, <1>4, <3>1
  <2> QED BY <1>4, <1>5, <1>8, <2>1 DEF MakeRoot
<1>9. CASE Leave(w)
  <2>1. mode = "transplant"
    BY <1>9 DEF Leave, Wrapping, CleansUp, TransplantPc, TreePc
  <2>2. CASE names' = Set("source", "root", None) /\ Source("root") /= None
    <3>1. In("source", "root")' = None /\ In("target", "root")' = In("target", "root")
      BY <1>3, <2>2, SetIn
    <3> QED BY <1>3, <1>4, <2>1, <2>2, <3>1
  <2> QED BY <1>4, <1>5, <1>9, <2>2 DEF Leave
<1>10. CASE LinkFile(w) \/ RetireFile(w) \/ UndoFile(w) \/ UnlinkFile(w)
  BY <1>1, <1>4, <1>5, <1>6, <1>10 DEF LinkFile, RetireFile, UndoFile, UnlinkFile
<1>11. CASE MakeDir(w) \/ PublishLink(w) \/ UnlinkLink(w) \/ LeaveDir(w)
  BY <1>1, <1>4, <1>5, <1>6, <1>11 DEF MakeDir, PublishLink, UnlinkLink, LeaveDir
<1> QED BY <1>7, <1>8, <1>9, <1>10, <1>11 DEF Calls

LEMMA WrapsAhead ==
    ASSUME TypeOK, Wrapping, NEW w \in Worker, Wraps(w)
    PROVE  OnlyAhead
<1>1. UNCHANGED <<plan, extra, drifted, names>>
  BY WrapsStep DEF trees
<1>2. InOnePlace /\ Relocates /\ CleansUp(w)
  BY DEF Wrapping
<1> USE DEF OnlyAhead, In, plan, InOnePlace, At
<1>3. CASE RmdirPaired(w) \/ RmdirOwn(w)
  <2>1. reserve' = reserve /\ (home' /= home => home' = None /\ home = Wrapper /\ Empty)
    BY <1>3 DEF RmdirPaired, RmdirOwn, Rmdir
  <2> QED BY <1>1, <1>2, <2>1, Distinctness DEF Distinct
<1>4. CASE Relocate(w)
  <2>1. \/ UNCHANGED <<home, reserve>>
        \/ mode = "native" /\ move \in Aborted /\ reserve = None /\ reserve' = home /\ home' = None
    BY <1>2, <1>4 DEF Relocate, CleansUp
  <2> QED BY <1>1, <1>2, <2>1, Distinctness DEF Distinct
<1>5. CASE PutBack(w)
  <2>1. \/ UNCHANGED <<home, reserve>>
        \/ home = None /\ reserve /= None /\ home' = reserve /\ reserve' = None /\ Spoiled
    BY <1>2, <1>5 DEF PutBack, CleansUp
  <2> QED BY <1>1, <1>2, <2>1, Distinctness DEF Distinct
<1> QED BY <1>3, <1>4, <1>5 DEF Wraps

LEMMA PutHomeAhead ==
    ASSUME TypeOK, Wrapping, NEW w \in Worker, PutHome(w)
    PROVE  OnlyAhead
<1>1. UNCHANGED <<plan, extra, drifted, names>> /\ home = None /\ home' = reserve /\ reserve' = None
  BY PutHomeStep DEF trees
<1>2. reserve = Wrapper => Spoiled
  BY DEF PutHome, Hidden, Spoiled
<1> QED BY <1>1, <1>2, Distinctness DEF OnlyAhead, In, plan, Wrapping, InOnePlace, Distinct

LEMMA TampersAhead ==
    ASSUME TypeOK, Wrapping, Tampers
    PROVE  OnlyAhead
<1>1. UNCHANGED <<plan, reserve>> /\ InOnePlace /\ Own /= None /\ Alien /= None /\ Alien /= Wrapper /\ Wrapper /= None
  BY TampersStep, Distinctness DEF Wrapping, Distinct
<1>2. ASSUME NEW s \in Side, NEW e \in Entry, Tamper(s, e) PROVE OnlyAhead
  <2>1. UNCHANGED wrapper /\ names' = Set(s, e, IF s = "source" THEN Newer ELSE Alien)
        /\ (s = "source" => e = "file")
    BY <1>2 DEF Tamper, Side
  <2>2. {Newer, Alien} \subseteq Content /\ {"root", "file"} \subseteq Entry /\ Side = {"source", "target"}
    BY DEF Content, Entry, Side
  <2>3. In("source", "root")' = In("source", "root")
    <3>1. CASE s = "source"
      BY <2>1, <2>2, <3>1, SetIn
    <3>2. CASE s = "target"
      BY <2>1, <2>2, <3>2, SetIn
    <3> QED BY <2>2, <3>1, <3>2
  <2>4. In("target", "root") /= None => In("target", "root")' /= None
    <3>1. CASE s = "source"
      BY <2>1, <2>2, <3>1, SetIn
    <3>2. CASE s = "target"
      BY <1>1, <2>1, <2>2, <3>2, SetIn
    <3> QED BY <2>2, <3>1, <3>2
  <2> QED BY <1>1, <2>1, <2>3, <2>4 DEF OnlyAhead, InOnePlace, plan, wrapper
<1>3. CASE TamperWrapper
  BY <1>1, <1>3 DEF TamperWrapper, OnlyAhead, InOnePlace, In, plan, trees
<1>4. CASE Drift
  BY <1>1, <1>4 DEF Drift, OnlyAhead, InOnePlace, In, plan, trees
<1> QED BY <1>2, <1>3, <1>4 DEF Tampers

LEMMA StepsAhead ==
    ASSUME TypeOK, Rows, Wrapping, [Next]_vars
    PROVE  OnlyAhead
<1>0. InOnePlace
  BY DEF Wrapping
<1>1. ASSUME NEW w \in Worker, \/ Looks(w) \/ Saves(w) \/ Writes(w) \/ Clears(w) \/ Stops(w)
      PROVE  OnlyAhead
  <2>1. UNCHANGED <<mode, wrapper, names>>
    BY <1>1, LooksStep, SavesStep, WritesStep, ClearsStep, StopsStep DEF plan, trees
  <2>2. move \in Settled => move' = move
    BY <1>1, LooksStep, SavesStep, WritesAhead, ClearsStep, StopsStep DEF plan
  <2> QED BY <1>0, <2>1, <2>2, Untouched
<1>2. CASE UNCHANGED vars
  BY <1>0, <1>2, Untouched DEF vars, plan, trees
<1> QED BY <1>0, <1>1, <1>2, ChecksAhead, CallsAhead, WrapsAhead, PutHomeAhead, TampersAhead, Steps, WorkerSteps

\* So what blocks the child's move, and what spoils or removes the wrapper, lasts.
LEMMA Lasting ==
    ASSUME Wrapping, OnlyAhead
    PROVE  /\ mode = "native" /\ Blocked => Blocked'
           /\ mode = "native" /\ Blocked /\ Spoiled => Spoiled'
           /\ Gone => Gone'
           /\ move \in Aborted => move' \in Aborted
           /\ move = "completed" => move' = "completed"
<1>1. In("source", "root")' \in {In("source", "root"), None}
  BY DEF OnlyAhead
<1>2. Gone => Gone'
  BY DEF OnlyAhead, Gone
<1>3. mode = "native" /\ Blocked => Blocked'
  BY <1>1 DEF OnlyAhead, Blocked
<1>4. mode = "native" /\ Blocked /\ ~Empty => ~Empty' \/ drifted'
  BY DEF OnlyAhead, Blocked, Empty, In
<1>5. mode = "native" /\ Blocked /\ Spoiled => Spoiled'
  BY <1>2, <1>4 DEF OnlyAhead, Spoiled
<1> QED BY <1>2, <1>3, <1>5, SettledMoves DEF OnlyAhead, Aborted

LEMMA OnePlaceKept ==
    ASSUME Wrapping, OnlyAhead
    PROVE  Relocates' /\ InOnePlace'
<1>1. Relocates /\ InOnePlace
  BY DEF Wrapping
<1>2. Relocates'
  BY <1>1, Lasting DEF OnlyAhead, Relocates
<1>3. ASSUME Gone' PROVE Empty'
  <2>1. CASE Gone
    BY <1>1, <2>1 DEF InOnePlace, OnlyAhead, Gone, Empty, In
  <2>2. CASE home = Wrapper
    BY <1>3, <2>2 DEF OnlyAhead, Gone, Empty, In
  <2>3. CASE reserve = Wrapper
    BY <1>3, <2>3 DEF OnlyAhead, Gone
  <2> QED BY <2>1, <2>2, <2>3 DEF Gone
<1> QED BY <1>1, <1>2, <1>3 DEF OnlyAhead, InOnePlace

\* What a worker has found out outlasts the steps of others.
LEMMA CleansUpAside ==
    ASSUME Wrapping, OnlyAhead, NEW v \in Worker, frame'[v] = frame[v]
    PROVE  CleansUp(v)'
<1>1. CleansUp(v) /\ InOnePlace /\ mode' = mode /\ \A pc : At(v, pc)' <=> At(v, pc)
  BY DEF Wrapping, OnlyAhead, At
<1>2. /\ At(v, "authority")' => move' \in Settled /\ (move' \in Aborted /\ mode = "native" => Blocked')
      /\ frame'[v].pc \in {"relocate", "verify", "put_back"} => move' \in Aborted /\ (mode = "native" => Blocked')
  <2>1. ASSUME move \in Settled PROVE move' = move
    BY <2>1 DEF OnlyAhead
  <2> QED BY <1>1, <2>1, Lasting, SettledMoves DEF CleansUp
<1>3. At(v, "put_back")' => Spoiled'
  BY <1>1, Lasting DEF CleansUp, At
<1>4. At(v, "verify")' => Spoiled' \/ reserve' = Wrapper
  <2> SUFFICES ASSUME At(v, "verify"), reserve' /= Wrapper PROVE Spoiled'
    BY <1>1
  <2>1. Spoiled
    BY <1>1 DEF CleansUp, OnlyAhead
  <2> QED BY <1>1, <2>1, Lasting DEF CleansUp, At
<1>5. At(v, "removed")' => Gone'
  BY <1>1, Lasting DEF CleansUp
<1>6. At(v, "rmdir_own")' => move' = "completed"
  BY <1>1, Lasting DEF CleansUp
<1>7. At(v, "clean_completed")' => \/ move' = "completed" /\ Gone'
                                   \/ mode = "native" /\ move' \in Aborted /\ reserve' = Wrapper /\ Empty' /\ ~drifted'
  <2>1. CASE move = "completed" /\ Gone
    BY <2>1, Lasting
  <2>2. CASE mode = "native" /\ move \in Aborted /\ reserve = Wrapper /\ Empty /\ ~drifted
    <3>1. reserve' = Wrapper /\ ~drifted'
      BY <2>2 DEF OnlyAhead, Spoiled, Gone
    <3>2. Empty'
      BY <1>1, <2>2 DEF OnlyAhead, InOnePlace, Empty, In
    <3> QED BY <2>2, <3>1, <3>2, Lasting
  <2> QED BY <1>1, <2>1, <2>2 DEF CleansUp
<1> QED BY <1>1, <1>2, <1>3, <1>4, <1>5, <1>6, <1>7 DEF CleansUp

\* Where nothing is known of the wrapper.
QuietPc == Pc \ ({"authority", "relocate", "verify", "put_back", "rmdir_own", "removed", "clean_completed"} \cup TransplantPc)

LEMMA Quiet ==
    ASSUME NEW w \in Worker, frame'[w].pc \in QuietPc
    PROVE  CleansUp(w)'
<1>1. /\ frame'[w].pc \notin {"authority", "relocate", "verify", "put_back", "rmdir_own", "removed", "clean_completed"}
      /\ frame'[w].pc \notin TransplantPc
  BY DEF QuietPc
<1> QED BY <1>1 DEF CleansUp, At

LEMMA QuietNames ==
    {"idle", "begun", "intent", "clean_intent", "post", "failed", "skipped", "kept", "clean_skipped", "clean_failed",
     "rename", "rmdir", "preflight", "boundary", "look", "guard", "check", "confirm", "list", "tidy"} \subseteq QuietPc
BY PcNames DEF QuietPc, TransplantPc, HeadPc, TreePc, DirPc, UnlinkPc

\* A worker goes on with a transplant only where there is one.
LEMMA Transplanting ==
    ASSUME NEW w \in Worker, mode' = mode, mode = "transplant", frame'[w].pc \in TransplantPc
    PROVE  CleansUp(w)'
<1>1. frame'[w].pc \notin {"authority", "relocate", "verify", "put_back", "rmdir_own", "removed", "clean_completed"}
  BY DEF TransplantPc, HeadPc, TreePc, DirPc, UnlinkPc
<1> QED BY <1>1 DEF CleansUp, At

LEMMA LooksCleansUp ==
    ASSUME TypeOK, Wrapping, NEW w \in Worker, Looks(w)
    PROVE  CleansUp(w)'
<1>1. /\ UNCHANGED <<plan, wrapper, names>> /\ Alone(w) /\ CleansUp(w)
      /\ frame \in [Worker -> FrameType] /\ mode \in Mode /\ mode' = mode /\ move \in ItemState
  BY LooksStep, TypedFields DEF Wrapping, plan, trees, TypeOK
<1>2. /\ Gone' = Gone /\ Empty' = Empty /\ Blocked' = Blocked /\ Spoiled' = Spoiled
      /\ UNCHANGED <<move, home, reserve, drifted>>
  BY <1>1 DEF Gone, Empty, Blocked, Spoiled, In, plan, wrapper
<1>3. ASSUME NEW pc, NEW next \in Pc, Decide(w, pc, next)
      PROVE  frame[w].pc = pc /\ frame'[w].pc = next
  BY <1>1, <1>3, GoStep DEF Decide, At
<1>4. frame'[w].pc \in QuietPc => CleansUp(w)'
  BY Quiet
<1>5. frame[w].pc \in TransplantPc /\ frame'[w].pc \in TransplantPc => CleansUp(w)'
  BY <1>1, Transplanting DEF CleansUp
<1>6. CASE Guard(w)
  <2>1. \/ frame'[w].pc \in {"failed", "rename", "check"}
        \/ frame'[w].pc = "load" /\ mode = "transplant"
    BY <1>1, <1>3, <1>6, PcNames DEF Guard, Mode
  <2> QED BY <1>1, <1>4, <2>1, QuietNames, Transplanting DEF TransplantPc, HeadPc
<1>7. CASE CheckTarget(w) \/ Confirm(w) \/ List(w)
  <2>1. frame'[w].pc \in {"skipped", "rename", "list", "failed", "rmdir", "kept"}
    BY <1>3, <1>7, PcNames DEF CheckTarget, Confirm, List
  <2> QED BY <1>4, <2>1, QuietNames
<1>8. CASE Load(w)
  <2> DEFINE mem == IF state = None THEN NewState ELSE state
             pc == CASE Source("root") = None -> IF Transplanted THEN "list" ELSE "failed"
                     [] Source("root") /= None /\ ~drifted -> IF state = None THEN "save" ELSE "root"
                     [] OTHER -> "failed"
  <2>1. mem \in State
    BY DEF TypeOK, NewState, State, Phase
  <2>2. pc \in {"list", "failed", "save", "root"}
    OBVIOUS
  <2>3. frame' = [frame EXCEPT ![w].mem = mem, ![w].pc = pc] /\ frame[w].pc = "load"
    BY <1>8 DEF Load, At
  <2> HIDE DEF mem, pc
  <2>4. frame'[w].pc = pc
    BY <1>1, <2>1, <2>2, <2>3, SaveStep, PcNames
  <2> QED BY <1>4, <1>5, <2>2, <2>3, <2>4, QuietNames DEF TransplantPc, HeadPc
<1>9. CASE Enter(w)
  <2> DEFINE todo == {e \in {"file", "dir"} : Source(e) /= None}
             pc == IF Source("root") = Own /\ ~drifted /\ Target("root") = Made /\ "root" \in Mem(w).dirs
                   THEN After(todo) ELSE "failed"
  <2>1. todo \ {"file"} \in SUBSET {"dir"}
    OBVIOUS
  <2>2. pc \in {"file", "dir", "leave", "failed"}
    BY AfterPc
  <2>3. frame' = [frame EXCEPT ![w].todo = todo \ {"file"}, ![w].pc = pc] /\ frame[w].pc = "enter"
    BY <1>9 DEF Enter, At
  <2> HIDE DEF todo, pc
  <2>4. frame'[w].pc = pc
    BY <1>1, <2>1, <2>2, <2>3, EnterStep, PcNames
  <2> QED BY <1>4, <1>5, <2>2, <2>3, <2>4, QuietNames DEF TransplantPc, TreePc
<1>10. CASE CheckRoot(w)
  <2>1. frame[w].pc = "root" /\ frame'[w].pc \in {"failed", "skipped", "make_root", "migrate"}
    BY <1>3, <1>10, PcNames DEF CheckRoot
  <2> QED BY <1>4, <1>5, <2>1, QuietNames DEF TransplantPc, HeadPc
<1>11. CASE File(w) \/ Dir(w) \/ EnterDir(w) \/ Link(w)
  <2>1. AfterFile(w) \in {"file", "dir", "leave"}
    BY AfterPc DEF AfterFile
  <2>2. /\ frame[w].pc \in {"file", "dir", "enter_dir", "link"}
        /\ frame'[w].pc \in {"failed", "file", "dir", "leave", "link_file", "make_dir", "unlink_file", "enter_dir", "link",
                             "leave_dir", "publish_link", "unlink_link"}
    BY <1>3, <1>11, <2>1, PcNames DEF File, Dir, EnterDir, Link
  <2> QED BY <1>4, <1>5, <2>2, QuietNames DEF TransplantPc, TreePc, DirPc, UnlinkPc
<1>12. CASE Authority(w)
  <2>1. /\ frame[w].pc = "authority"
        /\ \/ frame'[w].pc \in {"clean_skipped", "clean_failed"}
           \/ frame'[w].pc = "rmdir_own" /\ move = "completed"
           \/ frame'[w].pc = "relocate" /\ move /= "completed"
    BY <1>3, <1>12, PcNames DEF Authority
  <2>2. CASE frame'[w].pc = "rmdir_own" /\ move = "completed"
    BY <1>2, <2>2 DEF CleansUp, At, TransplantPc, HeadPc, TreePc, DirPc, UnlinkPc
  <2>3. CASE frame'[w].pc = "relocate" /\ move /= "completed"
    <3>1. move \in Aborted /\ (mode = "native" => Blocked)
      BY <1>1, <2>1, <2>3 DEF CleansUp, At, Settled, Aborted
    <3> QED BY <1>1, <1>2, <2>3, <3>1 DEF CleansUp, At, TransplantPc, HeadPc, TreePc, DirPc, UnlinkPc
  <2> QED BY <1>4, <2>1, <2>2, <2>3, QuietNames
<1>13. CASE Verify(w)
  <2>1. /\ frame[w].pc = "verify"
        /\ \/ frame'[w].pc = "clean_completed" /\ reserve = Wrapper /\ Empty /\ ~drifted
           \/ frame'[w].pc = "put_back" /\ ~(reserve = Wrapper /\ Empty /\ ~drifted)
    BY <1>3, <1>13, PcNames DEF Verify
  <2>2. mode = "native" /\ move \in Aborted /\ Blocked /\ (Spoiled \/ reserve = Wrapper)
    BY <1>1, <2>1 DEF CleansUp, At
  <2>3. CASE frame'[w].pc = "clean_completed" /\ reserve = Wrapper /\ Empty /\ ~drifted
    BY <1>1, <1>2, <2>2, <2>3 DEF CleansUp, At, TransplantPc, HeadPc, TreePc, DirPc, UnlinkPc
  <2>4. CASE frame'[w].pc = "put_back" /\ ~(reserve = Wrapper /\ Empty /\ ~drifted)
    <3>1. Spoiled
      BY <2>2, <2>4 DEF Spoiled
    <3> QED BY <1>1, <1>2, <2>2, <2>4, <3>1 DEF CleansUp, At, TransplantPc, HeadPc, TreePc, DirPc, UnlinkPc
  <2> QED BY <2>1, <2>3, <2>4
<1> QED BY <1>6, <1>7, <1>8, <1>9, <1>10, <1>11, <1>12, <1>13 DEF Looks

LEMMA CallsCleanUp ==
    ASSUME TypeOK, Wrapping, NEW w \in Worker, Calls(w)
    PROVE  CleansUp(w)'
<1>1. frame \in [Worker -> FrameType] /\ mode' = mode /\ CleansUp(w)
  BY CallsStep, TypedFields DEF plan, Wrapping
<1>2. AfterFile(w) \in {"file", "dir", "leave"}
  BY AfterPc DEF AfterFile
<1>3. CASE Rename(w)
  <2>1. frame'[w].pc \in {"list", "confirm", "failed", "skipped"}
    BY <1>1, <1>3, GoStep, PcNames DEF Rename, Call, At
  <2> QED BY <2>1, Quiet, QuietNames
<1>4. CASE ~Rename(w)
  <2>1. /\ frame[w].pc \in {"make_root", "link_file", "retire_file", "undo_file", "unlink_file", "make_dir",
                            "publish_link", "unlink_link", "leave_dir", "leave"}
        /\ frame'[w].pc \in {"record_root", "retire_file", "file", "dir", "leave", "undo_file", "record_dir",
                             "record_link", "leave_dir", "transplanted", "failed", "skipped"}
    <3>1. CASE MakeRoot(w) \/ LinkFile(w) \/ MakeDir(w) \/ PublishLink(w)
      BY <1>1, <3>1, GoStep, PcNames DEF Call, At, MakeRoot, LinkFile, MakeDir, PublishLink
    <3>2. CASE RetireFile(w) \/ UndoFile(w) \/ UnlinkFile(w)
      BY <1>1, <1>2, <3>2, GoStep, PcNames DEF Call, At, RetireFile, UndoFile, UnlinkFile
    <3>3. CASE UnlinkLink(w) \/ LeaveDir(w) \/ Leave(w)
      BY <1>1, <3>3, GoStep, PcNames DEF Call, At, UnlinkLink, LeaveDir, Leave
    <3> QED BY <1>4, <3>1, <3>2, <3>3 DEF Calls
  <2>2. mode = "transplant"
    BY <1>1, <2>1 DEF CleansUp, TransplantPc, HeadPc, TreePc, DirPc, UnlinkPc
  <2>3. frame'[w].pc \in TransplantPc \/ frame'[w].pc \in {"failed", "skipped"}
    BY <2>1 DEF TransplantPc, HeadPc, TreePc, DirPc, UnlinkPc
  <2> QED BY <1>1, <2>2, <2>3, Quiet, QuietNames, Transplanting
<1> QED BY <1>3, <1>4

LEMMA SavesCleanUp ==
    ASSUME TypeOK, Wrapping, NEW w \in Worker, Saves(w)
    PROVE  CleansUp(w)'
<1>1. mode' = mode /\ CleansUp(w)
  BY SavesStep DEF plan, Wrapping
<1>2. /\ frame[w].pc \in {"save", "record_root", "migrate", "record_dir", "record_link", "transplanted"}
      /\ frame'[w].pc \in {"root", "migrate", "enter", "enter_dir", "unlink_link", "list"}
  BY SavesStep DEF At
<1>3. mode = "transplant"
  BY <1>1, <1>2 DEF CleansUp, TransplantPc, HeadPc, TreePc, DirPc
<1>4. frame'[w].pc \in TransplantPc \/ frame'[w].pc = "list"
  BY <1>2 DEF TransplantPc, HeadPc, TreePc, DirPc
<1> QED BY <1>1, <1>3, <1>4, Quiet, QuietNames, Transplanting

LEMMA WrapsCleanUp ==
    ASSUME TypeOK, Wrapping, NEW w \in Worker, Wraps(w)
    PROVE  CleansUp(w)'
<1>1. /\ UNCHANGED <<plan, extra, drifted, names>> /\ frame \in [Worker -> FrameType]
      /\ CleansUp(w) /\ InOnePlace /\ UNCHANGED <<mode, move>>
  BY WrapsStep, TypedFields DEF trees, plan, Wrapping
<1>2. None /= Wrapper
  BY Distinctness DEF Distinct
<1> USE DEF At
<1>3. CASE RmdirPaired(w) \/ RmdirOwn(w)
  <2>1. \/ frame'[w].pc \in {"kept", "clean_skipped"}
        \/ frame'[w].pc = "removed" /\ Gone'
        \/ frame[w].pc = "rmdir_own" /\ frame'[w].pc = "clean_completed" /\ Gone'
    BY <1>1, <1>2, <1>3, GoStep, PcNames DEF RmdirPaired, RmdirOwn, Rmdir, InOnePlace, Gone
  <2>2. CASE frame'[w].pc = "removed" /\ Gone'
    BY <2>2 DEF CleansUp, TransplantPc, HeadPc, TreePc, DirPc, UnlinkPc
  <2>3. CASE frame[w].pc = "rmdir_own" /\ frame'[w].pc = "clean_completed" /\ Gone'
    BY <1>1, <2>3 DEF CleansUp, TransplantPc, HeadPc, TreePc, DirPc, UnlinkPc
  <2> QED BY <2>1, <2>2, <2>3, Quiet, QuietNames
<1>4. CASE Relocate(w)
  <2>1. /\ frame[w].pc = "relocate"
        /\ \/ frame'[w].pc = "clean_failed"
           \/ frame'[w].pc = "verify" /\ mode = "native" /\ reserve = None /\ reserve' = home /\ home' = None
    BY <1>1, <1>4, GoStep, PcNames DEF Relocate
  <2>2. CASE frame'[w].pc = "verify" /\ mode = "native" /\ reserve = None /\ reserve' = home /\ home' = None
    <3>1. move \in Aborted /\ Blocked
      BY <1>1, <2>1, <2>2 DEF CleansUp
    <3>2. Blocked'
      BY <1>1, <3>1 DEF Blocked, In
    <3>3. Spoiled' \/ reserve' = Wrapper
      BY <1>2, <2>2 DEF Spoiled, Gone
    <3> QED BY <1>1, <2>2, <3>1, <3>2, <3>3 DEF CleansUp, TransplantPc, HeadPc, TreePc, DirPc, UnlinkPc
  <2> QED BY <2>1, <2>2, Quiet, QuietNames
<1>5. CASE PutBack(w)
  <2>1. frame'[w].pc = "clean_failed"
    BY <1>1, <1>5, GoStep, PcNames DEF PutBack
  <2> QED BY <2>1, Quiet, QuietNames
<1> QED BY <1>3, <1>4, <1>5 DEF Wraps

\* Only a clean-up intent needs to know of the wrapper when rows are written.
LEMMA WritesCleanUp ==
    ASSUME TypeOK, Rows, Wrapping, NEW w \in Worker, Writes(w)
    PROVE  CleansUp(w)'
<1>1. \/ frame'[w].pc \in {"preflight", "look", "tidy", "post", "idle"}
      \/ At(w, "clean_intent") /\ clean = "planned" /\ frame'[w].pc = "authority" /\ move' = move
  BY WritesStep
<1>2. CASE At(w, "clean_intent") /\ clean = "planned" /\ frame'[w].pc = "authority" /\ move' = move
  <2>1. move \in Settled
    BY <1>2, WritesStep DEF Rows, Stage
  <2>2. mode' = mode /\ Blocked' = Blocked
    BY WritesStep DEF Blocked, In, wrapper, trees
  <2>3. move \in Aborted /\ mode = "native" => Blocked
    BY <1>2 DEF Wrapping, Apart
  <2> QED BY <1>2, <2>1, <2>2, <2>3 DEF CleansUp, At, TransplantPc, HeadPc, TreePc, DirPc, UnlinkPc
<1> QED BY <1>1, <1>2, Quiet, QuietNames

LEMMA StopsCleanUp ==
    ASSUME TypeOK, Wrapping, NEW w \in Worker, Stops(w)
    PROVE  CleansUp(w)'
<1>1. mode' = mode /\ CleansUp(w)
  BY StopsStep DEF plan, Wrapping
<1>2. CASE frame'[w].pc = "idle" \/ (frame' = frame /\ frame[w].pc = "idle")
  BY <1>2, Quiet, QuietNames
<1>3. CASE frame[w].pc \in SavePc \cup CallPc /\ frame'[w].pc = Refused(frame[w].pc)
  <2>1. \/ frame'[w].pc \in {"kept", "failed", "clean_failed"}
        \/ frame[w].pc = "retire_file" /\ frame'[w].pc = "undo_file"
    BY <1>3 DEF Refused
  <2>2. {"retire_file", "undo_file"} \subseteq TransplantPc
    BY DEF TransplantPc, TreePc, UnlinkPc
  <2>3. CASE frame[w].pc = "retire_file" /\ frame'[w].pc = "undo_file"
    BY <1>1, <2>2, <2>3, Transplanting DEF CleansUp
  <2> QED BY <2>1, <2>3, Quiet, QuietNames
<1> QED BY <1>2, <1>3, StopsStep

\* Who steps knows as much of the wrapper as those who do not.
LEMMA CleansUpStep ==
    ASSUME TypeOK, Rows, Wrapping, [Next]_vars, NEW v \in Worker
    PROVE  CleansUp(v)'
<1>0. frame'[v] = frame[v] => CleansUp(v)'
  BY StepsAhead, CleansUpAside
<1>1. ASSUME NEW w \in Worker, Alone(w), w /= v PROVE CleansUp(v)'
  BY <1>0, <1>1 DEF Alone
<1>2. CASE Tampers \/ UNCHANGED vars
  BY <1>0, <1>2, TampersStep DEF vars
<1>3. ASSUME NEW w \in Worker,
             \/ Looks(w) \/ Checks(w) \/ Calls(w) \/ Saves(w) \/ Wraps(w) \/ PutHome(w) \/ Writes(w) \/ Clears(w) \/ Stops(w)
      PROVE  CleansUp(v)'
  <2>1. Alone(w)
    BY <1>3, LooksStep, ChecksStep, CallsStep, SavesStep, WrapsStep, PutHomeStep, WritesStep, ClearsStep, StopsStep DEF Moved
  <2>2. CASE w = v
    <3>1. Checks(v) => frame'[v].pc \in {"boundary", "intent", "guard", "clean_intent", "post"}
      <4>1. Passed("preflight") = "boundary" /\ Passed("boundary") = "intent" /\ Passed("look") = "guard"
        BY DEF Passed
      <4> QED BY <4>1, ChecksStep
    <3>2. PutHome(v) \/ Clears(v) => frame'[v].pc \in {"begun", "post", "idle"}
      BY PutHomeStep, ClearsStep
    <3> QED BY <1>3, <2>2, <3>1, <3>2, LooksCleansUp, CallsCleanUp, SavesCleanUp, WrapsCleanUp, WritesCleanUp, StopsCleanUp,
               Quiet, QuietNames
  <2> QED BY <1>1, <2>1, <2>2
<1> QED BY <1>2, <1>3, Steps, WorkerSteps

\* A child that nothing blocks can still be moved.
LEMMA NotBlocked ==
    ASSUME TypeOK, Relocates, InOnePlace, move \notin Aborted, ~Blocked
    PROVE  Fresh /\ MoveVerdict = "planned"
<1>1. In("source", "root") = Own /\ In("target", "root") = None /\ ~drifted
  BY DEF Blocked, InOnePlace
<1>2. Own /= None /\ None /= Wrapper
  BY Distinctness DEF Distinct
<1>3. home = Wrapper
  <2>1. ~Empty
    BY <1>1, <1>2 DEF Empty, In
  <2>2. reserve = None
    BY DEF Relocates
  <2> QED BY <1>2, <2>1, <2>2 DEF InOnePlace, Gone
<1>4. Source("root") = Own /\ Target("root") = None
  BY <1>1, <1>3 DEF Source, Target, In
<1> QED BY <1>1, <1>2, <1>4 DEF Fresh, MoveVerdict, Transplanted

\* A settled clean-up is not taken up again.
LEMMA CleanUpsEnd ==
    ASSUME TypeOK, [Next]_vars
    PROVE  /\ clean' \in {"planned", "executing"} => clean \in {"planned", "executing"}
           /\ clean' /= clean => \E w \in Worker : Writes(w)
<1>1. ASSUME NEW w \in Worker, \/ Looks(w) \/ Checks(w) \/ Calls(w) \/ Saves(w) \/ Wraps(w) \/ PutHome(w) \/ Clears(w) \/ Stops(w)
      PROVE  clean' = clean
  BY <1>1, LooksStep, ChecksStep, CallsStep, SavesStep, WrapsStep, PutHomeStep, ClearsStep, StopsStep DEF plan
<1>2. Tampers => clean' = clean
  BY TampersStep DEF plan
<1>3. clean' = clean \/ \E w \in Worker : Writes(w)
  BY <1>1, <1>2, Steps, WorkerSteps DEF vars, plan
<1>4. ASSUME NEW w \in Worker, Writes(w), clean' \in {"planned", "executing"}
      PROVE  clean \in {"planned", "executing"}
  <2>1. CASE clean' = IF clean = "executing" THEN CleanVerdict(move' = "completed") ELSE clean
    BY <1>4, <2>1
  <2>2. CASE clean' = PairResult(frame[w].pc)
    BY <1>4, <2>2 DEF PairResult
  <2>3. CASE clean' = CleanResult(frame[w].pc)
    BY <1>4, <2>3 DEF CleanResult
  <2> QED BY <1>4, <2>1, <2>2, <2>3, WritesStep
<1> QED BY <1>3, <1>4

\* A move fails before its clean-up only when the child is blocked.
LEMMA ApartKept ==
    ASSUME IInv, Wrapping, [Next]_vars
    PROVE  Apart'
<1>0. TypeOK /\ Rows /\ OnlyAhead /\ Relocates /\ InOnePlace
  BY StepsAhead DEF IInv, Wrapping
<1> SUFFICES ASSUME move' \in Aborted, clean' \in {"planned", "executing"}, mode = "native"
             PROVE  Blocked'
  BY <1>0 DEF Apart, OnlyAhead
<1>1. clean \in {"planned", "executing"}
  BY <1>0, CleanUpsEnd
<1>2. SUFFICES Blocked
  BY <1>0, Lasting
<1>3. CASE move \in Aborted
  BY <1>1, <1>3 DEF Wrapping, Apart
<1>4. CASE move \notin Aborted
  <2> SUFFICES ASSUME Fresh, MoveVerdict = "planned" PROVE FALSE
    BY <1>0, <1>4, NotBlocked
  <2>1. move' \in {"skipped", "failed"} /\ move' /= move
    BY <1>4 DEF Aborted
  <2>2. ASSUME NEW w \in Worker, \/ Looks(w) \/ Calls(w) \/ Saves(w) \/ Wraps(w) \/ PutHome(w) \/ Clears(w) \/ Stops(w)
        PROVE  FALSE
    BY <1>0, <2>1, <2>2, LooksStep, CallsStep, SavesStep, WrapsStep, PutHomeStep, ClearsStep, StopsStep DEF plan
  <2>3. ~Tampers /\ ~UNCHANGED vars
    BY <1>0, <2>1, TampersStep DEF plan, vars
  <2>4. ASSUME NEW w \in Worker, Checks(w) PROVE FALSE
    BY <1>0, <2>1, <2>4, ChecksStep
  <2>5. ASSUME NEW w \in Worker, Writes(w) PROVE FALSE
    <3>1. clean' /= PairResult(frame[w].pc)
      BY DEF PairResult
    <3> QED BY <1>0, <2>1, <2>5, <3>1, WritesStep
  <2> QED BY <2>2, <2>3, <2>4, <2>5, Steps, WorkerSteps
<1> QED BY <1>3, <1>4

LEMMA WrappingInvariant == Spec => []Wrapping
<1>1. Init => Wrapping
  <2> SUFFICES ASSUME Init PROVE Wrapping
    OBVIOUS
  <2>1. \A v \in Worker : frame[v].pc = "idle"
    BY DEF Init, Idle
  <2>2. \A v \in Worker : CleansUp(v)
    BY <2>1 DEF CleansUp, At, TransplantPc, HeadPc, TreePc, DirPc, UnlinkPc
  <2>3. home = Wrapper /\ reserve = None /\ move = "planned" /\ In("source", "root") = Own
    BY DEF Init, In, Side, Entry
  <2> QED BY <2>2, <2>3, Distinctness DEF Wrapping, Relocates, InOnePlace, Apart, Gone, Aborted, Distinct
<1>2. IInv /\ Wrapping /\ [Next]_vars => Wrapping'
  <2> SUFFICES ASSUME IInv, Wrapping, [Next]_vars PROVE Wrapping'
    OBVIOUS
  <2>1. TypeOK /\ Rows
    BY DEF IInv
  <2> QED BY <2>1, StepsAhead, OnePlaceKept, ApartKept, CleansUpStep DEF Wrapping
<1> QED BY <1>1, <1>2, Invariance, PTL DEF Spec

(* The wrapper is reported removed only when nothing was left in it, with  *)
(* one journal, and never without the move unless it went to the           *)
(* quarantine empty: by whichever worker, after whatever crash, and        *)
(* whatever users did (empty_dir_quarantine.py:96-162,                     *)
(* handlers_base.py:1250-1340).                                            *)
THEOREM CleanUpTruthful == Spec => TruthfulCleanUp
<1> DEFINE Removed == /\ journals'.clean = 1 /\ Empty /\ home /= Wrapper
                      /\ move' = "completed" \/ reserve = Wrapper
<1>1. IInv /\ Wrapping /\ [Next]_vars => (clean /= "completed" /\ clean' = "completed" => Removed)
  <2> SUFFICES ASSUME IInv, Wrapping, [Next]_vars, clean /= "completed", clean' = "completed" PROVE Removed
    OBVIOUS
  <2>1. TypeOK /\ Rows /\ InOnePlace /\ Relocates
    BY DEF IInv, Wrapping
  <2>2. PICK w \in Worker : Writes(w)
    BY <2>1, CleanUpsEnd
  <2>3. Stage(w) /\ Order /\ Journalled /\ CleansUp(w) /\ journals \in [{"move", "clean"} -> 0..1]
    BY <2>1, <2>2, WritesStep DEF Rows, Wrapping, TypeOK
  <2>4. CASE /\ clean' = IF clean = "executing" THEN CleanVerdict(move' = "completed") ELSE clean
             /\ journals' = [move |-> IF move' = "completed" THEN 1 ELSE journals.move,
                             clean |-> IF clean' = "completed" THEN 1 ELSE journals.clean]
             /\ move' = IF move = "executing" THEN MoveVerdict ELSE move
    <3>1. clean = "executing" /\ CleanVerdict(move' = "completed") = "completed"
      BY <2>4
    <3>2. move' = move
      BY <2>3, <2>4, <3>1 DEF Order, Settled
    <3>3. CASE move = "completed" /\ home = None
      <4>1. reserve = None
        BY <2>1, <3>3 DEF Relocates, Aborted
      <4> QED BY <2>1, <2>4, <3>2, <3>3, <4>1, Distinctness DEF InOnePlace, Gone, Distinct
    <3>4. CASE home /= Wrapper /\ reserve = Wrapper /\ Empty
      BY <2>4, <3>4
    <3> QED BY <3>1, <3>2, <3>3, <3>4 DEF CleanVerdict
  <2>5. CASE /\ frame[w].pc \in MovePc /\ move' = MoveResult(frame[w].pc) /\ clean' = PairResult(frame[w].pc)
             /\ journals' = [move |-> journals.move + (IF move' = "completed" THEN 1 ELSE 0),
                             clean |-> IF clean' = "completed" THEN 1 ELSE journals.clean]
    <3>1. frame[w].pc = "removed"
      BY <2>5 DEF PairResult
    <3>2. move' = "completed" /\ Gone
      BY <2>3, <2>5, <3>1 DEF MoveResult, CleansUp, At
    <3> QED BY <2>1, <2>5, <3>2 DEF InOnePlace, Gone
  <2>6. CASE /\ frame[w].pc \in CleanPc /\ clean' = CleanResult(frame[w].pc) /\ move' = move
             /\ journals' = [journals EXCEPT !.clean = @ + (IF clean' = "completed" THEN 1 ELSE 0)]
    <3>1. At(w, "clean_completed")
      BY <2>6 DEF CleanResult, CleanPc, At
    <3>2. journals.clean = 0
      BY <2>3 DEF Journalled
    <3>3. journals'.clean = 1
      BY <2>3, <2>6, <3>2
    <3> QED BY <2>1, <2>3, <2>6, <3>1, <3>3 DEF CleansUp, InOnePlace, Gone
  <2> QED BY <2>2, <2>1, <2>4, <2>5, <2>6, WritesStep
<1> QED BY <1>1, Invariance, WrappingInvariant, PTL DEF Spec, TruthfulCleanUp

=============================================================================
