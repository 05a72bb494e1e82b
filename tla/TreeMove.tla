------------------------------ MODULE TreeMove ------------------------------
(***************************************************************************)
(* Moving the only child of a directory, the wrapper, up beside it and     *)
(* removing the emptied wrapper: two items of a plan, a move and an        *)
(* rmdir_empty, of which the second is usually carried out with the first, *)
(* under descriptors held open across it (tasks/handlers_base.py,          *)
(* execution/utility_wrapper_pair.py).  After a crash the pieces are       *)
(* reconciled and what is left of the plan runs on its own.                *)
(*                                                                         *)
(* The child is moved by one rename that replaces nothing (native), by a   *)
(* plain rename on a file system probed to refuse existing targets         *)
(* (plain), or by making a new tree (transplant,                           *)
(* execution/directory_transplant.py): each file is linked at the target   *)
(* and unlinked at the source, each symlink made anew, and the emptied     *)
(* directories are removed, while state.json says what the transaction has *)
(* made.  In there the lease is not looked at: a stalled worker goes on    *)
(* after another took the plan over.                                       *)
(*                                                                         *)
(* The child has a file, and a directory with a symlink.  A name leads to  *)
(* Own (what the child had there), Made (a directory made by the move),    *)
(* Newer (a user's file put at the source), Alien (a user's entry put      *)
(* elsewhere), or None.  Reads that directly follow each other are one     *)
(* step, and so are mkdir and the lstat after it, or the last lstat of a   *)
(* directory and its rmdir.                                                *)
(***************************************************************************)
EXTENDS Naturals, FiniteSets

CONSTANTS
    Worker,
    AllowDelete,   \* the setting that permits the removal of directories in general
    MaxFaults,     \* bound on crashes, takeovers of the lease and failing system calls
    MaxTampers,    \* bound on the changes users make and on inode numbers that drift
    Wrapper, Own, Made, Newer, Alien, None

ASSUME TreeMoveAssumption ==
    /\ AllowDelete \in BOOLEAN
    /\ MaxFaults \in Nat /\ MaxTampers \in Nat
    /\ Cardinality({Wrapper, Own, Made, Newer, Alien, None}) = 6

VARIABLES
    mode,     \* what the file system offers: "native", "plain" or "transplant"
    trusted,  \* whether an earlier pair of the plan was completed
    drifted,  \* whether the frozen inode numbers are not those of child and wrapper any more
    owner,    \* the owner of the task lock
    job,      \* whether the execution job is "active" or "done"
    move, clean,  \* states of the two batch_plan_items rows
    journals, \* numbers of their operation_journals rows
    home, reserve,  \* what the wrapper's path and its place in the quarantine lead to
    extra,    \* whether a user has put something else into the wrapper
    names,    \* what the names in the child's tree lead to, in the wrapper and at the target
    state,    \* content of state.json, None when there is no file
    frame,    \* what each worker is in the middle of, and its copy of the state
    faults, tampers,
    late      \* whether a worker without the lease has changed a tree (history)

plan == <<mode, trusted, job, move, clean, journals>>
wrapper == <<home, reserve, extra, drifted>>
trees == <<names, state>>
env == <<faults, tampers, late>>
vars == <<plan, owner, wrapper, trees, frame, env>>

-----------------------------------------------------------------------------
Mode == {"native", "plain", "transplant"}
ItemState == {"planned", "executing", "completed", "skipped", "failed"}
Side == {"source", "target"}
Entry == {"root", "file", "dir", "link"}
Content == {Own, Made, Newer, Alien, None}

Phase == {"initializing", "migrating", "transplanted"}
State == [phase : Phase, dirs : SUBSET {"root", "dir"}, link : BOOLEAN]
NewState == [phase |-> "initializing", dirs |-> {}, link |-> FALSE]

\* A missing state file has no content.
ASSUME NoneIsNoState == None \notin State

(* What the move came to with its paired clean-up, and what a clean-up of  *)
(* its own came to.                                                        *)
MovePc == {"failed", "skipped", "removed", "kept"}
CleanPc == {"clean_completed", "clean_skipped", "clean_failed"}
FencedPc == {"begun", "intent", "clean_intent", "post"} \cup MovePc \cup CleanPc
SavePc == {"save", "record_root", "migrate", "record_dir", "record_link", "transplanted"}
CallPc == {"rename", "make_root", "link_file", "retire_file", "undo_file", "unlink_file", "make_dir",
           "publish_link", "unlink_link", "leave_dir", "leave", "rmdir", "rmdir_own", "relocate"}
LookPc == {"preflight", "boundary", "look", "guard", "check", "confirm", "load", "root", "enter", "file", "dir",
           "enter_dir", "link", "list", "tidy", "authority", "verify", "put_back"}
Pc == {"idle"} \cup FencedPc \cup SavePc \cup CallPc \cup LookPc

Idle == [pc |-> "idle", mem |-> NewState, todo |-> {}]

Holding(w) == owner = w
At(w, pc) == frame[w].pc = pc
Target(e) == names["target"][e]

\* The child is found only in a wrapper that is where it was.
Source(e) == IF home = Wrapper THEN names["source"][e] ELSE None
Empty == names["source"]["root"] = None /\ ~extra

Go(w, pc) == frame' = [frame EXCEPT ![w].pc = pc]
Rest(w) == frame' = [frame EXCEPT ![w] = Idle]

\* A look at the files that decides what comes next.
Decide(w, pc, next) == At(w, pc) /\ Go(w, next) /\ UNCHANGED <<plan, owner, wrapper, trees, env>>

Init ==
    /\ mode \in Mode /\ trusted \in BOOLEAN /\ drifted \in BOOLEAN
    /\ owner \in Worker /\ job = "active"
    /\ move = "planned" /\ clean = "planned" /\ journals = [move |-> 0, clean |-> 0]
    /\ home = Wrapper /\ reserve = None /\ extra = FALSE
    /\ names = [s \in Side |-> [e \in Entry |-> IF s = "source" THEN Own ELSE None]]
    /\ state = None
    /\ frame = [w \in Worker |-> Idle]
    /\ faults = 0 /\ tampers = 0 /\ late = FALSE

-----------------------------------------------------------------------------
(* The start of a job: what an earlier attempt left behind                 *)

\* directory_transplant_reconciles_completed: the source is gone and the target root is ours.
Transplanted ==
    /\ state /= None /\ Source("root") = None
    /\ "root" \in state.dirs /\ Target("root") = Made
    /\ state.phase \in {"migrating", "transplanted"}

\* Mutant of MoveVerdict: what is at the target is taken for the whole child.
MoveVerdictByTarget ==
    CASE Target("root") /= None -> "completed" [] Source("root") /= None -> "planned" [] OTHER -> "failed"

\* Mutant of MoveVerdict: only the child itself at the target is a finished move.
MoveVerdictByIdentity ==
    CASE Target("root") = Own /\ Source("root") = None /\ ~drifted -> "completed"
      [] Source("root") /= None /\ Target("root") = None -> "planned"
      [] OTHER -> "failed"

\* Finished, not begun, or a conflict for which nothing is done.
MoveVerdict ==
    CASE \/ Target("root") = Own /\ Source("root") = None /\ ~drifted
         \/ Transplanted -> "completed"
      [] Source("root") /= None /\ Target("root") = None -> "planned"
      [] OTHER -> "failed"

(* A clean-up with a completed move: the wrapper is gone, still to be      *)
(* removed, or another.  Without, it was a relocation into the quarantine. *)
CleanVerdict(moved) ==
    CASE moved /\ home = None -> "completed"
      [] moved /\ home = Wrapper /\ ~drifted /\ Empty -> "planned"
      [] ~moved /\ home = Wrapper /\ ~drifted /\ reserve = None -> "planned"
      [] ~moved /\ home /= Wrapper /\ reserve = Wrapper /\ ~drifted /\ Empty -> "completed"
      [] OTHER -> "failed"

\* The item is found relocated with something in it, and its path free: it is renamed back first.
Hidden ==
    /\ clean = "executing" /\ move /= "completed"
    /\ reserve /= None /\ home = None /\ (reserve /= Wrapper \/ ~Empty \/ drifted)

PutHome(w) ==
    /\ Holding(w) /\ At(w, "idle") /\ job = "active" /\ Hidden
    /\ home' = reserve /\ reserve' = None
    /\ Go(w, "begun")
    /\ UNCHANGED <<plan, owner, extra, drifted, trees, env>>

\* The verdict on the relocation is committed after the wrapper came back.
Begun(w) ==
    /\ Holding(w) /\ At(w, "begun")
    /\ clean' = "failed" /\ Go(w, "preflight")
    /\ UNCHANGED <<mode, trusted, job, move, journals, owner, wrapper, trees, env>>

\* Mutant of Begin: only the move's intent is settled.
BeginMoveOnly(w) ==
    /\ Holding(w) /\ At(w, "idle") /\ job = "active" /\ ~Hidden
    /\ move' = IF move = "executing" THEN MoveVerdict ELSE move
    /\ journals' = [journals EXCEPT !.move = IF move' = "completed" THEN 1 ELSE @]
    /\ Go(w, "preflight")
    /\ UNCHANGED <<mode, trusted, job, clean, owner, wrapper, trees, env>>

\* Journals are added for what is found completed.
Begin(w) ==
    LET verdict == IF move = "executing" THEN MoveVerdict ELSE move
    IN  /\ Holding(w) /\ At(w, "idle") /\ job = "active" /\ ~Hidden
        /\ move' = verdict
        /\ clean' = IF clean = "executing" THEN CleanVerdict(verdict = "completed") ELSE clean
        /\ journals' = [move |-> IF move' = "completed" THEN 1 ELSE journals.move,
                        clean |-> IF clean' = "completed" THEN 1 ELSE journals.clean]
        /\ Go(w, "preflight")
        /\ UNCHANGED <<mode, trusted, job, owner, wrapper, trees, env>>

-----------------------------------------------------------------------------
(* The move with its paired clean-up                                       *)

\* The child is the frozen one and its target is absent.
Fresh == Source("root") = Own /\ ~drifted /\ Target("root") = None

(* New inode numbers alone are accepted on a file system that has no       *)
(* native rename, once an earlier pair was completed, if the wrapper still *)
(* holds exactly the child.                                                *)
Rebased ==
    /\ drifted /\ trusted /\ mode /= "native"
    /\ Source("root") = Own /\ Target("root") = None /\ ~extra

\* A freshness check before, at or after the intent; a stale move ends the job there.
Check(w, pc, next) ==
    /\ At(w, pc)
    /\ \/ Fresh /\ Go(w, next) /\ UNCHANGED <<move, drifted>>
       \/ ~Fresh /\ Holding(w) /\ Rebased /\ drifted' = FALSE /\ Go(w, next) /\ UNCHANGED move
       \/ ~Fresh /\ Holding(w) /\ ~Rebased /\ move' = "failed" /\ Go(w, "post") /\ UNCHANGED drifted
    /\ UNCHANGED <<mode, trusted, job, clean, journals, owner, home, reserve, extra, trees, env>>

Preflight(w) ==
    IF move = "planned" THEN Check(w, "preflight", "boundary") ELSE Decide(w, "preflight", "clean_intent")

Boundary(w) == Check(w, "boundary", "intent")

Intent(w) ==
    /\ Holding(w) /\ At(w, "intent")
    /\ move' = "executing" /\ Go(w, "look")
    /\ UNCHANGED <<mode, trusted, job, clean, journals, owner, wrapper, trees, env>>

Look(w) == Check(w, "look", "guard")

\* Wrapper and parent are opened; the wrapper must hold the child and nothing else.
Guard(w) ==
    Decide(w, "guard", IF Source("root") = None \/ extra THEN "failed"
                       ELSE [native |-> "rename", plain |-> "check", transplant |-> "load"][mode])

CheckTarget(w) == Decide(w, "check", IF Target("root") /= None THEN "skipped" ELSE "rename")

\* A system call on names: their new content, and what the move comes to when the call fails.
Call(w, pc, possible, new, next, refused) ==
    /\ At(w, pc)
    /\ IF possible THEN names' = new /\ Go(w, next) ELSE Go(w, refused) /\ UNCHANGED names
    /\ late' = (late \/ ~Holding(w))
    /\ UNCHANGED <<plan, owner, wrapper, state, faults, tampers>>

Renamed == [source |-> [e \in Entry |-> None], target |-> names["source"]]

\* rename_noreplace, or a rename that refuses an existing target.
Rename(w) ==
    Call(w, "rename", Source("root") /= None /\ Target("root") = None, Renamed,
         IF mode = "native" THEN "list" ELSE "confirm", IF Source("root") = None THEN "failed" ELSE "skipped")

\* After a plain rename the target must show the child's inode.
Confirm(w) ==
    Decide(w, "confirm", IF Target("root") = Own /\ ~drifted /\ Source("root") = None THEN "list" ELSE "failed")

\* remove_if_empty, through the descriptors: nothing may be left in the wrapper.
List(w) == Decide(w, "list", IF home = Wrapper /\ Empty THEN "rmdir" ELSE "kept")

\* The wrapper's path must lead to the open directory; rmdir(2) removes it only when it is empty.
Rmdir(w, pc, removed, kept) ==
    /\ At(w, pc)
    /\ IF home = Wrapper /\ Empty THEN home' = None /\ Go(w, removed) ELSE Go(w, kept) /\ UNCHANGED home
    /\ late' = (late \/ ~Holding(w))
    /\ UNCHANGED <<plan, owner, reserve, extra, drifted, trees, faults, tampers>>

RmdirPaired(w) == Rmdir(w, "rmdir", "removed", "kept")

MoveResult(pc) == IF pc \in {"removed", "kept"} THEN "completed" ELSE pc
PairResult(pc) == IF pc = "removed" THEN "completed" ELSE "failed"

(* Phase 3 settles both items; the clean-up's outcome is written twice     *)
(* with one journal.                                                       *)
Settle(w) ==
    LET pc == frame[w].pc
    IN  /\ Holding(w) /\ pc \in MovePc
        /\ move' = MoveResult(pc) /\ clean' = PairResult(pc)
        /\ journals' = [move |-> journals.move + (IF move' = "completed" THEN 1 ELSE 0),
                        clean |-> IF clean' = "completed" THEN 1 ELSE journals.clean]
        /\ Go(w, IF move' = "completed" THEN "tidy" ELSE "post")
        /\ UNCHANGED <<mode, trusted, job, owner, wrapper, trees, env>>

\* After phase 3 the state file is removed, without a look at the lease.
Tidy(w) ==
    /\ At(w, "tidy") /\ Go(w, "post")
    /\ state' = IF Transplanted THEN None ELSE state
    /\ UNCHANGED <<plan, owner, wrapper, names, env>>

-----------------------------------------------------------------------------
(* move_directory_tree_noreplace                                           *)

\* Another version of the worker's copy of the state, written to state.json.
Save(w, pc, mem, next) ==
    /\ At(w, pc)
    /\ frame' = [frame EXCEPT ![w].mem = mem, ![w].pc = next]
    /\ state' = mem
    /\ late' = (late \/ ~Holding(w))
    /\ UNCHANGED <<plan, owner, wrapper, names, faults, tampers>>

\* One name of a tree leads to something else.
Set(s, e, c) == [names EXCEPT ![s][e] = c]

Mem(w) == frame[w].mem
WithDir(w, e) == [Mem(w) EXCEPT !.dirs = @ \cup {e}]

\* The state of an earlier attempt is continued, as the transaction's identifier is kept.
Load(w) ==
    /\ At(w, "load")
    /\ frame' = [frame EXCEPT ![w].mem = IF state = None THEN NewState ELSE state,
                              ![w].pc = CASE Source("root") = None ->
                                                 IF Transplanted THEN "list" ELSE "failed"
                                          [] Source("root") /= None /\ ~drifted -> IF state = None THEN "save" ELSE "root"
                                          [] OTHER -> "failed"]
    /\ UNCHANGED <<plan, owner, wrapper, trees, env>>

SaveNew(w) == Save(w, "save", Mem(w), "root")

\* A target root is used only if it is the recorded one.
CheckRoot(w) ==
    Decide(w, "root",
        CASE Target("root") /= None ->
                 IF "root" \in Mem(w).dirs /\ Target("root") = Made THEN "migrate" ELSE "skipped"
          [] OTHER -> IF "root" \in Mem(w).dirs THEN "failed" ELSE "make_root")

MakeRoot(w) == Call(w, "make_root", Target("root") = None, Set("target", "root", Made), "record_root", "skipped")

RecordRoot(w) == Save(w, "record_root", WithDir(w, "root"), "migrate")

Migrate(w) == Save(w, "migrate", [Mem(w) EXCEPT !.phase = "migrating"], "enter")

\* After the entry e of the root: the file comes before the directory.
After(todo) == CASE "file" \in todo -> "file" [] "file" \notin todo /\ "dir" \in todo -> "dir" [] OTHER -> "leave"

\* Both roots are opened; the names in the source are listed once.
Enter(w) ==
    LET todo == {e \in {"file", "dir"} : Source(e) /= None}
    IN  /\ At(w, "enter")
        /\ frame' = [frame EXCEPT
               ![w].todo = todo \ {"file"},
               ![w].pc = IF Source("root") = Own /\ ~drifted /\ Target("root") = Made /\ "root" \in Mem(w).dirs
                         THEN After(todo) ELSE "failed"]
        /\ UNCHANGED <<plan, owner, wrapper, trees, env>>

AfterFile(w) == After(frame[w].todo)

\* Mutant of File: an entry at the target is taken for the link made before the crash.
FileUnchecked(w) ==
    Decide(w, "file", CASE Source("file") = None -> AfterFile(w)
                        [] Target("file") /= None -> "unlink_file"
                        [] OTHER -> "link_file")

\* A file that is at the target already must be the same file.
File(w) ==
    Decide(w, "file", CASE Source("file") = None -> AfterFile(w)
                        [] Source("file") /= None /\ Target("file") /= None ->
                               IF Target("file") = Source("file") THEN "unlink_file" ELSE "failed"
                        [] OTHER -> "link_file")

\* link(2) never replaces a name: an entry that has appeared makes the item skipped.
LinkFile(w) ==
    Call(w, "link_file", Source("file") /= None /\ Target("file") = None, Set("target", "file", Source("file")),
         "retire_file", IF Source("file") = None THEN "failed" ELSE "skipped")

RetireFile(w) == Call(w, "retire_file", Source("file") /= None, Set("source", "file", None), AfterFile(w), "undo_file")

\* The source could not be unlinked: the link at the target is taken back, whatever became of the source.
UndoFile(w) == Call(w, "undo_file", Target("file") /= None, Set("target", "file", None), "failed", "failed")

UnlinkFile(w) == Call(w, "unlink_file", Source("file") /= None, Set("source", "file", None), AfterFile(w), "failed")

Dir(w) ==
    Decide(w, "dir", CASE Source("dir") = None -> "leave"
                       [] Source("dir") /= None /\ Target("dir") /= None ->
                              IF Target("dir") = Made /\ "dir" \in Mem(w).dirs THEN "enter_dir" ELSE "failed"
                       [] OTHER -> "make_dir")

MakeDir(w) == Call(w, "make_dir", Target("dir") = None, Set("target", "dir", Made), "record_dir", "skipped")

RecordDir(w) == Save(w, "record_dir", WithDir(w, "dir"), "enter_dir")

EnterDir(w) ==
    Decide(w, "enter_dir", CASE Source("dir") = None -> "failed"
                             [] Source("dir") /= None /\ Source("link") /= None -> "link"
                             [] OTHER -> "leave_dir")

\* A symlink that is at the target already must be recorded as made by this transaction.
Link(w) ==
    Decide(w, "link", CASE Source("link") = None -> "leave_dir"
                        [] Source("link") /= None /\ Target("link") /= None ->
                               IF Mem(w).link /\ Target("link") = Own THEN "unlink_link" ELSE "failed"
                        [] OTHER -> "publish_link")

PublishLink(w) == Call(w, "publish_link", Target("link") = None, Set("target", "link", Own), "record_link", "skipped")

RecordLink(w) == Save(w, "record_link", [Mem(w) EXCEPT !.link = TRUE], "unlink_link")

UnlinkLink(w) == Call(w, "unlink_link", Source("link") /= None, Set("source", "link", None), "leave_dir", "failed")

\* rmdir(2) removes a directory only when nothing is left in it.
LeaveDir(w) ==
    Call(w, "leave_dir", Source("dir") /= None /\ Source("link") = None, Set("source", "dir", None), "leave", "failed")

Leave(w) ==
    Call(w, "leave", Source("root") /= None /\ Source("file") = None /\ Source("dir") = None, Set("source", "root", None),
         "transplanted", "failed")

Finish(w) == Save(w, "transplanted", [Mem(w) EXCEPT !.phase = "transplanted"], "list")

-----------------------------------------------------------------------------
(* A clean-up of its own, after reconciliation settled the move            *)

CleanIntent(w) ==
    /\ Holding(w) /\ At(w, "clean_intent")
    /\ IF clean = "planned" THEN clean' = "executing" /\ Go(w, "authority") ELSE Go(w, "post") /\ UNCHANGED clean
    /\ UNCHANGED <<mode, trusted, job, move, journals, owner, wrapper, trees, env>>

(* execute_item: a completed move authorises the removal of its empty      *)
(* wrapper; otherwise an empty directory goes to the quarantine, if        *)
(* deletion is allowed at all.  A path that is gone is skipped before      *)
(* either is looked at.                                                    *)
Authority(w) ==
    Decide(w, "authority",
        CASE home /= Wrapper \/ drifted -> "clean_skipped"
          [] home = Wrapper /\ ~drifted /\ move = "completed" -> IF Empty THEN "rmdir_own" ELSE "clean_skipped"
          [] OTHER -> CASE ~AllowDelete -> "clean_skipped"
                        [] AllowDelete /\ reserve = None -> "relocate"
                        [] OTHER -> "clean_failed")

RmdirOwn(w) == Rmdir(w, "rmdir_own", "clean_completed", "clean_skipped")

\* The directory is renamed into the quarantine first and looked into there; only native renames do.
Relocate(w) ==
    /\ At(w, "relocate")
    /\ IF mode = "native" /\ home /= None /\ reserve = None
       THEN reserve' = home /\ home' = None /\ Go(w, "verify")
       ELSE Go(w, "clean_failed") /\ UNCHANGED <<home, reserve>>
    /\ late' = (late \/ ~Holding(w))
    /\ UNCHANGED <<plan, owner, extra, drifted, trees, faults, tampers>>

\* Mutant of Verify: whatever was renamed was the empty directory.
VerifyNot(w) == Decide(w, "verify", "clean_completed")

Verify(w) == Decide(w, "verify", IF reserve = Wrapper /\ Empty /\ ~drifted THEN "clean_completed" ELSE "put_back")

\* Mutant of PutBack: the item fails and the directory stays in the quarantine.
PutBackNever(w) ==
    /\ At(w, "put_back") /\ Go(w, "clean_failed")
    /\ UNCHANGED <<plan, owner, wrapper, trees, env>>

\* What was not empty goes back unless its path has been taken.
PutBack(w) ==
    /\ At(w, "put_back") /\ Go(w, "clean_failed")
    /\ IF home = None /\ reserve /= None THEN home' = reserve /\ reserve' = None ELSE UNCHANGED <<home, reserve>>
    /\ late' = (late \/ ~Holding(w))
    /\ UNCHANGED <<plan, owner, extra, drifted, trees, faults, tampers>>

CleanResult(pc) ==
    CASE pc = "clean_completed" -> "completed" [] pc = "clean_skipped" -> "skipped" [] OTHER -> "failed"

SettleClean(w) ==
    LET pc == frame[w].pc
    IN  /\ Holding(w) /\ pc \in CleanPc
        /\ clean' = CleanResult(pc)
        /\ journals' = [journals EXCEPT !.clean = @ + (IF clean' = "completed" THEN 1 ELSE 0)]
        /\ Go(w, "post")
        /\ UNCHANGED <<mode, trusted, job, move, owner, wrapper, trees, env>>

\* The end of the loop over the items.
Post(w) ==
    /\ Holding(w) /\ At(w, "post")
    /\ job' = "done" /\ Rest(w)
    /\ UNCHANGED <<mode, trusted, move, clean, journals, owner, wrapper, trees, env>>

\* The clean-up of a worker that starts: the state of a committed move, once no job runs the plan.
Residue(w) ==
    /\ Holding(w) /\ At(w, "idle") /\ job = "done"
    /\ state /= None /\ move = "completed" /\ (state.phase = "transplanted" \/ Transplanted)
    /\ state' = None
    /\ UNCHANGED <<plan, owner, wrapper, names, frame, env>>

-----------------------------------------------------------------------------
(* The environment                                                         *)

\* A worker that is not the owner any more stops at its next lease assertion.
Abandon(w) ==
    /\ ~Holding(w)
    /\ \/ frame[w].pc \in FencedPc
       \/ frame[w].pc \in {"preflight", "boundary", "look"} /\ ~Fresh
    /\ Rest(w)
    /\ UNCHANGED <<plan, owner, wrapper, trees, env>>

Crash(w) ==
    /\ faults < MaxFaults /\ ~At(w, "idle")
    /\ Rest(w) /\ faults' = faults + 1
    /\ UNCHANGED <<plan, owner, wrapper, trees, tampers, late>>

(* A call or the writing of the state fails (a full disk, an I/O error);   *)
(* only an unlink has a way back.                                          *)
Refused(pc) ==
    CASE pc = "retire_file" -> "undo_file"
      [] pc = "rmdir" -> "kept"
      [] pc \in {"rmdir_own", "relocate"} -> "clean_failed"
      [] OTHER -> "failed"

CallFails(w) ==
    /\ faults < MaxFaults /\ frame[w].pc \in SavePc \cup CallPc
    /\ Go(w, Refused(frame[w].pc)) /\ faults' = faults + 1
    /\ UNCHANGED <<plan, owner, wrapper, trees, tampers, late>>

TakeOver(w) ==
    /\ faults < MaxFaults /\ ~Holding(w) /\ At(w, "idle")
    /\ owner' = w /\ faults' = faults + 1
    /\ UNCHANGED <<plan, wrapper, trees, frame, tampers, late>>

(* A user replaces or adds the child's file, or puts an entry at a free    *)
(* name of the target.  Nobody replaces the file between the last look at  *)
(* it and the unlink it allows, or before the unlink is undone: neither    *)
(* looks at it again.                                                      *)
Unlinking == \E w \in Worker : frame[w].pc \in {"unlink_file", "retire_file", "undo_file"}

Tamper(s, e) ==
    /\ tampers < MaxTampers
    /\ \/ s = "source" /\ e = "file" /\ Source("root") /= None /\ Source(e) /= Newer /\ ~Unlinking
       \/ /\ s = "target" /\ Target(e) = None
          /\ CASE e = "root" -> TRUE [] e = "link" -> Target("dir") /= None [] OTHER -> Target("root") /= None
    /\ names' = Set(s, e, IF s = "source" THEN Newer ELSE Alien)
    /\ tampers' = tampers + 1
    /\ UNCHANGED <<plan, owner, wrapper, state, frame, faults, late>>

\* A user puts something else into the wrapper, or takes its path when it is gone.
TamperWrapper ==
    /\ tampers < MaxTampers
    /\ \/ home = Wrapper /\ ~extra /\ extra' = TRUE /\ UNCHANGED home
       \/ home = None /\ home' = Alien /\ UNCHANGED extra
    /\ tampers' = tampers + 1
    /\ UNCHANGED <<plan, owner, reserve, drifted, trees, frame, faults, late>>

\* Without native renames the inode numbers of directories may change under a user's operations.
Drift ==
    /\ tampers < MaxTampers /\ mode /= "native" /\ ~drifted
    /\ drifted' = TRUE /\ tampers' = tampers + 1
    /\ UNCHANGED <<plan, owner, home, reserve, extra, trees, frame, faults, late>>

-----------------------------------------------------------------------------
Transplant(w) ==
    \/ Load(w) \/ SaveNew(w) \/ CheckRoot(w) \/ MakeRoot(w) \/ RecordRoot(w) \/ Migrate(w) \/ Enter(w)
    \/ File(w) \/ LinkFile(w) \/ RetireFile(w) \/ UndoFile(w) \/ UnlinkFile(w)
    \/ Dir(w) \/ MakeDir(w) \/ RecordDir(w) \/ EnterDir(w) \/ Link(w) \/ PublishLink(w) \/ RecordLink(w)
    \/ UnlinkLink(w) \/ LeaveDir(w) \/ Leave(w) \/ Finish(w)

Pair(w) ==
    \/ Preflight(w) \/ Boundary(w) \/ Intent(w) \/ Look(w) \/ Guard(w) \/ CheckTarget(w) \/ Rename(w)
    \/ Confirm(w) \/ Transplant(w) \/ List(w) \/ RmdirPaired(w) \/ Settle(w) \/ Tidy(w)

CleanUp(w) ==
    CleanIntent(w) \/ Authority(w) \/ RmdirOwn(w) \/ Relocate(w) \/ Verify(w) \/ PutBack(w) \/ SettleClean(w)

Run(w) == PutHome(w) \/ Begun(w) \/ Begin(w) \/ Pair(w) \/ CleanUp(w) \/ Post(w) \/ Abandon(w)

Next ==
    \/ \E w \in Worker : Run(w) \/ Residue(w) \/ Crash(w) \/ CallFails(w) \/ TakeOver(w)
    \/ \E s \in Side, e \in Entry : Tamper(s, e)
    \/ TamperWrapper \/ Drift

Spec == Init /\ [][Next]_vars

\* A worker process keeps executing what it has begun, and an unfinished job is taken up again.
FairSpec == Spec /\ \A w \in Worker : WF_vars(Run(w))
-----------------------------------------------------------------------------
(* Properties                                                              *)

\* Every variable has the values the code gives it, and what is journalled is journalled once.
TypeOK ==
    /\ mode \in Mode /\ {trusted, drifted, extra, late} \subseteq BOOLEAN
    /\ owner \in Worker /\ job \in {"active", "done"}
    /\ move \in ItemState /\ clean \in ItemState
    /\ journals \in [{"move", "clean"} -> 0..1]
    /\ home \in {Wrapper, Alien, None} /\ reserve \in {Wrapper, Alien, None}
    /\ names \in [Side -> [Entry -> Content]]
    /\ state \in State \cup {None}
    /\ frame \in [Worker -> [pc : Pc, mem : State, todo : SUBSET {"dir"}]]
    /\ faults \in 0..MaxFaults /\ tampers \in 0..MaxTampers

Undisturbed == tampers = 0 /\ ~late
Disturbs == tampers' /= tampers \/ late'
Kept(e, c) == \E s \in Side : names[s][e] = c
LosesNothing == \A e \in {"file", "link"}, c \in {Own, Newer, Alien} : Kept(e, c) => Kept(e, c)'

(* Whatever is interrupted, repeated or fails, and whatever users put into *)
(* the trees, no step takes away the last name of a file or symlink, the   *)
(* child's or a user's, as long as no worker has made a call without the   *)
(* lease (directory_transplant.py:230-297).                                *)
NothingLost == [][LosesNothing \/ Disturbs]_vars

(* Not even a stalled worker, still at it after the lease moved on, may    *)
(* take a file away for good.                                              *)
NothingLostToStalledWorker == [][LosesNothing \/ tampers' /= tampers]_vars

(* A move is reported completed, by its worker or after a crash, only when *)
(* the source is gone and the whole tree is at the target.                 *)
TruthfulMove ==
    [][move /= "completed" /\ move' = "completed" /\ Undisturbed =>
           /\ \A e \in Entry : Source(e) = None
           /\ \A e \in {"file", "link"} : Target(e) = Own
           /\ {Target("root"), Target("dir")} \subseteq {Own, Made}]_vars

(* A finished move that was interrupted before it was reported is found to *)
(* be finished: recovery fails only a move whose source is still there     *)
(* (handlers_base.py:621-674).                                             *)
FinishedMoveIsFound ==
    [][move = "executing" /\ move' = "failed" /\ Undisturbed =>
           Source("root") /= None \/ \E w \in Worker : At(w, "failed")]_vars

(* The wrapper is reported removed only when nothing was left in it, with  *)
(* one journal, and never without the move unless it went to the           *)
(* quarantine empty.                                                       *)
TruthfulCleanUp ==
    [][clean /= "completed" /\ clean' = "completed" =>
           /\ journals'.clean = 1 /\ Empty /\ home /= Wrapper
           /\ move' = "completed" \/ reserve = Wrapper]_vars

(* A wrapper that was renamed into the quarantine with something in it is  *)
(* back at its path, or the path is taken, before the job is over          *)
(* (empty_dir_quarantine.py:133-162, handlers_base.py:1321-1340).          *)
WrapperComesBack == (reserve = Wrapper /\ ~Empty) ~> (reserve = None \/ home /= None)

(* Whatever is interrupted, the job ends, and neither item is left between *)
(* intent and outcome.                                                     *)
JobSettles == <>(job = "done" /\ "executing" \notin {move, clean})
=============================================================================
