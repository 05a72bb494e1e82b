---------------------------- MODULE BatchUtilities ----------------------------
(* What the batch utilities propose (app/batch_utilities): quarantining what a     *)
(* filter matches, changing suffixes, flattening directories, collapsing wrappers  *)
(* with a single child and removing empty directories.  Each reads a directory     *)
(* tree, and some the index, and compiles an ordered list of operations, of which   *)
(* the user confirms a digest.                                                     *)
(* A path is a sequence of names, and a name a sequence of parts: the stem and the *)
(* suffixes.  A tree maps the paths that exist to objects with a kind (file, dir,   *)
(* link, other), an identity and, for a link, where it leads.                      *)
EXTENDS Naturals, Sequences, FiniteSets, SequencesExt

CONSTANTS Root,      \* the allowed roots, none of them inside another
          Reserved,  \* the quarantine storage
          Casefold   \* the part of a name that a part is when case is ignored

(* The file system: where a path leads when links are followed, the entry that      *)
(* lstat looks at, and what a stat shows; the mtime of a directory tells whether    *)
(* entries were added, removed or replaced in it.                                   *)
Real(t, p) ==
  LET at[k \in 0..Len(p)] ==
        IF k = 0 THEN << >>
        ELSE LET q == Append(at[k - 1], p[k]) IN
             IF q \in DOMAIN t /\ t[q].kind = "link" THEN t[q].to ELSE q
  IN at[Len(p)]
Entry(t, p) == Append(Real(t, Front(p)), Last(p))
Kind(t, p) == IF Entry(t, p) \in DOMAIN t THEN t[Entry(t, p)].kind ELSE "none"
Children(t, d) == {p \in DOMAIN t : Len(p) = Len(d) + 1 /\ IsPrefix(d, p)}
Stat(t, p) == IF p \in DOMAIN t THEN <<t[p], {<<q, t[q].id>> : q \in Children(t, p)}>> ELSE << >>
Allowed(p) == (\E r \in Root : IsPrefix(r, p)) /\ ~IsPrefix(Reserved, p)
-----------------------------------------------------------------------------
(* A row of the index, [path, kind, id], is acted on if it is of a file that is     *)
(* still there, inside the roots, no link, and as it was when it was indexed.       *)
Resolvable(t, row) == row.kind = "file" /\ Real(t, row.path) \in DOMAIN t
Contained(t, row) == Allowed(Real(t, row.path))
AsIndexed(t, row) == Kind(t, row.path) = "file" /\ t[Entry(t, row.path)].id = row.id
Live(t, row) == Resolvable(t, row) /\ Contained(t, row) /\ AsIndexed(t, row)

(* quarantine_filtered takes the rows in their order, unless the directory of one   *)
(* would be left without a file; files in subdirectories count, files already       *)
(* taken are those of the directory itself.                                         *)
FilesIn(t, d) == Cardinality({p \in DOMAIN t : IsPrefix(d, p) /\ t[p].kind = "file"})
Selected(t, index) ==
  LET taken[k \in 0..Len(index)] ==
        IF k = 0 THEN << >>
        ELSE LET chosen == taken[k - 1]
                 dir == Front(index[k].path)
                 before == Len(SelectSeq(chosen, LAMBDA p : Front(p) = dir))
             IN IF Live(t, index[k]) /\ FilesIn(t, Real(t, dir)) - before - 1 >= 1
                THEN Append(chosen, index[k].path) ELSE chosen
  IN taken[Len(index)]

(* suffix_transform appends a suffix, or replaces the last one; a name without a    *)
(* suffix, or with the same, is skipped.                                            *)
Transformed(name, action) ==
  IF action.mode = "append" THEN Append(name, action.suffix) ELSE Append(Front(name), action.suffix)
Transforms(name, action) == action.mode = "append" \/ (Len(name) > 1 /\ Last(name) # action.suffix)
SuffixItems(t, index, action) ==
  {[source |-> row.path, target |-> Append(Front(row.path), Transformed(Last(row.path), action)),
    physical |-> Real(t, row.path)] :
     row \in {r \in ToSet(index) : Live(t, r) /\ Transforms(Last(r.path), action)}}
-----------------------------------------------------------------------------
(* The graph of moves and renames, [source, target, physical], both utilities have:  *)
(* an item is in conflict if another has the same source, or a target that is a      *)
(* link, not allowed, or taken by another, case ignored or not.                      *)
DuplicateSource(items, i) == \E j \in items \ {i} : j.physical = i.physical
Unsafe(t, i) == Kind(t, i.target) = "link" \/ ~Allowed(Entry(t, i.target))
Target(t, i) == IF Unsafe(t, i) THEN i.target ELSE Entry(t, i.target)
SameTarget(t, items, i) == \E j \in items \ {i} : Target(t, j) = Target(t, i)
Folded(p) == Append(Front(p), [k \in DOMAIN Last(p) |-> Casefold[Last(p)[k]]])
OnlyCase(p, q) == p # q /\ Folded(p) = Folded(q)
CaseOnlyRename(t, i) == OnlyCase(i.source, i.target) \/ OnlyCase(i.physical, Target(t, i))
CaseOnlyTargets(t, items, i) == \E j \in items : OnlyCase(Target(t, j), Target(t, i))
CaseOccupied(t, i) == \E p \in Children(t, Front(Target(t, i))) : OnlyCase(p, Target(t, i))
Conflicts(t, items) ==
  {i \in items : \/ DuplicateSource(items, i) \/ Unsafe(t, i) \/ SameTarget(t, items, i)
                 \/ CaseOnlyRename(t, i) \/ CaseOnlyTargets(t, items, i) \/ CaseOccupied(t, i)}

(* A target that exists must be the source of an item that is not blocked itself,    *)
(* and so must be what lies inside it; what this blocks may block others.            *)
Unavailable(t, items, blocked, i) ==
  \/ /\ Target(t, i) \in DOMAIN t
     /\ \A j \in items : j.physical = Target(t, i) => j \in blocked
  \/ \E j \in blocked : IsStrictPrefix(Target(t, i), j.physical)
\* Mutant of Blocked: what is blocked only in turn is not.
BlockedAtOnce(t, items, conflicts) == conflicts \cup {i \in items : Unavailable(t, items, conflicts, i)}
Blocked(t, items, conflicts) ==
  LET blocked[k \in 0..Cardinality(items)] ==
        IF k = 0 THEN conflicts
        ELSE LET known == blocked[k - 1] IN known \cup {i \in items : Unavailable(t, items, known, i)}
  IN blocked[Cardinality(items)]

(* The source inside or at a target leaves before it is taken, and a directory is    *)
(* put in its place before what goes into it.  Of the items nothing left has to      *)
(* precede the first by name is next, here any; a cycle is left over.                *)
MustPrecede(t, j, i) ==
  /\ j # i
  /\ IsPrefix(Target(t, i), j.physical) \/ IsStrictPrefix(Target(t, j), Target(t, i))
Ordered(t, items) ==
  LET order[k \in 0..Cardinality(items)] ==
        IF k = 0 THEN << >>
        ELSE LET done == order[k - 1]
                 left == items \ ToSet(done)
                 free == {i \in left : \A j \in left : ~MustPrecede(t, j, i)}
             IN IF free = {} THEN done ELSE Append(done, CHOOSE i \in free : TRUE)
  IN order[Cardinality(items)]
Remaining(t, items, conflicts) == Ordered(t, items \ Blocked(t, items, conflicts))
-----------------------------------------------------------------------------
(* A compilation: the operations it proposes, whether it found no conflict, and the  *)
(* digest of what it saw.  While it reads, the tree may change: seen[s] is the tree    *)
(* at stage s.                                                                        *)
Stage == {"preflight", "discovery", "snapshot", "graph"}
Refusal == [ops |-> << >>, clean |-> FALSE, digest |-> << >>]
Operations(type, items) == [k \in DOMAIN items |-> [type |-> type, source |-> items[k].source, target |-> items[k].target]]

QuarantineDigest(t, index) ==
  [k \in DOMAIN index |-> <<index[k], Stat(t, Entry(t, index[k].path)), FilesIn(t, Real(t, Front(index[k].path)))>>]
Quarantine(seen, index) ==
  LET t == seen["graph"]
      taken == Selected(t, index)
      ops == [k \in DOMAIN taken |-> [type |-> "quarantine", source |-> taken[k], dir |-> Front(taken[k])]]
  IN [ops |-> ops, clean |-> TRUE, digest |-> <<ops, QuarantineDigest(t, index)>>]

SuffixDigest(t, index, items) == <<index, {<<i, Stat(t, Entry(t, i.source)), Stat(t, Target(t, i))>> : i \in items}>>
SuffixTransform(seen, index, action) ==
  LET t == seen["graph"]
      items == SuffixItems(t, index, action)
      order == Remaining(t, items, Conflicts(t, items))
  IN [ops |-> Operations("rename", order), clean |-> Len(order) = Cardinality(items),
      digest |-> <<order, SuffixDigest(t, index, items)>>]

(* Flattening: the wrappers are directories, no links, below a root and not within   *)
(* each other; from then on their identities must stay.                              *)
Apart(t, paths) == \A p, q \in paths : p # q => ~IsPrefix(Real(t, p), Real(t, q))
WrappersValid(t, wrappers) ==
  /\ \A w \in wrappers : Kind(t, w) = "dir" /\ Allowed(Real(t, w)) /\ Real(t, w) \notin Root
  /\ Apart(t, wrappers)
Same(t, u, p) == p \in DOMAIN t /\ p \in DOMAIN u /\ t[p] = u[p]

(* Each child that is a file or a directory is an item; any other one is an error.   *)
Discovered(t, w) ==
  {[source |-> p, target |-> Append(Front(w), Last(p)), physical |-> p, stat |-> Stat(t, p), wrapper |-> w] :
     p \in {q \in Children(t, w) : t[q].kind \in {"file", "dir"}}}
Unsupported(t, wrappers) == \E w \in wrappers : \E p \in Children(t, w) : t[p].kind \notin {"file", "dir"}

(* The wrapper is scanned once more, and compared when the graph is made; then every  *)
(* source must be what was discovered.                                               *)
Snapshot(seen, w) == IF Same(seen["preflight"], seen["snapshot"], w) THEN Stat(seen["snapshot"], w) ELSE << >>
WrapperChanged(seen, w) == Snapshot(seen, w) = << >> \/ Stat(seen["graph"], w) # Snapshot(seen, w)
SourceChanged(seen, i) == Stat(seen["graph"], i.source) # i.stat \/ ~Allowed(i.source)
SourceBlocked(seen, i) == WrapperChanged(seen, i.wrapper) \/ SourceChanged(seen, i)

FlattenDigest(seen, wrappers, items, order) ==
  <<order, items, {<<w, Snapshot(seen, w)>> : w \in wrappers},
    {<<i.target, Stat(seen["graph"], i.target), Children(seen["graph"], Front(i.target))>> : i \in items}>>
FlattenClean(seen, wrappers, items, order) ==
  /\ Len(order) = Cardinality(items) /\ ~Unsupported(seen["discovery"], wrappers)
  /\ \A w \in wrappers : ~WrapperChanged(seen, w)
Flatten(seen, wrappers) ==
  LET items == UNION {Discovered(seen["discovery"], w) : w \in wrappers}
      sound == {i \in items : ~SourceBlocked(seen, i)}
      order == Remaining(seen["graph"], sound, Conflicts(seen["graph"], sound))
  IN IF /\ WrappersValid(seen["preflight"], wrappers)
        /\ \A w \in wrappers : Same(seen["preflight"], seen["discovery"], w) /\ w \in DOMAIN seen["snapshot"]
     THEN [ops |-> Operations("move", order),
           clean |-> FlattenClean(seen, wrappers, items, order),
           digest |-> FlattenDigest(seen, wrappers, items, order)]
     ELSE Refusal

(* Removing empty directories: all directories below a scope that hold nothing but     *)
(* such directories, the deepest first.  The quarantine storage counts as content.    *)
ScopesValid(t, scopes) == (\A s \in scopes : Kind(t, s) = "dir" /\ Allowed(Real(t, s))) /\ Apart(t, scopes)
Removable(t, d) == \A p \in DOMAIN t : IsPrefix(d, p) => t[p].kind = "dir" /\ ~IsPrefix(Reserved, p)
Examined(t, scopes) ==
  {d \in DOMAIN t : t[d].kind = "dir" /\ ~IsPrefix(Reserved, d) /\ \E s \in scopes : IsStrictPrefix(s, d)}
EmptyDigest(t, scopes, order) == <<order, {<<d, t[d]>> : d \in Examined(t, scopes)}>>
RemoveEmpty(seen, scopes) ==
  LET t == seen["discovery"]
      order == SetToSortSeq({d \in Examined(t, scopes) : Removable(t, d)}, LAMBDA p, q : Len(p) > Len(q))
  IN IF ScopesValid(seen["preflight"], scopes) /\ \A s \in scopes : Same(seen["preflight"], t, s)
     THEN [ops |-> [k \in DOMAIN order |-> [type |-> "rmdir", source |-> order[k]]], clean |-> TRUE,
           digest |-> EmptyDigest(t, scopes, order)]
     ELSE Refusal

(* Collapsing wrappers (a utility workflow): of the directories of a scope those with  *)
(* a single child that is a file or a directory, whose name is free in the scope and   *)
(* wanted once.  What was listed must be the same in two more readings.               *)
Rows(t, d) == {<<p, t[p]>> : p \in Children(t, d)}
Dirs(t, scope) == {w \in Children(t, scope) : t[w].kind = "dir"}
Verified(seen, t, scope) ==
  /\ Same(seen["preflight"], t, scope) /\ Rows(t, scope) = Rows(seen["preflight"], scope)
  /\ \A w \in Dirs(t, scope) : Rows(t, w) = Rows(seen["discovery"], w)
Up(scope, p) == Append(scope, Last(p))
Ready(t, scope, w) ==
  \E p \in DOMAIN t : /\ Children(t, w) = {p} /\ t[p].kind \in {"file", "dir"}
                      /\ Up(scope, p) \notin DOMAIN t
Child(t, w) == CHOOSE p \in Children(t, w) : TRUE
Collapsible(seen, scope) ==
  LET t == seen["discovery"]
      ready == {w \in Dirs(seen["preflight"], scope) : Ready(t, scope, w)}
  IN IF /\ \A w \in Dirs(seen["preflight"], scope) : Same(seen["preflight"], t, w)
        /\ Verified(seen, seen["snapshot"], scope) /\ Verified(seen, seen["graph"], scope)
     THEN {w \in ready : \A v \in ready \ {w} : Last(Child(t, v)) # Last(Child(t, w))}
     ELSE {}
CollapseOps(t, scope, wrappers) ==
  FlattenSeq([k \in DOMAIN wrappers |->
    <<[type |-> "move", source |-> Child(t, wrappers[k]), target |-> Up(scope, Child(t, wrappers[k]))],
      [type |-> "rmdir", source |-> wrappers[k]]>>])

(* A plan is made of what is compiled when it is generated, if that has the digest the *)
(* user confirmed, no conflict and an operation (create_batch_utility_plan).           *)
Plan(preview, now) == IF now.digest = preview.digest /\ now.clean THEN now.ops ELSE << >>
-----------------------------------------------------------------------------
(* The reference: one operation after the other on a tree.  A file or directory is     *)
(* moved to a name that is free in a directory, a directory removed when it is empty,  *)
(* and a file quarantined when it is not the last one in the directory protected.      *)
IsDir(t, p) == p \in DOMAIN t /\ t[p].kind = "dir"
Possible(t, op) ==
  LET p == Entry(t, op.source) IN
  CASE op.type \in {"move", "rename"} ->
         LET q == Entry(t, op.target) IN
         /\ p \in DOMAIN t /\ t[p].kind \in {"file", "dir"} /\ q \notin DOMAIN t /\ ~IsPrefix(p, q) /\ IsDir(t, Front(q))
    [] op.type = "rmdir" -> IsDir(t, p) /\ Children(t, p) = {}
    [] op.type = "quarantine" -> p \in DOMAIN t /\ t[p].kind = "file" /\ FilesIn(t, Real(t, op.dir)) - 1 >= 1
Moved(t, p, q) ==
  LET stay == {r \in DOMAIN t : ~IsPrefix(p, r)}
      go == {r \in DOMAIN t : IsPrefix(p, r)}
      new(r) == q \o SubSeq(r, Len(p) + 1, Len(r))
      old(r) == p \o SubSeq(r, Len(q) + 1, Len(r))
  IN [r \in stay \cup {new(g) : g \in go} |-> IF r \in stay THEN t[r] ELSE t[old(r)]]
Applied(t, op) ==
  IF op.type \in {"move", "rename"} THEN Moved(t, Entry(t, op.source), Entry(t, op.target))
  ELSE [r \in DOMAIN t \ {Entry(t, op.source)} |-> t[r]]
Trees(t, ops) == LET at[k \in 0..Len(ops)] == IF k = 0 THEN t ELSE Applied(at[k - 1], ops[k]) IN at
Executable(t, ops) == LET at == Trees(t, ops) IN \A k \in DOMAIN ops : Possible(at[k - 1], ops[k])
Final(t, ops) == Trees(t, ops)[Len(ops)]

(* What is proposed can be carried out on the tree it was compiled from, whatever else  *)
(* is in conflict; and what is planned does what the utility is for.                    *)
QuarantineSound(seen, index) ==
  LET plan == Quarantine(seen, index).ops IN
  /\ Executable(seen["graph"], plan)
  /\ \A k \in DOMAIN plan : FilesIn(Final(seen["graph"], plan), plan[k].dir) >= 1
SuffixSound(seen, index, action) == Executable(seen["graph"], SuffixTransform(seen, index, action).ops)
FlattenSound(preview, seen, wrappers) ==
  LET now == Flatten(seen, wrappers)
      plan == Plan(preview, now)
  IN /\ Executable(seen["graph"], now.ops)
     /\ plan # << >> => \A w \in wrappers : Children(Final(seen["graph"], plan), w) = {}
EmptySound(seen, scopes) ==
  LET ops == RemoveEmpty(seen, scopes).ops
      left == Final(seen["discovery"], ops)
  IN /\ Executable(seen["discovery"], ops)
     /\ ops # << >> => \A d \in Examined(left, scopes) : ~Removable(left, d)
CollapseSound(seen, scope, chosen) ==
  ToSet(chosen) \subseteq Collapsible(seen, scope) =>
    Executable(seen["graph"], CollapseOps(seen["discovery"], scope, chosen))
=============================================================================
