---------------------------- MODULE UtilitySamples ----------------------------
(* Small directory trees, and what may change in one while a batch utility reads    *)
(* it, to put before BatchUtilities.                                                *)
EXTENDS Naturals, Sequences, FiniteSets, TLC

In(d, n) == Append(d, <<n>>)
r == <<<<"r">>>>
ra == In(r, "a")
rb == In(r, "b")
rd == In(r, "d")
rl == In(r, "l")
away == <<<<"o">>>>
Letters == {"r", "a", "b", "c", "d", "e", "f", "l", "o", "q", "s", "t", "x", "y", "z"}
Utility == INSTANCE BatchUtilities WITH
  Root <- {r}, Reserved <- In(r, "q"), Casefold <- ("X" :> "x" @@ "S" :> "s" @@ [n \in Letters |-> n])

Object(kind, id) == [kind |-> kind, id |-> id, to |-> << >>]
Absent == Object("none", 0)
File == Object("file", 1)
Directory == Object("dir", 2)
Link(p) == [kind |-> "link", id |-> 3, to |-> p]
New == {Absent, Object("file", 9), Object("dir", 9)}

(* The tree with what f puts at each path, where it is inside directories.          *)
TreeOf(f) ==
  LET inside(p) == \A k \in 1..Len(p) - 1 : SubSeq(p, 1, k) \in DOMAIN f => f[SubSeq(p, 1, k)].kind = "dir"
  IN (r :> Directory) @@ [p \in {p \in DOMAIN f : f[p].kind # "none" /\ inside(p)} |-> f[p]]
Put(t, p, o) ==
  LET rest == [q \in {q \in DOMAIN t : ~Utility!IsPrefix(p, q)} |-> t[q]]
  IN IF o = Absent THEN rest ELSE (p :> o) @@ rest
Changes(t, paths) == {t} \cup {Put(t, p, o) : p \in paths, o \in New}
StageNumber == "preflight" :> 1 @@ "discovery" :> 2 @@ "snapshot" :> 3 @@ "graph" :> 4
Seen(s) == [stage \in Utility!Stage |-> IF StageNumber[stage] < s.from THEN s.before ELSE s.after]

(* Files in nested directories, with rows that are current, stale or missing.       *)
RowOf(p, id) == [path |-> p, kind |-> "file", id |-> id]
FilteredTrees ==
  {TreeOf(In(r, "x") :> o1 @@ rd :> Directory @@ In(rd, "x") :> o2 @@ In(rd, "y") :> o3 @@ In(rd, "e") :> Directory
            @@ In(In(rd, "e"), "x") :> o4 @@ rl :> Link(away) @@ away :> Directory @@ In(away, "x") :> File) :
     o1, o2, o3, o4 \in {Absent, File}}
Paths == <<In(r, "x"), In(rd, "x"), In(rl, "x"), In(rd, "y"), In(In(rd, "e"), "x")>>
IndexOf(id) == Utility!FlattenSeq([k \in DOMAIN Paths |-> IF id[k] = 0 THEN << >> ELSE <<RowOf(Paths[k], id[k])>>])
Indexes == LET forth == {IndexOf(id) : id \in [1..5 -> 0..2]} IN forth \cup {Utility!Reverse(i) : i \in forth}
Filtered == [kind : {"quarantine"}, tree : FilteredTrees, index : Indexes]

(* Names of one directory that differ in a suffix or in case, listed under its own   *)
(* path, that of a link to it, or both.                                              *)
Names == <<<<"a">>, <<"a", "s">>, <<"a", "s", "s">>, <<"a", "t">>, <<"a", "S">>>>
SuffixTree(o) ==
  TreeOf(rd :> Directory @@ rl :> Link(rd)
           @@ [p \in {Append(rd, Names[k]) : k \in 1..5} |-> o[CHOOSE k \in 1..5 : p = Append(rd, Names[k])]])
SuffixIndex(rows, dirs) ==
  Utility!FoldSet(LAMBDA row, index : Append(index, row), << >>, {RowOf(Append(d, Names[k]), 1) : d \in dirs, k \in rows})
Suffixes == [kind : {"suffix"},
             tree : {SuffixTree(o) : o \in [1..5 -> {Absent, File}]} \cup {SuffixTree([o EXCEPT ![4] = Link(away)]) : o \in [1..5 -> {Absent, File}]},
             index : {SuffixIndex(rows, dirs) : rows \in SUBSET (1..5), dirs \in {{rd}, {rl}, {rd, rl}}},
             action : [mode : {"append", "change"}, suffix : {"s"}]]

(* Two wrappers, what is in them, and what has the same names beside them.           *)
FlatTrees ==
  {TreeOf(ra :> Directory @@ rb :> o1 @@ In(r, "x") :> o2 @@ In(r, "X") :> o3 @@ In(ra, "x") :> o4
            @@ In(In(ra, "x"), "f") :> File @@ In(ra, "b") :> o5 @@ In(rb, "x") :> o6) :
     o1 \in {Absent, Directory}, o2, o3, o5, o6 \in {Absent, File}, o4 \in {Absent, File, Directory, Link(rb)}}
FlatPaths == {ra, rb, In(r, "x"), In(ra, "x"), In(ra, "y"), In(ra, "b")}
Flats == UNION {[kind : {"flatten"}, before : {t}, after : Changes(t, FlatPaths), from : 1..4,
                 wrappers : {{ra}, {ra, rb}, {ra, In(ra, "x")}}] : t \in FlatTrees}

EmptyTrees ==
  {TreeOf(ra :> Directory @@ In(ra, "b") :> o1 @@ In(ra, "c") :> o2 @@ In(In(ra, "b"), "d") :> o3
            @@ In(r, "q") :> Directory @@ In(In(r, "q"), "z") :> Directory @@ rb :> o4) :
     o1, o2, o3 \in {Absent, File, Directory, Link(rb)}, o4 \in {Absent, Directory}}
EmptyPaths == {ra, In(ra, "b"), In(ra, "c"), rb}
Empties == UNION {[kind : {"empty"}, before : {t}, after : Changes(t, EmptyPaths), from : {2},
                   scopes : {{r}, {ra}, {ra, rb}, {ra, In(ra, "b")}}] : t \in EmptyTrees}

WrapperTrees ==
  {TreeOf(ra :> Directory @@ rb :> Directory @@ In(ra, "x") :> o1 @@ In(ra, "y") :> o2
            @@ In(rb, "x") :> o3 @@ In(rb, "y") :> o4 @@ In(r, "x") :> o5) :
     o1, o3 \in {Absent, File, Directory, Link(rb)}, o2, o4, o5 \in {Absent, File}}
WrapperPaths == {ra, rb, In(ra, "x"), In(rb, "y"), In(r, "x"), In(r, "y")}
Collapses == UNION {[kind : {"collapse"}, before : {t}, after : Changes(t, WrapperPaths), from : 2..4,
                     chosen : {<<ra>>, <<ra, rb>>, <<rb, ra>>}] : t \in WrapperTrees}

Samples == Filtered \cup Suffixes \cup Flats \cup Empties \cup Collapses
Sound(s) ==
  CASE s.kind = "quarantine" -> Utility!QuarantineSound([stage \in Utility!Stage |-> s.tree], s.index)
    [] s.kind = "suffix"     -> Utility!SuffixSound([stage \in Utility!Stage |-> s.tree], s.index, s.action)
    [] s.kind = "flatten"    -> Utility!FlattenSound(Utility!Flatten([stage \in Utility!Stage |-> s.before], s.wrappers), Seen(s), s.wrappers)
    [] s.kind = "empty"      -> Utility!EmptySound(Seen(s), s.scopes)
    [] s.kind = "collapse"   -> Utility!CollapseSound(Seen(s), r, s.chosen)
=============================================================================
