--------------------------- MODULE LastFile_proofs ---------------------------
(***************************************************************************)
(* LastFile for any tree, groups, plans and workers.                       *)
(***************************************************************************)
EXTENDS LastFile, FiniteSetTheorems, TLAPS

-----------------------------------------------------------------------------
(* What each actor relies on.                                              *)

(* A worker works on a plan that has been frozen, and on one of its items. *)
Runs(w) ==
    /\ worker[w].pc # "idle" => worker[w].plan \in Plan /\ ~Unfrozen(worker[w].plan)
    /\ worker[w].pc \notin {"idle", "item"} => worker[w].file \in File /\ item[worker[w].plan][worker[w].file] # "none"

(* Every item has another file of its group to be kept.                    *)
Chosen(p) ==
    /\ plan[p].stage = "none" => \A f \in File : item[p][f] = "none"
    /\ plan[p].stage = "selecting" =>
          /\ \A f \in File : item[p][f] \in {"none", "planned"}
          /\ \A g \in plan[p].todo : \A f \in Copies[g] : item[p][f] = "none"
    /\ \A f \in File : item[p][f] # "none" => plan[p].keep[GroupOf[f]] \in Copies[GroupOf[f]] \ {f}

(* A worker that has counted the files of what its plan protects.          *)
Seen(w) == worker[w].pc = "take" \/ (worker[w].pc = "check" /\ plan[worker[w].plan].recursive)

(* What it has seen still holds, but for what others have taken since.     *)
Looked(w) ==
    LET p == worker[w].plan
        f == worker[w].file
        gone == worker[w].gone
    IN /\ Seen(w) => \A d \in Protected(p, f) : d \in gone \/ Count(d) >= 2
       /\ worker[w].pc = "take" => GroupOf[f] \in gone \/ place[plan[p].keep[GroupOf[f]]] = "home"

(* The identity a plan expects of a directory; one that was replaced since *)
(* has a later one.                                                        *)
Trusted(p, d) == IF Bound(p, d) THEN plan[p].binding[d].id ELSE plan[p].frozen[d]
Noticed(p) ==
    /\ Unfrozen(p) => replaced[p] = {}
    /\ \A d \in Dir : Trusted(p, d) <= identity[d]
    /\ \A d \in replaced[p] : Trusted(p, d) < identity[d]

(* From its look on a worker is at work in directories that are the frozen *)
(* ones, and what it has captured of one that was replaced since is old.   *)
Relies(w) ==
    LET p == worker[w].plan
        f == worker[w].file
    IN /\ \A d \in Dir : worker[w].caught[d] <= identity[d]
       /\ worker[w].pc \in Mutating /\ plan[p].recursive => Chain[f] \cap replaced[p] = {}
       /\ worker[w].pc = "record" /\ plan[p].recursive =>
             \A d \in Chain[f] \cap replaced[p] : worker[w].caught[d] < identity[d]

Invariant ==
    /\ TypeOK
    /\ \A p \in Plan : Chosen(p) /\ Noticed(p)
    /\ \A w \in Worker : Runs(w) /\ Relies(w) /\ Looked(w)
-----------------------------------------------------------------------------
(* The tree.                                                               *)

LEMMA Groups == \A f \in File : GroupOf[f] \in Group /\ f \in Copies[GroupOf[f]]
BY LastFileAssumption DEF GroupOf

LEMMA GroupOfCopy == ASSUME NEW g \in Group, NEW f \in Copies[g] PROVE f \in File /\ GroupOf[f] = g
BY Groups, LastFileAssumption

LEMMA Chains == \A f \in File : Chain[f] \subseteq Dir /\ Chain[f] \subseteq Above[In[f]] /\ Top[f] \in Dir
<1> SUFFICES ASSUME NEW f \in File
             PROVE  Chain[f] \subseteq Dir /\ Chain[f] \subseteq Above[In[f]] /\ Top[f] \in Dir
  OBVIOUS
<1>1. In[f] \in Dir /\ Root[f] \in Dir /\ Above[In[f]] \subseteq Dir
  BY LastFileAssumption
<1>2. Chain[f] \subseteq Above[In[f]]
  BY DEF Chain
<1>3. CASE In[f] = Root[f]
  BY <1>1, <1>2, <1>3 DEF Top
<1>4. CASE In[f] # Root[f]
  <2>1. \E d \in Chain[f] : Above[d] \cap Chain[f] = {d, Root[f]} /\ d # Root[f]
    BY <1>4, TreeAssumption
  <2>2. Top[f] = CHOOSE d \in Chain[f] : Above[d] \cap Chain[f] = {d, Root[f]} /\ d # Root[f]
    BY <1>4 DEF Top
  <2> HIDE DEF Top
  <2>3. Top[f] \in Chain[f]
    BY <2>1, <2>2
  <2> QED BY <1>1, <1>2, <2>3
<1> QED BY <1>3, <1>4

(* The sets that Count adds up.                                            *)
Here(d) == {f \in FilesBelow[d] : place[f] = "home"}
Extra(d) == {e \in Below[d] : extra[e] = 1}

LEMMA FiniteBelow ==
    ASSUME NEW d \in Dir, NEW S \in SUBSET FilesBelow[d], NEW T \in SUBSET Below[d]
    PROVE  /\ IsFiniteSet(S) /\ IsFiniteSet(T)
           /\ Cardinality(S) \in Nat /\ Cardinality(T) \in Nat
<1>1. S \in SUBSET File /\ T \in SUBSET Dir
  BY DEF FilesBelow, Below
<1>2. IsFiniteSet(S) /\ IsFiniteSet(T)
  BY <1>1, LastFileAssumption, FS_Subset
<1> QED BY <1>2, FS_CardinalityType

LEMMA CountSets ==
    ASSUME NEW d \in Dir
    PROVE  /\ Count(d) = Cardinality(Here(d)) + Cardinality(Extra(d))
           /\ IsFiniteSet(Here(d)) /\ IsFiniteSet(Extra(d))
           /\ Cardinality(Here(d)) \in Nat /\ Cardinality(Extra(d)) \in Nat /\ Count(d) \in Nat
<1>1. Here(d) \in SUBSET FilesBelow[d] /\ Extra(d) \in SUBSET Below[d]
  BY DEF Here, Extra
<1>2. Count(d) = Cardinality(Here(d)) + Cardinality(Extra(d))
  BY DEF Count, Here, Extra
<1> QED BY <1>1, <1>2, FiniteBelow

LEMMA CountSetsNext ==
    ASSUME NEW d \in Dir
    PROVE  /\ Count(d)' = Cardinality(Here(d)') + Cardinality(Extra(d)')
           /\ IsFiniteSet(Here(d)') /\ IsFiniteSet(Extra(d)')
           /\ Cardinality(Here(d)') \in Nat /\ Cardinality(Extra(d)') \in Nat /\ Count(d)' \in Nat
<1>1. Here(d)' \in SUBSET FilesBelow[d] /\ Extra(d)' \in SUBSET Below[d]
  BY DEF Here, Extra
<1>2. Count(d)' = Cardinality(Here(d)') + Cardinality(Extra(d)')
  BY DEF Count, Here, Extra
<1> QED BY <1>1, <1>2, FiniteBelow

(* A step that takes no file below a directory does not lower its count.   *)
LEMMA CountKept ==
    ASSUME NEW d \in Dir, \A f \in FilesBelow[d] : place[f] = "home" => place'[f] = "home",
           \A e \in Below[d] : extra[e] = 1 => extra'[e] = 1
    PROVE  Count(d)' >= Count(d)
<1>1. Here(d) \subseteq Here(d)' /\ Extra(d) \subseteq Extra(d)'
  BY DEF Here, Extra
<1>2. /\ Count(d) = Cardinality(Here(d)) + Cardinality(Extra(d))
      /\ Cardinality(Here(d)) \in Nat /\ Cardinality(Extra(d)) \in Nat
  BY CountSets
<1>3. /\ Count(d)' = Cardinality(Here(d)') + Cardinality(Extra(d)')
      /\ IsFiniteSet(Here(d)') /\ IsFiniteSet(Extra(d)')
      /\ Cardinality(Here(d)') \in Nat /\ Cardinality(Extra(d)') \in Nat
  BY CountSetsNext
<1>4. Cardinality(Here(d)) <= Cardinality(Here(d)') /\ Cardinality(Extra(d)) <= Cardinality(Extra(d)')
  BY <1>1, <1>3, FS_Subset
<1> QED BY <1>2, <1>3, <1>4

(* One that takes one file lowers it by one.                               *)
LEMMA CountTaken ==
    ASSUME NEW d \in Dir, NEW f \in File, \A x \in File \ {f} : place'[x] = place[x], UNCHANGED extra
    PROVE  Count(d)' >= Count(d) - 1
<1>1. Here(d) \ {f} \subseteq Here(d)' /\ Extra(d)' = Extra(d)
  BY DEF Here, Extra, FilesBelow
<1>2. /\ Count(d) = Cardinality(Here(d)) + Cardinality(Extra(d))
      /\ IsFiniteSet(Here(d)) /\ Cardinality(Here(d)) \in Nat /\ Cardinality(Extra(d)) \in Nat
  BY CountSets
<1>3. /\ Count(d)' = Cardinality(Here(d)') + Cardinality(Extra(d)')
      /\ IsFiniteSet(Here(d)') /\ Cardinality(Here(d)') \in Nat
  BY CountSetsNext
<1>4. /\ Cardinality(Here(d) \ {f}) >= Cardinality(Here(d)) - 1 /\ Cardinality(Here(d) \ {f}) \in Nat
      /\ IsFiniteSet(Here(d) \ {f})
  <2>1. IsFiniteSet(Here(d) \ {f}) /\ Cardinality(Here(d) \ {f}) \in Nat
    BY <1>2, FS_Subset, FS_CardinalityType
  <2>2. CASE f \in Here(d)
    <3>1. Cardinality(Here(d) \ {f}) = Cardinality(Here(d)) - 1
      BY <1>2, <2>2, FS_RemoveElement
    <3> QED BY <1>2, <2>1, <3>1
  <2>3. CASE f \notin Here(d)
    <3>1. Here(d) \ {f} = Here(d)
      BY <2>3
    <3>2. Cardinality(Here(d) \ {f}) = Cardinality(Here(d))
      BY <3>1
    <3> QED BY <1>2, <2>1, <3>2
  <2> QED BY <2>2, <2>3
<1>5. Cardinality(Here(d) \ {f}) <= Cardinality(Here(d)')
  BY <1>1, <1>3, FS_Subset
<1> QED BY <1>1, <1>2, <1>3, <1>4, <1>5

-----------------------------------------------------------------------------
(* The rows keep their types.                                              *)

LEMMA Rows ==
    ASSUME TypeOK
    PROVE  /\ \A p \in Plan : plan[p] \in PlanRow /\ item[p] \in [File -> ItemState]
           /\ \A w \in Worker : worker[w] \in WorkerRow
           /\ plan = [p \in Plan |-> plan[p]] /\ worker = [w \in Worker |-> worker[w]]
BY DEF TypeOK

LEMMA PlanTyped ==
    ASSUME TypeOK, NEW p \in Plan, NEW row \in PlanRow
    PROVE  /\ [plan EXCEPT ![p] = row] \in [Plan -> PlanRow]
           /\ [plan EXCEPT ![p] = row][p] = row
           /\ \A q \in Plan \ {p} : [plan EXCEPT ![p] = row][q] = plan[q]
BY DEF TypeOK

LEMMA ItemTyped ==
    ASSUME TypeOK, NEW p \in Plan, NEW states \in [File -> ItemState]
    PROVE  /\ [item EXCEPT ![p] = states] \in [Plan -> [File -> ItemState]]
           /\ [item EXCEPT ![p] = states][p] = states
           /\ \A q \in Plan \ {p} : [item EXCEPT ![p] = states][q] = item[q]
BY DEF TypeOK

LEMMA WorkerTyped ==
    ASSUME TypeOK, NEW w \in Worker, NEW row \in WorkerRow
    PROVE  /\ [worker EXCEPT ![w] = row] \in [Worker -> WorkerRow]
           /\ [worker EXCEPT ![w] = row][w] = row
           /\ \A v \in Worker \ {w} : [worker EXCEPT ![w] = row][v] = worker[v]
BY DEF TypeOK

LEMMA BlankRows == NoPlan \in PlanRow /\ Idle \in WorkerRow
<1>1. NoPlan \in PlanRow
  BY DEF NoPlan, PlanRow
<1>2. Idle \in WorkerRow
  BY DEF Idle, WorkerRow
<1> QED BY <1>1, <1>2

(* Stages and fields that are written to a plan's row.                     *)
Stages == {"none", "selecting", "draft", "frozen", "ready", "executing", "partial", "stale", "completed"}
LEMMA PlanFields ==
    ASSUME NEW row \in PlanRow
    PROVE  /\ \A s \in Stages : [row EXCEPT !.stage = s] \in PlanRow
           /\ \A b \in BOOLEAN, S \in SUBSET Group, n \in [Dir -> Nat] :
                 [row EXCEPT !.stage = "selecting", !.recursive = b, !.todo = S, !.snapshot = n] \in PlanRow
           /\ \A S \in SUBSET Group : [row EXCEPT !.todo = S] \in PlanRow
           /\ \A S \in SUBSET Group, g \in Group, f \in File :
                 [row EXCEPT !.todo = S, !.keep[g] = f] \in PlanRow
           /\ [row EXCEPT !.stage = "draft", !.snapshot = NoPlan.snapshot] \in PlanRow
           /\ \A n \in [Dir -> Nat] : [row EXCEPT !.stage = "frozen", !.frozen = n] \in PlanRow
           /\ \A b \in [Dir -> [id: Nat, after: File \cup {None}]] : [row EXCEPT !.binding = b] \in PlanRow
<1>1. \A s \in Stages : [row EXCEPT !.stage = s] \in PlanRow
  BY DEF PlanRow, Stages
<1>2. \A b \in BOOLEAN, S \in SUBSET Group, n \in [Dir -> Nat] :
          [row EXCEPT !.stage = "selecting", !.recursive = b, !.todo = S, !.snapshot = n] \in PlanRow
  BY DEF PlanRow
<1>3. \A S \in SUBSET Group : [row EXCEPT !.todo = S] \in PlanRow
  BY DEF PlanRow
<1>4. \A S \in SUBSET Group, g \in Group, f \in File : [row EXCEPT !.todo = S, !.keep[g] = f] \in PlanRow
  BY DEF PlanRow
<1>5. [row EXCEPT !.stage = "draft", !.snapshot = NoPlan.snapshot] \in PlanRow
  BY DEF PlanRow, NoPlan
<1>6. \A n \in [Dir -> Nat] : [row EXCEPT !.stage = "frozen", !.frozen = n] \in PlanRow
  BY DEF PlanRow
<1>7. \A b \in [Dir -> [id: Nat, after: File \cup {None}]] : [row EXCEPT !.binding = b] \in PlanRow
  BY DEF PlanRow
<1> QED BY <1>1, <1>2, <1>3, <1>4, <1>5, <1>6, <1>7

-----------------------------------------------------------------------------
(* What a step does to the rows: it writes those of one plan, and once the *)
(* plan is frozen it keeps what the plan protects and its items.           *)
RowsTyped == plan' \in [Plan -> PlanRow] /\ item' \in [Plan -> [File -> ItemState]]
Only(p) == \A q \in Plan \ {p} : plan'[q] = plan[q] /\ item'[q] = item[q]
Trusting(p) == plan'[p].frozen = plan[p].frozen /\ plan'[p].binding = plan[p].binding
Kept(p) ==
    /\ plan'[p].recursive = plan[p].recursive /\ plan'[p].keep = plan[p].keep
    /\ ~Unfrozen(p) => ~Unfrozen(p)'
    /\ \A f \in File : item'[p][f] = "none" <=> item[p][f] = "none"

LEMMA CompileStep ==
    ASSUME TypeOK, NEW p \in Plan, NEW recursive \in BOOLEAN, Compile(p, recursive), Chosen(p)
    PROVE  RowsTyped /\ Only(p) /\ Trusting(p) /\ Unfrozen(p) /\ Unfrozen(p)' /\ Chosen(p)'
<1>1. PICK S \in SUBSET Group :
          /\ plan[p].stage = "none"
          /\ plan' = [plan EXCEPT ![p].stage = "selecting", ![p].recursive = recursive, ![p].todo = S,
                                  ![p].snapshot = [d \in Dir |-> Count(d)]]
          /\ item' = item
  BY DEF Compile
<1>2. PICK n : n = [d \in Dir |-> Count(d)]
  OBVIOUS
<1>3. n \in [Dir -> Nat]
  BY <1>2, CountSets
<1>4. PICK row \in PlanRow :
          row = [plan[p] EXCEPT !.stage = "selecting", !.recursive = recursive, !.todo = S, !.snapshot = n]
  BY <1>3, Rows, PlanFields
<1>5. plan' = [plan EXCEPT ![p] = row]
  BY <1>1, <1>2, <1>4
<1>6. plan' \in [Plan -> PlanRow] /\ plan'[p] = row /\ \A q \in Plan \ {p} : plan'[q] = plan[q]
  BY <1>5, PlanTyped, Zenon
<1>7. row.stage = "selecting" /\ row.frozen = plan[p].frozen /\ row.binding = plan[p].binding
  BY <1>4, Rows DEF PlanRow
<1>8. item' \in [Plan -> [File -> ItemState]]
  BY <1>1 DEF TypeOK
<1>9. RowsTyped /\ Only(p) /\ Trusting(p) /\ Unfrozen(p) /\ Unfrozen(p)'
  BY <1>1, <1>6, <1>7, <1>8 DEF RowsTyped, Only, Trusting, Unfrozen
<1>10. \A f \in File : item'[p][f] = "none"
  BY <1>1 DEF Chosen
<1>11. plan'[p].todo \in SUBSET Group
  BY <1>6 DEF PlanRow
<1>12. Chosen(p)'
  BY <1>6, <1>7, <1>10, <1>11, GroupOfCopy DEF Chosen
<1> QED BY <1>9, <1>12

LEMMA SelectGroupStep ==
    ASSUME TypeOK, NEW p \in Plan, NEW g \in Group, SelectGroup(p, g), Chosen(p)
    PROVE  RowsTyped /\ Only(p) /\ Trusting(p) /\ Unfrozen(p) /\ Unfrozen(p)' /\ Chosen(p)'
<1>1. plan[p].stage = "selecting" /\ g \in plan[p].todo /\ plan[p].todo \in SUBSET Group
  BY Rows DEF SelectGroup, PlanRow
<1>2. CASE plan' = [plan EXCEPT ![p].todo = @ \ {g}] /\ item' = item
  <2>1. PICK row \in PlanRow : row = [plan[p] EXCEPT !.todo = plan[p].todo \ {g}]
    BY <1>1, Rows, PlanFields
  <2>2. plan' = [plan EXCEPT ![p] = row]
    BY <1>2, <2>1
  <2>3. plan' \in [Plan -> PlanRow] /\ plan'[p] = row /\ \A q \in Plan \ {p} : plan'[q] = plan[q]
    BY <2>2, PlanTyped, Zenon
  <2>4. /\ row.stage = "selecting" /\ row.frozen = plan[p].frozen /\ row.binding = plan[p].binding
        /\ row.todo \subseteq plan[p].todo /\ row.keep = plan[p].keep
    BY <1>1, <2>1, Rows DEF PlanRow
  <2>5. item' \in [Plan -> [File -> ItemState]]
    BY <1>2 DEF TypeOK
  <2>6. RowsTyped /\ Only(p) /\ Trusting(p) /\ Unfrozen(p) /\ Unfrozen(p)'
    BY <1>1, <1>2, <2>3, <2>4, <2>5 DEF RowsTyped, Only, Trusting, Unfrozen
  <2>7. Chosen(p)'
    BY <1>1, <1>2, <2>3, <2>4 DEF Chosen
  <2> QED BY <2>6, <2>7
<1>3. CASE \E keep \in Copies[g] :
               /\ plan' = [plan EXCEPT ![p].todo = @ \ {g}, ![p].keep[g] = keep]
               /\ item' = [item EXCEPT ![p] = [f \in File |-> IF f \in Copies[g] \ {keep} THEN "planned" ELSE @[f]]]
  <2>1. PICK keep \in Copies[g] :
               /\ plan' = [plan EXCEPT ![p].todo = @ \ {g}, ![p].keep[g] = keep]
               /\ item' = [item EXCEPT ![p] = [f \in File |-> IF f \in Copies[g] \ {keep} THEN "planned" ELSE @[f]]]
    BY <1>3
  <2>2. keep \in File
    BY GroupOfCopy
  <2>3. PICK row \in PlanRow : row = [plan[p] EXCEPT !.todo = plan[p].todo \ {g}, !.keep[g] = keep]
    BY <1>1, <2>2, Rows, PlanFields
  <2>4. PICK states : states = [f \in File |-> IF f \in Copies[g] \ {keep} THEN "planned" ELSE item[p][f]]
    OBVIOUS
  <2>5. states \in [File -> ItemState]
    BY <2>4, Rows DEF ItemState
  <2>6. plan' = [plan EXCEPT ![p] = row]
    BY <2>1, <2>3
  <2>7. item' = [item EXCEPT ![p] = states]
    BY <2>1, <2>4 DEF TypeOK
  <2>8. plan' \in [Plan -> PlanRow] /\ plan'[p] = row /\ \A q \in Plan \ {p} : plan'[q] = plan[q]
    BY <2>6, PlanTyped, Zenon
  <2>9. /\ item' \in [Plan -> [File -> ItemState]] /\ item'[p] = states
        /\ \A q \in Plan \ {p} : item'[q] = item[q]
    BY <2>5, <2>7, ItemTyped, Zenon
  <2>10. /\ row.stage = "selecting" /\ row.frozen = plan[p].frozen /\ row.binding = plan[p].binding
         /\ row.todo = plan[p].todo \ {g} /\ row.keep = [plan[p].keep EXCEPT ![g] = keep]
    BY <1>1, <2>3, Rows DEF PlanRow
  <2>11. RowsTyped /\ Only(p) /\ Trusting(p) /\ Unfrozen(p) /\ Unfrozen(p)'
    BY <1>1, <2>8, <2>9, <2>10 DEF RowsTyped, Only, Trusting, Unfrozen
  <2>12. \A f \in File : states[f] \in {"none", "planned"}
    BY <1>1, <2>4 DEF Chosen
  <2>13. ASSUME NEW h \in row.todo, NEW f \in Copies[h]
         PROVE  states[f] = "none"
    <3>1. h \in plan[p].todo /\ h # g /\ h \in Group
      BY <1>1, <2>10
    <3>2. f \in File /\ f \notin Copies[g]
      BY <3>1, GroupOfCopy
    <3> QED BY <1>1, <2>4, <3>1, <3>2 DEF Chosen
  <2>14. ASSUME NEW f \in File, states[f] # "none"
         PROVE  row.keep[GroupOf[f]] \in Copies[GroupOf[f]] \ {f}
    <3>1. plan[p].keep \in [Group -> File \cup {None}] /\ GroupOf[f] \in Group /\ f \in Copies[GroupOf[f]]
      BY Rows, Groups DEF PlanRow
    <3>2. CASE f \in Copies[g] \ {keep}
      <4>1. GroupOf[f] = g
        BY <3>2, GroupOfCopy
      <4> QED BY <2>10, <3>1, <3>2, <4>1
    <3>3. CASE f \notin Copies[g] \ {keep}
      <4>1. item[p][f] # "none"
        BY <2>4, <2>14, <3>3
      <4>2. f \notin Copies[g]
        BY <1>1, <4>1 DEF Chosen
      <4>3. GroupOf[f] # g
        BY <3>1, <4>2
      <4> QED BY <2>10, <3>1, <4>1, <4>3 DEF Chosen
    <3> QED BY <3>2, <3>3
  <2>15. Chosen(p)'
    BY <2>8, <2>9, <2>10, <2>12, <2>13, <2>14 DEF Chosen
  <2> QED BY <2>11, <2>15
<1> QED BY <1>2, <1>3 DEF SelectGroup

LEMMA PersistDraftStep ==
    ASSUME TypeOK, NEW p \in Plan, PersistDraft(p), Chosen(p)
    PROVE  RowsTyped /\ Only(p) /\ (Trusting(p) \/ plan'[p] = NoPlan) /\ Unfrozen(p) /\ Unfrozen(p)' /\ Chosen(p)'
<1>1. /\ plan[p].stage = "selecting" /\ item' = item
      /\ plan' = [plan EXCEPT ![p] = IF Planned(p) = {} THEN NoPlan
                                     ELSE [@ EXCEPT !.stage = "draft", !.snapshot = NoPlan.snapshot]]
  BY DEF PersistDraft
<1>2. item' \in [Plan -> [File -> ItemState]]
  BY <1>1 DEF TypeOK
<1>3. CASE Planned(p) = {}
  <2>1. plan' = [plan EXCEPT ![p] = NoPlan]
    BY <1>1, <1>3
  <2>2. plan' \in [Plan -> PlanRow] /\ plan'[p] = NoPlan /\ \A q \in Plan \ {p} : plan'[q] = plan[q]
    BY <2>1, PlanTyped, BlankRows, Zenon
  <2>3. plan'[p].stage = "none"
    BY <2>2 DEF NoPlan
  <2>4. \A f \in File : item'[p][f] = "none"
    BY <1>1, <1>3 DEF Chosen, Planned
  <2> QED BY <1>1, <1>2, <2>2, <2>3, <2>4 DEF RowsTyped, Only, Unfrozen, Chosen
<1>4. CASE Planned(p) # {}
  <2>1. PICK row \in PlanRow : row = [plan[p] EXCEPT !.stage = "draft", !.snapshot = NoPlan.snapshot]
    BY Rows, PlanFields
  <2>2. plan' = [plan EXCEPT ![p] = row]
    BY <1>1, <1>4, <2>1
  <2>3. plan' \in [Plan -> PlanRow] /\ plan'[p] = row /\ \A q \in Plan \ {p} : plan'[q] = plan[q]
    BY <2>2, PlanTyped, Zenon
  <2>4. /\ row.stage = "draft" /\ row.frozen = plan[p].frozen /\ row.binding = plan[p].binding
        /\ row.keep = plan[p].keep
    BY <2>1, Rows DEF PlanRow
  <2> QED BY <1>1, <1>2, <2>3, <2>4 DEF RowsTyped, Only, Trusting, Unfrozen, Chosen
<1> QED BY <1>3, <1>4

LEMMA FreezeStep ==
    ASSUME TypeOK, NEW p \in Plan, Freeze(p), Chosen(p)
    PROVE  /\ RowsTyped /\ Only(p) /\ Unfrozen(p) /\ Chosen(p)'
           /\ plan'[p].frozen = identity /\ plan'[p].binding = plan[p].binding
<1>1. /\ plan[p].stage = "draft" /\ item' = item
      /\ plan' = [plan EXCEPT ![p].stage = "frozen", ![p].frozen = identity]
  BY DEF Freeze
<1>2. PICK row \in PlanRow : row = [plan[p] EXCEPT !.stage = "frozen", !.frozen = identity]
  <2>1. identity \in [Dir -> Nat]
    BY DEF TypeOK
  <2> QED BY <2>1, Rows, PlanFields
<1>3. plan' = [plan EXCEPT ![p] = row]
  BY <1>1, <1>2
<1>4. plan' \in [Plan -> PlanRow] /\ plan'[p] = row /\ \A q \in Plan \ {p} : plan'[q] = plan[q]
  BY <1>3, PlanTyped, Zenon
<1>5. /\ row.stage = "frozen" /\ row.frozen = identity /\ row.binding = plan[p].binding
      /\ row.keep = plan[p].keep
  BY <1>2, Rows DEF PlanRow
<1>6. item' \in [Plan -> [File -> ItemState]]
  BY <1>1 DEF TypeOK
<1> QED BY <1>1, <1>4, <1>5, <1>6 DEF RowsTyped, Only, Unfrozen, Chosen

(* Writes of a frozen plan's stage and of the states of its items.         *)
LEMMA Restaged ==
    ASSUME TypeOK, NEW p \in Plan, ~Unfrozen(p), NEW s \in Stages \ {"none", "selecting", "draft"},
           NEW states \in [File -> ItemState], \A f \in File : states[f] = "none" <=> item[p][f] = "none",
           plan' = [plan EXCEPT ![p].stage = s], item' = [item EXCEPT ![p] = states]
    PROVE  RowsTyped /\ Only(p) /\ Trusting(p) /\ Kept(p)
<1>1. PICK row \in PlanRow : row = [plan[p] EXCEPT !.stage = s]
  BY Rows, PlanFields
<1>2. plan' = [plan EXCEPT ![p] = row]
  BY <1>1
<1>3. plan' \in [Plan -> PlanRow] /\ plan'[p] = row /\ \A q \in Plan \ {p} : plan'[q] = plan[q]
  <2>1. /\ [plan EXCEPT ![p] = row] \in [Plan -> PlanRow] /\ [plan EXCEPT ![p] = row][p] = row
        /\ \A q \in Plan \ {p} : [plan EXCEPT ![p] = row][q] = plan[q]
    BY PlanTyped
  <2> QED BY <1>2, <2>1, Zenon
<1>4. /\ row.stage = s /\ row.frozen = plan[p].frozen /\ row.binding = plan[p].binding
      /\ row.keep = plan[p].keep /\ row.recursive = plan[p].recursive
  BY <1>1, Rows DEF PlanRow
<1>5. /\ item' \in [Plan -> [File -> ItemState]] /\ item'[p] = states
      /\ \A q \in Plan \ {p} : item'[q] = item[q]
  BY ItemTyped, Zenon
<1> QED BY <1>3, <1>4, <1>5 DEF RowsTyped, Only, Trusting, Kept, Unfrozen

LEMMA Unstaged ==
    ASSUME TypeOK, NEW p \in Plan, plan' = plan,
           NEW states \in [File -> ItemState], \A f \in File : states[f] = "none" <=> item[p][f] = "none",
           item' = [item EXCEPT ![p] = states]
    PROVE  RowsTyped /\ Only(p) /\ Trusting(p) /\ Kept(p)
<1>1. /\ item' \in [Plan -> [File -> ItemState]] /\ item'[p] = states
      /\ \A q \in Plan \ {p} : item'[q] = item[q]
  BY ItemTyped, Zenon
<1> QED BY <1>1 DEF RowsTyped, Only, Trusting, Kept, Unfrozen, TypeOK

LEMMA Unwritten ==
    ASSUME TypeOK, UNCHANGED rows
    PROVE  RowsTyped /\ \A p \in Plan : Only(p) /\ Trusting(p) /\ Kept(p)
BY DEF rows, RowsTyped, Only, Trusting, Kept, Unfrozen, TypeOK

LEMMA ValidateStep ==
    ASSUME TypeOK, NEW p \in Plan, Validate(p)
    PROVE  RowsTyped /\ Only(p) /\ Trusting(p) /\ Kept(p) /\ ~Unfrozen(p)
<1>1. PICK sound \in BOOLEAN :
          /\ plan' = [plan EXCEPT ![p].stage = IF sound THEN "ready" ELSE "stale"]
          /\ item' = [item EXCEPT ![p] = [f \in File |->
                 IF sound /\ f \in {x \in File : item[p][x] \in {"planned", "failed", "skipped"}} THEN "planned" ELSE @[f]]]
          /\ plan[p].stage \in {"frozen", "ready", "partial"}
  BY DEF Validate
<1>2. PICK states : states = [f \in File |->
          IF sound /\ f \in {x \in File : item[p][x] \in {"planned", "failed", "skipped"}} THEN "planned" ELSE item[p][f]]
  OBVIOUS
<1>3. states \in [File -> ItemState] /\ \A f \in File : states[f] = "none" <=> item[p][f] = "none"
  BY <1>2, Rows DEF ItemState
<1>4. item' = [item EXCEPT ![p] = states]
  BY <1>1, <1>2 DEF TypeOK
<1>5. PICK s \in Stages \ {"none", "selecting", "draft"} : s = IF sound THEN "ready" ELSE "stale"
  BY DEF Stages
<1>6. ~Unfrozen(p)
  BY <1>1 DEF Unfrozen
<1> QED BY <1>1, <1>3, <1>4, <1>5, <1>6, Restaged

LEMMA OnlyOne ==
    ASSUME NEW p \in Plan, Only(p)
    PROVE  /\ Kept(p) => \A q \in Plan : Kept(q)
           /\ Trusting(p) => \A q \in Plan : Trusting(q)
<1>1. ASSUME NEW q \in Plan \ {p}
      PROVE  Kept(q) /\ Trusting(q)
  BY <1>1 DEF Only, Kept, Trusting, Unfrozen
<1> QED BY <1>1

-----------------------------------------------------------------------------
(* What a step does to the locals: it writes those of one worker, and      *)
(* notes for the others what it took.                                      *)
PCs == {"idle", "item", "fence", "look", "guard", "protect", "check", "take",
        "skipped", "failed", "capture", "record"}
SameWork(w) ==
    worker'[w].pc = worker[w].pc /\ worker'[w].plan = worker[w].plan /\ worker'[w].file = worker[w].file
Carried(w) == SameWork(w) /\ worker'[w].caught = worker[w].caught /\ worker[w].gone \subseteq worker'[w].gone
StepTyped(w) ==
    /\ worker' \in [Worker -> WorkerRow]
    /\ \A v \in Worker \ {w} : Carried(v)
Resting(w, p) ==
    /\ worker'[w].pc \in {"idle", "item"} /\ (worker'[w].pc = "item" => worker'[w].plan = p /\ owner = w)
    /\ \A d \in Dir : worker'[w].caught[d] = 0
Going(w, pc) ==
    worker'[w].pc = pc /\ worker'[w].plan = worker[w].plan /\ worker'[w].file = worker[w].file

LEMMA Unmoved == ASSUME NEW w \in Worker, worker'[w] = worker[w] PROVE Carried(w)
BY DEF Carried, SameWork

LEMMA Rewritten ==
    ASSUME TypeOK, NEW w \in Worker, NEW row \in WorkerRow, worker' = [worker EXCEPT ![w] = row]
    PROVE  StepTyped(w) /\ worker'[w] = row
BY WorkerTyped, Unmoved DEF StepTyped

LEMMA StopStep ==
    ASSUME TypeOK, NEW w \in Worker, NEW p, Stop(w)
    PROVE  StepTyped(w) /\ Resting(w, p) /\ worker'[w].pc = "idle"
<1>1. StepTyped(w) /\ worker'[w] = Idle
  BY BlankRows, Rewritten DEF Stop
<1> QED BY <1>1 DEF Idle, Resting

LEMMA NextItemStep ==
    ASSUME TypeOK, NEW w \in Worker, NEW p \in Plan, NextItem(w, p), owner = w
    PROVE  StepTyped(w) /\ Resting(w, p) /\ worker'[w].pc = "item"
<1>1. PICK row : row = [Idle EXCEPT !.pc = "item", !.plan = p]
  OBVIOUS
<1>2. row \in WorkerRow /\ row.pc = "item" /\ row.plan = p /\ row.caught = [d \in Dir |-> 0]
  BY <1>1 DEF Idle, WorkerRow
<1>3. StepTyped(w) /\ worker'[w] = row
  BY <1>1, <1>2, Rewritten DEF NextItem
<1> QED BY <1>2, <1>3 DEF Resting

LEMMA PCStep ==
    ASSUME TypeOK, NEW w \in Worker, NEW pc \in PCs, Step(w, pc)
    PROVE  /\ StepTyped(w) /\ Going(w, pc)
           /\ worker'[w].caught = worker[w].caught /\ worker'[w].gone = worker[w].gone
<1>1. PICK row : row = [worker[w] EXCEPT !.pc = pc]
  OBVIOUS
<1>2. /\ row \in WorkerRow /\ row.pc = pc /\ row.plan = worker[w].plan /\ row.file = worker[w].file
      /\ row.caught = worker[w].caught /\ row.gone = worker[w].gone
  BY <1>1, Rows DEF WorkerRow, PCs
<1>3. worker' = [worker EXCEPT ![w] = row]
  BY <1>1 DEF Step
<1>4. StepTyped(w) /\ worker'[w] = row
  BY <1>2, <1>3, Rewritten
<1> QED BY <1>2, <1>4 DEF Going

LEMMA BeginStep ==
    ASSUME TypeOK, NEW w \in Worker, NEW p \in Plan, Begin(w, p)
    PROVE  /\ RowsTyped /\ Only(p) /\ Trusting(p) /\ Kept(p) /\ ~Unfrozen(p)
           /\ StepTyped(w) /\ (worker' = worker \/ Resting(w, p))
<1> DEFINE settled == [f \in File |-> Reconciled(p, f)]
           stale == {f \in File : settled[f] = "planned" /\ ~Fresh(p, f)}
<1>1. /\ plan[p].stage \in {"ready", "partial", "executing"}
      /\ item' = [item EXCEPT ![p] = [f \in File |-> IF f \in stale THEN "failed" ELSE settled[f]]]
      /\ \/ plan' = [plan EXCEPT ![p].stage = "executing"] /\ NextItem(w, p)
         \/ plan' = [plan EXCEPT ![p].stage = "partial"] /\ worker' = worker
         \/ plan' = [plan EXCEPT ![p].stage = "stale"] /\ worker' = worker
      /\ owner = w
  BY DEF Begin
<1>2. \A f \in File : settled[f] \in ItemState /\ (settled[f] = "none" <=> item[p][f] = "none")
  BY Rows DEF Reconciled, ItemState
<1>3. PICK states : states = [f \in File |-> IF f \in stale THEN "failed" ELSE settled[f]]
  OBVIOUS
<1>4. states \in [File -> ItemState] /\ \A f \in File : states[f] = "none" <=> item[p][f] = "none"
  BY <1>2, <1>3 DEF ItemState
<1>5. ~Unfrozen(p) /\ item' = [item EXCEPT ![p] = states]
  BY <1>1, <1>3 DEF Unfrozen
<1>6. PICK s \in {"executing", "partial", "stale"} : plan' = [plan EXCEPT ![p].stage = s]
  BY <1>1
<1>7. s \in Stages \ {"none", "selecting", "draft"}
  BY DEF Stages
<1>8. RowsTyped /\ Only(p) /\ Trusting(p) /\ Kept(p)
  BY <1>4, <1>5, <1>6, <1>7, Restaged
<1>9. StepTyped(w) /\ (worker' = worker \/ Resting(w, p))
  <2>1. CASE NextItem(w, p)
    BY <1>1, <2>1, NextItemStep
  <2>2. CASE worker' = worker
    BY <2>2, Unmoved DEF TypeOK, StepTyped
  <2> QED BY <1>1, <2>1, <2>2
<1> QED BY <1>5, <1>8, <1>9

-----------------------------------------------------------------------------
(* The steps of a worker at work on a plan.                                *)

LEMMA ItemSet ==
    ASSUME TypeOK, NEW p \in Plan, NEW f \in File, item[p][f] # "none", NEW s \in ItemState \ {"none"}
    PROVE  \E states \in [File -> ItemState] :
              /\ [item EXCEPT ![p][f] = s] = [item EXCEPT ![p] = states]
              /\ \A x \in File : states[x] = "none" <=> item[p][x] = "none"
<1>1. PICK states : states = [item[p] EXCEPT ![f] = s]
  OBVIOUS
<1>2. states \in [File -> ItemState] /\ \A x \in File : states[x] = "none" <=> item[p][x] = "none"
  BY <1>1, Rows
<1>3. [item EXCEPT ![p][f] = s] = [item EXCEPT ![p] = states]
  BY <1>1
<1> QED BY <1>2, <1>3

LEMMA LeaseLostStep ==
    ASSUME TypeOK, NEW w \in Worker, NEW p \in Plan, LeaseLost(w)
    PROVE  /\ RowsTyped /\ Only(p) /\ Trusting(p) /\ Kept(p)
           /\ StepTyped(w) /\ Resting(w, p)
BY StopStep, Unwritten DEF LeaseLost

LEMMA FailItemStep ==
    ASSUME TypeOK, NEW w \in Worker, NEW p \in Plan, ~Unfrozen(p), NEW f \in File, item[p][f] # "none",
           FailItem(w, p, f)
    PROVE  /\ RowsTyped /\ Only(p) /\ Trusting(p) /\ Kept(p)
           /\ StepTyped(w) /\ Resting(w, p)
<1>1. PICK states \in [File -> ItemState] :
          /\ [item EXCEPT ![p][f] = "failed"] = [item EXCEPT ![p] = states]
          /\ \A x \in File : states[x] = "none" <=> item[p][x] = "none"
  <2>1. "failed" \in ItemState \ {"none"}
    BY DEF ItemState
  <2> QED BY <2>1, ItemSet, Zenon
<1>2. item' = [item EXCEPT ![p] = states]
  BY <1>1 DEF FailItem
<1>3. PICK s \in {"partial", "stale"} : plan' = [plan EXCEPT ![p].stage = s]
  BY DEF FailItem
<1>4. s \in Stages \ {"none", "selecting", "draft"}
  BY DEF Stages
<1>5. RowsTyped /\ Only(p) /\ Trusting(p) /\ Kept(p)
  BY <1>1, <1>2, <1>3, <1>4, Restaged
<1>6. StepTyped(w) /\ Resting(w, p)
  BY StopStep DEF FailItem
<1> QED BY <1>5, <1>6

LEMMA IntendStep ==
    ASSUME TypeOK, NEW w \in Worker, NEW p \in Plan, ~Unfrozen(p), p = worker[w].plan, Intend(w, p)
    PROVE  /\ RowsTyped /\ Only(p) /\ Trusting(p) /\ Kept(p) /\ StepTyped(w)
           /\ \/ Resting(w, p)
              \/ /\ worker'[w].pc = "fence" /\ worker'[w].plan = p
                 /\ worker'[w].file \in File /\ item[p][worker'[w].file] # "none"
                 /\ worker'[w].caught = worker[w].caught
<1>1. CASE LeaseLost(w)
  BY <1>1, LeaseLostStep
<1>2. ASSUME NEW f \in Planned(p), FailItem(w, p, f)
      PROVE  RowsTyped /\ Only(p) /\ Trusting(p) /\ Kept(p) /\ StepTyped(w) /\ Resting(w, p)
  <2>1. f \in File /\ item[p][f] # "none"
    BY DEF Planned
  <2> QED BY <1>2, <2>1, FailItemStep
<1>3. ASSUME NEW f \in Planned(p), item' = [item EXCEPT ![p][f] = "executing"], plan' = plan,
             worker' = [worker EXCEPT ![w].pc = "fence", ![w].file = f]
      PROVE  /\ RowsTyped /\ Only(p) /\ Trusting(p) /\ Kept(p) /\ StepTyped(w)
             /\ worker'[w].pc = "fence" /\ worker'[w].plan = p
             /\ worker'[w].file \in File /\ item[p][worker'[w].file] # "none"
             /\ worker'[w].caught = worker[w].caught
  <2>1. f \in File /\ item[p][f] # "none"
    BY DEF Planned
  <2>2. PICK states \in [File -> ItemState] :
            /\ [item EXCEPT ![p][f] = "executing"] = [item EXCEPT ![p] = states]
            /\ \A x \in File : states[x] = "none" <=> item[p][x] = "none"
    <3>1. "executing" \in ItemState \ {"none"}
      BY DEF ItemState
    <3> QED BY <2>1, <3>1, ItemSet, ZenonT(40)
  <2>3. item' = [item EXCEPT ![p] = states]
    BY <1>3, <2>2
  <2>4. RowsTyped /\ Only(p) /\ Trusting(p) /\ Kept(p)
    BY <1>3, <2>2, <2>3, Unstaged, ZenonT(40)
  <2>5. PICK row : row = [worker[w] EXCEPT !.pc = "fence", !.file = f]
    OBVIOUS
  <2>6. /\ row \in WorkerRow /\ row.pc = "fence" /\ row.plan = p /\ row.file = f
        /\ row.caught = worker[w].caught
    BY <2>1, <2>5, Rows DEF WorkerRow
  <2>7. worker' = [worker EXCEPT ![w] = row]
    BY <1>3, <2>5
  <2>8. StepTyped(w) /\ worker'[w] = row
    BY <2>6, <2>7, Rewritten
  <2> QED BY <2>1, <2>4, <2>6, <2>8
<1>4. CASE Stop(w) /\ item' = item /\ plan' = [plan EXCEPT ![p].stage = Verdict({item[p][f] : f \in File} \ {"none"})]
  <2>1. PICK s \in {"completed", "partial", "stale"} : plan' = [plan EXCEPT ![p].stage = s]
    BY <1>4 DEF Verdict
  <2>2. s \in Stages \ {"none", "selecting", "draft"}
    BY DEF Stages
  <2>3. PICK states \in [File -> ItemState] : states = item[p]
    BY Rows
  <2>4. item' = [item EXCEPT ![p] = states]
    BY <1>4, <2>3 DEF TypeOK
  <2>5. \A x \in File : states[x] = "none" <=> item[p][x] = "none"
    BY <2>3
  <2>6. RowsTyped /\ Only(p) /\ Trusting(p) /\ Kept(p)
    BY <2>1, <2>2, <2>4, <2>5, Restaged
  <2> QED BY <1>4, <2>6, StopStep
<1>5. \/ LeaseLost(w)
      \/ \E f \in Planned(p) : FailItem(w, p, f)
      \/ \E f \in Planned(p) : /\ item' = [item EXCEPT ![p][f] = "executing"] /\ plan' = plan
                               /\ worker' = [worker EXCEPT ![w].pc = "fence", ![w].file = f]
      \/ /\ Stop(w) /\ item' = item
         /\ plan' = [plan EXCEPT ![p].stage = Verdict({item[p][f] : f \in File} \ {"none"})]
  BY DEF Intend
<1> QED BY <1>1, <1>2, <1>3, <1>4, <1>5

LEMMA FenceStep ==
    ASSUME TypeOK, NEW w \in Worker, NEW p \in Plan, NEW next \in PCs, Fence(w, next)
    PROVE  /\ RowsTyped /\ Only(p) /\ Trusting(p) /\ Kept(p) /\ StepTyped(w)
           /\ Resting(w, p) \/ (Going(w, next) /\ worker'[w].caught = worker[w].caught)
<1>1. CASE LeaseLost(w)
  BY <1>1, LeaseLostStep
<1>2. CASE Step(w, next) /\ UNCHANGED rows
  BY <1>2, PCStep, Unwritten
<1> QED BY <1>1, <1>2 DEF Fence

LEMMA RefuseStep ==
    ASSUME TypeOK, NEW w \in Worker, NEW p \in Plan, ~Unfrozen(p), NEW f \in File, item[p][f] # "none",
           Refuse(w, p, f)
    PROVE  /\ RowsTyped /\ Only(p) /\ Trusting(p) /\ Kept(p)
           /\ StepTyped(w) /\ Resting(w, p)
<1>1. CASE LeaseLost(w)
  BY <1>1, LeaseLostStep
<1>2. CASE FailItem(w, p, f)
  BY <1>2, FailItemStep
<1> QED BY <1>1, <1>2 DEF Refuse

LEMMA LookStep ==
    ASSUME TypeOK, NEW w \in Worker, NEW p \in Plan, ~Unfrozen(p), p = worker[w].plan,
           NEW f \in File, item[p][f] # "none", Look(w, p, f)
    PROVE  /\ RowsTyped /\ Only(p) /\ Trusting(p) /\ Kept(p) /\ StepTyped(w)
           /\ \/ Resting(w, p)
              \/ Going(w, "guard") /\ worker'[w].caught = worker[w].caught
              \/ Going(w, "check") /\ worker'[w].caught = worker[w].caught /\ ~plan[p].recursive
<1>1. CASE Refuse(w, p, f)
  BY <1>1, RefuseStep
<1>2. PICK pc : pc = IF plan[p].recursive THEN "guard" ELSE "check"
  OBVIOUS
<1>3. CASE Step(w, pc) /\ UNCHANGED rows
  <2>1. pc \in PCs
    BY <1>2 DEF PCs
  <2> QED BY <1>2, <1>3, <2>1, PCStep, Unwritten
<1> QED BY <1>1, <1>2, <1>3 DEF Look

LEMMA ProtectStep ==
    ASSUME TypeOK, NEW w \in Worker, NEW p \in Plan, ~Unfrozen(p), p = worker[w].plan,
           NEW f \in File, item[p][f] # "none", Protect(w, p, f)
    PROVE  /\ RowsTyped /\ Only(p) /\ Trusting(p) /\ Kept(p) /\ StepTyped(w)
           /\ \/ Resting(w, p)
              \/ Going(w, "check") /\ worker'[w].caught = worker[w].caught /\ SafeNow(p, f)
<1>1. CASE Refuse(w, p, f)
  BY <1>1, RefuseStep
<1>2. CASE SafeNow(p, f) /\ Step(w, "check") /\ UNCHANGED rows
  <2>1. "check" \in PCs
    BY DEF PCs
  <2> QED BY <1>2, <2>1, PCStep, Unwritten
<1> QED BY <1>1, <1>2 DEF Protect

LEMMA CheckStep ==
    ASSUME TypeOK, NEW w \in Worker, NEW p \in Plan, p = worker[w].plan, NEW f \in File, Check(w, p, f)
    PROVE  /\ RowsTyped /\ Only(p) /\ Trusting(p) /\ Kept(p) /\ StepTyped(w)
           /\ worker'[w].caught = worker[w].caught
           /\ \/ Going(w, "skipped")
              \/ /\ Going(w, "take") /\ ~(Count(Top[f]) <= 1) /\ Fresh(p, f)
                 /\ plan[p].recursive => worker'[w].gone = worker[w].gone
<1>1. RowsTyped /\ Only(p) /\ Trusting(p) /\ Kept(p)
  BY Unwritten DEF Check
<1>2. CASE Step(w, "skipped")
  <2>1. "skipped" \in PCs
    BY DEF PCs
  <2> QED BY <1>1, <1>2, <2>1, PCStep
<1>3. CASE /\ ~(Count(Top[f]) <= 1 \/ ~Fresh(p, f))
           /\ Passed(w, p)
  <2>1. PICK gone \in SUBSET (Dir \cup Group) : gone = IF plan[p].recursive THEN worker[w].gone ELSE {}
    BY Rows DEF WorkerRow
  <2>2. PICK row : row = [worker[w] EXCEPT !.pc = "take", !.gone = gone]
    OBVIOUS
  <2>3. /\ row \in WorkerRow /\ row.pc = "take" /\ row.plan = p /\ row.file = worker[w].file
        /\ row.caught = worker[w].caught /\ row.gone = gone
    BY <2>2, Rows DEF WorkerRow
  <2>4. worker' = [worker EXCEPT ![w] = row]
    BY <1>3, <2>1, <2>2 DEF Passed
  <2>5. StepTyped(w) /\ worker'[w] = row
    BY <2>3, <2>4, Rewritten
  <2> QED BY <1>1, <1>3, <2>1, <2>3, <2>5 DEF Going
<1> QED BY <1>2, <1>3 DEF Check

LEMMA SettleStep ==
    ASSUME TypeOK, NEW w \in Worker, NEW p \in Plan, NEW f \in File, item[p][f] # "none",
           worker[w].pc \in {"skipped", "failed"}, Settle(w, p, f)
    PROVE  RowsTyped /\ Only(p) /\ Trusting(p) /\ Kept(p) /\ StepTyped(w) /\ Resting(w, p)
<1>1. CASE LeaseLost(w)
  BY <1>1, LeaseLostStep
<1>2. CASE owner = w /\ item' = [item EXCEPT ![p][f] = worker[w].pc] /\ NextItem(w, p) /\ plan' = plan
  <2>1. PICK s \in ItemState \ {"none"} : s = worker[w].pc
    BY DEF ItemState
  <2>2. PICK states \in [File -> ItemState] :
            /\ [item EXCEPT ![p][f] = s] = [item EXCEPT ![p] = states]
            /\ \A x \in File : states[x] = "none" <=> item[p][x] = "none"
    BY ItemSet, ZenonT(60)
  <2>3. item' = [item EXCEPT ![p] = states]
    BY <1>2, <2>1, <2>2
  <2> QED BY <1>2, <2>2, <2>3, Unstaged, NextItemStep
<1> QED BY <1>1, <1>2 DEF Settle

(* What was taken is noted for every worker that had looked before.        *)
Noting(w, sources) ==
    \A v \in Worker \ {w} : worker[v].pc \in {"check", "take"} => sources \subseteq worker'[v].gone

LEMMA SourcesTyped == \A f \in File : Sources(f) \in SUBSET (Dir \cup Group)
BY Groups, LastFileAssumption DEF Sources

LEMMA BehindStep ==
    ASSUME TypeOK, NEW v \in Worker, NEW sources \in SUBSET (Dir \cup Group),
           worker'[v] = TakenBehind(v, sources)
    PROVE  /\ worker'[v] \in WorkerRow /\ Carried(v)
           /\ worker[v].pc \in {"check", "take"} => sources \subseteq worker'[v].gone
<1>1. worker[v] \in WorkerRow
  BY Rows
<1>2. CASE worker[v].pc \in {"check", "take"}
  <2>1. worker'[v] = [worker[v] EXCEPT !.gone = worker[v].gone \cup sources]
    BY <1>2 DEF TakenBehind
  <2> QED BY <1>1, <1>2, <2>1 DEF WorkerRow, Carried, SameWork
<1>3. CASE worker[v].pc \notin {"check", "take"}
  BY <1>1, <1>3 DEF TakenBehind, Carried, SameWork
<1> QED BY <1>2, <1>3

(* A file goes to the quarantine of the plan.                              *)
Relocates(w, f) ==
    /\ place[f] = "home" /\ place' = [place EXCEPT ![f] = worker[w].plan]
    /\ \E drifted \in SUBSET Dir :
           identity' = [d \in Dir |-> IF d \in drifted THEN identity[d] + 1 ELSE identity[d]]

LEMMA TakeStep ==
    ASSUME TypeOK, NEW w \in Worker, NEW p \in Plan, p = worker[w].plan, NEW f \in File, Take(w, p, f)
    PROVE  /\ RowsTyped /\ Only(p) /\ Trusting(p) /\ Kept(p) /\ StepTyped(w) /\ extra' = extra
           /\ worker'[w].caught = worker[w].caught
           /\ \/ Going(w, "failed") /\ UNCHANGED files
              \/ Going(w, "capture") /\ Noting(w, Sources(f)) /\ Relocates(w, f)
<1>1. CASE Step(w, "failed") /\ UNCHANGED <<files, rows>>
  <2>1. "failed" \in PCs
    BY DEF PCs
  <2>2. UNCHANGED rows /\ UNCHANGED files
    BY <1>1
  <2> QED BY <1>1, <2>1, <2>2, PCStep, Unwritten DEF files
<1>2. CASE /\ place[f] = "home" /\ place' = [place EXCEPT ![f] = p]
           /\ \E drifted \in {{}, Chain[f]} :
                  identity' = [d \in Dir |-> IF d \in drifted THEN identity[d] + 1 ELSE identity[d]]
           /\ worker' = [v \in Worker |-> IF v = w THEN [worker[w] EXCEPT !.pc = "capture", !.gone = {}]
                                          ELSE TakenBehind(v, Sources(f))]
           /\ UNCHANGED <<extra, rows>>
  <2>1. worker'[w] = [worker[w] EXCEPT !.pc = "capture", !.gone = {}]
    BY <1>2
  <2>2. /\ worker'[w] \in WorkerRow /\ worker'[w].pc = "capture" /\ worker'[w].plan = p
        /\ worker'[w].file = worker[w].file /\ worker'[w].caught = worker[w].caught
    BY <2>1, Rows DEF WorkerRow
  <2>3. ASSUME NEW v \in Worker \ {w}
        PROVE  /\ worker'[v] \in WorkerRow /\ Carried(v)
               /\ worker[v].pc \in {"check", "take"} => Sources(f) \subseteq worker'[v].gone
    <3>1. worker'[v] = TakenBehind(v, Sources(f))
      BY <1>2
    <3>2. Sources(f) \in SUBSET (Dir \cup Group)
      BY SourcesTyped
    <3> QED BY <3>1, <3>2, BehindStep
  <2>4. worker' = [v \in Worker |-> worker'[v]]
    BY <1>2
  <2>5. \A v \in Worker : worker'[v] \in WorkerRow
    BY <2>2, <2>3
  <2>6. StepTyped(w) /\ Noting(w, Sources(f))
    BY <2>3, <2>4, <2>5 DEF StepTyped, Noting
  <2>7. UNCHANGED rows /\ extra' = extra
    BY <1>2
  <2>8. \E drifted \in SUBSET Dir :
            identity' = [d \in Dir |-> IF d \in drifted THEN identity[d] + 1 ELSE identity[d]]
    BY <1>2, Chains
  <2> QED BY <1>2, <2>2, <2>6, <2>7, <2>8, Unwritten DEF Going, Relocates
<1> QED BY <1>1, <1>2 DEF Take

LEMMA CaptureStep ==
    ASSUME TypeOK, NEW w \in Worker, NEW p \in Plan, ~Unfrozen(p), p = worker[w].plan,
           NEW f \in File, item[p][f] # "none", Capture(w, p, f)
    PROVE  /\ RowsTyped /\ Only(p) /\ Trusting(p) /\ Kept(p) /\ StepTyped(w)
           /\ \/ Resting(w, p)
              \/ Going(w, "record") /\ worker'[w].caught = identity
<1>1. CASE Refuse(w, p, f)
  BY <1>1, RefuseStep
<1>2. CASE worker' = [worker EXCEPT ![w].pc = "record", ![w].caught = identity] /\ UNCHANGED rows
  <2>1. PICK row : row = [worker[w] EXCEPT !.pc = "record", !.caught = identity]
    OBVIOUS
  <2>2. /\ row \in WorkerRow /\ row.pc = "record" /\ row.plan = p /\ row.file = worker[w].file
        /\ row.caught = identity
    BY <2>1, Rows DEF WorkerRow, TypeOK
  <2>3. worker' = [worker EXCEPT ![w] = row]
    BY <1>2, <2>1
  <2>4. StepTyped(w) /\ worker'[w] = row
    BY <2>2, <2>3, Rewritten
  <2> QED BY <1>2, <2>2, <2>4, Unwritten DEF Going
<1> QED BY <1>1, <1>2 DEF Capture

(* The one step that changes what a frozen plan trusts.                    *)
Bind(w, p, f) ==
    /\ plan'[p].frozen = plan[p].frozen
    /\ plan'[p].binding = [d \in Dir |->
           IF plan[p].recursive /\ d \in Chain[f] THEN [id |-> worker[w].caught[d], after |-> f]
           ELSE plan[p].binding[d]]

LEMMA RecordStep ==
    ASSUME TypeOK, NEW w \in Worker, NEW p \in Plan, ~Unfrozen(p), p = worker[w].plan,
           NEW f \in File, item[p][f] # "none", Record(w, p, f)
    PROVE  /\ RowsTyped /\ Only(p) /\ Kept(p) /\ StepTyped(w) /\ Resting(w, p)
           /\ Trusting(p) \/ Bind(w, p, f)
<1>1. CASE LeaseLost(w)
  BY <1>1, LeaseLostStep
<1>2. CASE /\ owner = w /\ item' = [item EXCEPT ![p][f] = "completed"] /\ NextItem(w, p)
           /\ plan' = [plan EXCEPT ![p].binding = [d \in Dir |->
                  IF plan[p].recursive /\ d \in Chain[f] THEN [id |-> worker[w].caught[d], after |-> f] ELSE @[d]]]
  <2>1. PICK binding : binding = [d \in Dir |->
            IF plan[p].recursive /\ d \in Chain[f] THEN [id |-> worker[w].caught[d], after |-> f]
            ELSE plan[p].binding[d]]
    OBVIOUS
  <2>2. binding \in [Dir -> [id: Nat, after: File \cup {None}]]
    BY <2>1, Rows DEF PlanRow, WorkerRow
  <2>3. PICK row \in PlanRow : row = [plan[p] EXCEPT !.binding = binding]
    BY <2>2, Rows, PlanFields
  <2>4. plan' = [plan EXCEPT ![p] = row]
    BY <1>2, <2>1, <2>3
  <2>5. plan' \in [Plan -> PlanRow] /\ plan'[p] = row /\ \A q \in Plan \ {p} : plan'[q] = plan[q]
    <3>1. /\ [plan EXCEPT ![p] = row] \in [Plan -> PlanRow] /\ [plan EXCEPT ![p] = row][p] = row
          /\ \A q \in Plan \ {p} : [plan EXCEPT ![p] = row][q] = plan[q]
      BY PlanTyped
    <3> QED BY <2>4, <3>1, Zenon
  <2>6. /\ row.stage = plan[p].stage /\ row.frozen = plan[p].frozen /\ row.binding = binding
        /\ row.keep = plan[p].keep /\ row.recursive = plan[p].recursive
    BY <2>3, Rows DEF PlanRow
  <2>7. "completed" \in ItemState \ {"none"}
    BY DEF ItemState
  <2>8. PICK states \in [File -> ItemState] :
            /\ [item EXCEPT ![p][f] = "completed"] = [item EXCEPT ![p] = states]
            /\ \A x \in File : states[x] = "none" <=> item[p][x] = "none"
    BY <2>7, ItemSet, Zenon
  <2>9. item' = [item EXCEPT ![p] = states]
    BY <1>2, <2>8
  <2>10. /\ item' \in [Plan -> [File -> ItemState]] /\ item'[p] = states
         /\ \A q \in Plan \ {p} : item'[q] = item[q]
    BY <2>9, ItemTyped, Zenon
  <2>11. RowsTyped /\ Only(p) /\ Kept(p)
    BY <2>5, <2>6, <2>8, <2>10 DEF RowsTyped, Only, Kept, Unfrozen
  <2>12. Bind(w, p, f)
    BY <2>1, <2>5, <2>6 DEF Bind
  <2> QED BY <1>2, <2>11, <2>12, NextItemStep
<1> QED BY <1>1, <1>2 DEF Record

(* Any step of a worker at work.                                           *)
Rests(w, p) ==
    /\ Resting(w, p) /\ UNCHANGED files
    /\ Trusting(p) \/ (worker[w].pc = "record" /\ Bind(w, p, worker[w].file))
Turns(w, p, f) ==
    /\ Trusting(p) /\ UNCHANGED files /\ worker'[w].caught = worker[w].caught
    /\ \/ /\ worker'[w].pc = "fence" /\ worker'[w].plan = p
          /\ worker'[w].file \in File /\ item[p][worker'[w].file] # "none"
       \/ worker[w].pc # "item" /\ \E pc \in {"look", "guard", "protect", "skipped", "failed"} : Going(w, pc)
       \/ worker[w].pc # "item" /\ Going(w, "check") /\ (plan[p].recursive => SafeNow(p, f))
       \/ /\ worker[w].pc = "check" /\ Going(w, "take") /\ ~(Count(Top[f]) <= 1) /\ Fresh(p, f)
          /\ plan[p].recursive => worker'[w].gone = worker[w].gone
Captures(w, p) ==
    /\ Trusting(p) /\ worker[w].pc = "capture" /\ Going(w, "record")
    /\ UNCHANGED files /\ worker'[w].caught = identity
MovesFile(w, p, f) ==
    /\ Trusting(p) /\ worker[w].pc = "take" /\ Going(w, "capture") /\ worker'[w].caught = worker[w].caught
    /\ extra' = extra /\ Relocates(w, f) /\ Noting(w, Sources(f))

LEMMA WorkingStep ==
    ASSUME TypeOK, NEW w \in Worker, Runs(w), Working(w), NEW p, p = worker[w].plan, NEW f, f = worker[w].file
    PROVE  /\ p \in Plan /\ ~Unfrozen(p) /\ worker[w].pc # "idle"
           /\ worker[w].pc # "item" => f \in File
           /\ RowsTyped /\ Only(p) /\ Kept(p) /\ StepTyped(w)
           /\ UNCHANGED <<owner, replaced, meddles, faults>>
           /\ Rests(w, p) \/ Turns(w, p, f) \/ Captures(w, p) \/ MovesFile(w, p, f)
<1>1. worker[w].pc # "idle"
  BY DEF Working, At
<1>2. p \in Plan /\ ~Unfrozen(p)
  BY <1>1 DEF Runs
<1>3. worker[w].pc # "item" => f \in File /\ item[p][f] # "none"
  BY <1>1 DEF Runs
<1>4. UNCHANGED <<owner, replaced, meddles, faults>>
  BY DEF Working
<1>5. CASE At(w, "item") /\ Intend(w, p) /\ UNCHANGED files
  <2>1. /\ RowsTyped /\ Only(p) /\ Trusting(p) /\ Kept(p) /\ StepTyped(w)
        /\ \/ Resting(w, p)
           \/ /\ worker'[w].pc = "fence" /\ worker'[w].plan = p
              /\ worker'[w].file \in File /\ item[p][worker'[w].file] # "none"
              /\ worker'[w].caught = worker[w].caught
    BY <1>2, <1>5, IntendStep, Zenon
  <2> QED BY <1>1, <1>2, <1>3, <1>4, <1>5, <2>1 DEF Rests, Turns
<1>6. CASE \/ At(w, "fence") /\ Fence(w, "look") /\ UNCHANGED files
           \/ At(w, "guard") /\ Fence(w, "protect") /\ UNCHANGED files
  <2>1. PICK pc \in {"look", "protect"} : Fence(w, pc) /\ worker[w].pc # "item" /\ UNCHANGED files
    BY <1>6 DEF At
  <2>2. pc \in PCs
    BY DEF PCs
  <2>3. /\ RowsTyped /\ Only(p) /\ Trusting(p) /\ Kept(p) /\ StepTyped(w)
        /\ Resting(w, p) \/ (Going(w, pc) /\ worker'[w].caught = worker[w].caught)
    BY <1>2, <2>1, <2>2, FenceStep
  <2> QED BY <1>1, <1>2, <1>3, <1>4, <2>1, <2>3 DEF Rests, Turns
<1>7. CASE At(w, "check") /\ Check(w, p, f) /\ UNCHANGED files
  <2>1. f \in File
    BY <1>3, <1>7 DEF At
  <2>2. /\ RowsTyped /\ Only(p) /\ Trusting(p) /\ Kept(p) /\ StepTyped(w)
        /\ worker'[w].caught = worker[w].caught
        /\ \/ Going(w, "skipped")
           \/ /\ Going(w, "take") /\ ~(Count(Top[f]) <= 1) /\ Fresh(p, f)
              /\ plan[p].recursive => worker'[w].gone = worker[w].gone
    BY <1>2, <1>7, <2>1, CheckStep, Zenon
  <2> QED BY <1>1, <1>2, <1>3, <1>4, <1>7, <2>2 DEF Turns, At
<1>8. CASE (At(w, "skipped") \/ At(w, "failed")) /\ Settle(w, p, f) /\ UNCHANGED files
  <2>1. f \in File /\ item[p][f] # "none" /\ worker[w].pc \in {"skipped", "failed"}
    BY <1>3, <1>8 DEF At
  <2>2. RowsTyped /\ Only(p) /\ Trusting(p) /\ Kept(p) /\ StepTyped(w) /\ Resting(w, p)
    BY <1>2, <1>8, <2>1, SettleStep, Zenon
  <2> QED BY <1>1, <1>2, <1>3, <1>4, <1>8, <2>2 DEF Rests
<1>9. CASE At(w, "take") /\ Take(w, p, f)
  <2>1. f \in File
    BY <1>3, <1>9 DEF At
  <2>2. /\ RowsTyped /\ Only(p) /\ Trusting(p) /\ Kept(p) /\ StepTyped(w) /\ extra' = extra
        /\ worker'[w].caught = worker[w].caught
        /\ \/ Going(w, "failed") /\ UNCHANGED files
           \/ Going(w, "capture") /\ Noting(w, Sources(f)) /\ Relocates(w, f)
    BY <1>2, <1>9, <2>1, TakeStep, Zenon
  <2>3. CASE Going(w, "failed") /\ UNCHANGED files
    BY <1>1, <1>2, <1>3, <1>4, <1>9, <2>2, <2>3 DEF Turns, At
  <2>4. CASE Going(w, "capture")
    BY <1>1, <1>2, <1>3, <1>4, <1>9, <2>2, <2>4 DEF Going, MovesFile, At
  <2> QED BY <2>2, <2>3, <2>4
<1>10. CASE At(w, "capture") /\ Capture(w, p, f) /\ UNCHANGED files
  <2>1. f \in File /\ item[p][f] # "none"
    BY <1>3, <1>10 DEF At
  <2>2. /\ RowsTyped /\ Only(p) /\ Trusting(p) /\ Kept(p) /\ StepTyped(w)
        /\ \/ Resting(w, p)
           \/ Going(w, "record") /\ worker'[w].caught = identity
    BY <1>2, <1>10, <2>1, CaptureStep, Zenon
  <2> QED BY <1>1, <1>2, <1>3, <1>4, <1>10, <2>2 DEF Rests, Captures, At
<1>11. CASE At(w, "record") /\ Record(w, p, f) /\ UNCHANGED files
  <2>1. f \in File /\ item[p][f] # "none"
    BY <1>3, <1>11 DEF At
  <2>2. /\ RowsTyped /\ Only(p) /\ Kept(p) /\ StepTyped(w) /\ Resting(w, p)
        /\ Trusting(p) \/ Bind(w, p, f)
    BY <1>2, <1>11, <2>1, RecordStep, Zenon
  <2> QED BY <1>1, <1>2, <1>3, <1>4, <1>11, <2>2 DEF Rests, At
<1>12. CASE At(w, "look") /\ Look(w, p, f) /\ UNCHANGED files
  <2>1. f \in File /\ item[p][f] # "none"
    BY <1>3, <1>12 DEF At
  <2>2. /\ RowsTyped /\ Only(p) /\ Trusting(p) /\ Kept(p) /\ StepTyped(w)
        /\ \/ Resting(w, p)
           \/ Going(w, "guard") /\ worker'[w].caught = worker[w].caught
           \/ Going(w, "check") /\ worker'[w].caught = worker[w].caught /\ ~plan[p].recursive
    BY <1>2, <1>12, <2>1, LookStep, Zenon
  <2> QED BY <1>1, <1>2, <1>3, <1>4, <1>12, <2>2 DEF Rests, Turns, At
<1>13. CASE At(w, "protect") /\ Protect(w, p, f) /\ UNCHANGED files
  <2>1. f \in File /\ item[p][f] # "none"
    BY <1>3, <1>13 DEF At
  <2>2. /\ RowsTyped /\ Only(p) /\ Trusting(p) /\ Kept(p) /\ StepTyped(w)
        /\ \/ Resting(w, p)
           \/ Going(w, "check") /\ worker'[w].caught = worker[w].caught /\ SafeNow(p, f)
    BY <1>2, <1>13, <2>1, ProtectStep, Zenon
  <2> QED BY <1>1, <1>2, <1>3, <1>4, <1>13, <2>2 DEF Rests, Turns, At
<1> QED BY <1>5, <1>6, <1>7, <1>8, <1>9, <1>10, <1>11, <1>12, <1>13 DEF Working

-----------------------------------------------------------------------------
(* The types, the choice of what is kept, and what workers are at.         *)

LEMMA TakenFromStep ==
    ASSUME TypeOK, NEW sources \in SUBSET (Dir \cup Group), TakenFrom(sources)
    PROVE  /\ worker' \in [Worker -> WorkerRow]
           /\ \A w \in Worker :
                 Carried(w) /\ (worker[w].pc \in {"check", "take"} => sources \subseteq worker'[w].gone)
<1>1. ASSUME NEW w \in Worker
      PROVE  /\ worker'[w] \in WorkerRow /\ Carried(w)
             /\ worker[w].pc \in {"check", "take"} => sources \subseteq worker'[w].gone
  <2>1. worker'[w] = TakenBehind(w, sources)
    BY DEF TakenFrom
  <2> QED BY <2>1, BehindStep
<1>2. worker' = [w \in Worker |-> worker'[w]]
  BY DEF TakenFrom
<1> QED BY <1>1, <1>2

FilesTyped == place' \in [File -> {"home", "gone"} \cup Plan] /\ extra' \in [Dir -> 0..1] /\ identity' \in [Dir -> Nat]

(* What users do.                                                          *)
UserStep ==
    /\ UNCHANGED <<rows, owner, faults>> /\ meddles' \in 0..MaxTroubles /\ FilesTyped
    /\ replaced' \in [Plan -> SUBSET Dir] /\ worker' \in [Worker -> WorkerRow]
    /\ \A w \in Worker : Carried(w)

LEMMA MeddleStep == ASSUME TypeOK, Meddle PROVE UNCHANGED <<rows, owner, faults>> /\ meddles' \in 0..MaxTroubles
BY LastFileAssumption DEF Meddle, Trouble, TypeOK

LEMMA UserSteps ==
    ASSUME TypeOK
    PROVE  /\ \A f \in File : UserRemoves(f) \/ Restore(f) => UserStep
           /\ \A d \in Dir : UserChanges(d) \/ UserReplaces(d) => UserStep
<1>1. ASSUME NEW f \in File, UserRemoves(f)
      PROVE  UserStep
  <2>1. UNCHANGED <<rows, owner, faults>> /\ meddles' \in 0..MaxTroubles
    BY <1>1, MeddleStep DEF UserRemoves
  <2>2. Sources(f) \in SUBSET (Dir \cup Group)
    BY SourcesTyped
  <2>3. TakenFrom(Sources(f))
    BY <1>1 DEF UserRemoves
  <2>4. place' = [place EXCEPT ![f] = "gone"] /\ UNCHANGED <<extra, identity, replaced>>
    BY <1>1 DEF UserRemoves
  <2>5. FilesTyped /\ replaced' \in [Plan -> SUBSET Dir]
    BY <2>4 DEF TypeOK, FilesTyped
  <2> QED BY <2>1, <2>2, <2>3, <2>5, TakenFromStep DEF UserStep
<1>2. ASSUME NEW f \in File, Restore(f)
      PROVE  UserStep
  <2>1. UNCHANGED <<rows, owner, faults>> /\ meddles' \in 0..MaxTroubles
    BY <1>2, MeddleStep DEF Restore
  <2>2. place' = [place EXCEPT ![f] = "home"] /\ UNCHANGED <<extra, identity, worker, replaced>>
    BY <1>2 DEF Restore
  <2>3. FilesTyped /\ replaced' \in [Plan -> SUBSET Dir] /\ worker' \in [Worker -> WorkerRow]
    BY <2>2 DEF TypeOK, FilesTyped
  <2> QED BY <2>1, <2>2, <2>3, Unmoved DEF UserStep
<1>3. ASSUME NEW d \in Dir, UserChanges(d)
      PROVE  UserStep
  <2>1. UNCHANGED <<rows, owner, faults>> /\ meddles' \in 0..MaxTroubles
    BY <1>3, MeddleStep DEF UserChanges
  <2>2. PICK sources \in SUBSET (Dir \cup Group) : sources = IF extra[d] = 1 THEN Above[d] ELSE {}
    BY LastFileAssumption
  <2>3. TakenFrom(sources)
    BY <1>3, <2>2 DEF UserChanges
  <2>4. extra' = [extra EXCEPT ![d] = 1 - @] /\ UNCHANGED <<place, identity, replaced>>
    BY <1>3 DEF UserChanges
  <2>5. extra' \in [Dir -> 0..1]
    BY <2>4 DEF TypeOK
  <2>6. FilesTyped /\ replaced' \in [Plan -> SUBSET Dir]
    BY <2>4, <2>5 DEF TypeOK, FilesTyped
  <2> QED BY <2>1, <2>3, <2>6, TakenFromStep DEF UserStep
<1>4. ASSUME NEW d \in Dir, UserReplaces(d)
      PROVE  UserStep
  <2>1. UNCHANGED <<rows, owner, faults>> /\ meddles' \in 0..MaxTroubles
    BY <1>4, MeddleStep DEF UserReplaces
  <2>2. /\ identity' = [identity EXCEPT ![d] = @ + 1] /\ UNCHANGED <<place, extra, worker>>
        /\ replaced' = [p \in Plan |->
               IF \/ Unfrozen(p)
                  \/ \E w \in Worker : worker[w].plan = p /\ worker[w].pc \in Mutating /\ d \in Chain[worker[w].file]
               THEN replaced[p] ELSE replaced[p] \cup {d}]
    BY <1>4 DEF UserReplaces
  <2>3. identity' \in [Dir -> Nat] /\ replaced' \in [Plan -> SUBSET Dir]
    BY <2>2 DEF TypeOK
  <2>4. FilesTyped /\ worker' \in [Worker -> WorkerRow]
    BY <2>2, <2>3 DEF TypeOK, FilesTyped
  <2> QED BY <2>1, <2>2, <2>3, <2>4, Unmoved DEF UserStep
<1> QED BY <1>1, <1>2, <1>3, <1>4

-----------------------------------------------------------------------------
(* The steps, by what they do to what the invariant is about.              *)

Drafts(p) ==
    /\ RowsTyped /\ Only(p) /\ Unfrozen(p) /\ Chosen(p)'
    /\ UNCHANGED <<files, worker, owner, meddles, faults>>
    /\ \/ Unfrozen(p)' /\ (Trusting(p) \/ plan'[p] = NoPlan) /\ replaced' = replaced
       \/ /\ plan'[p].frozen = identity /\ plan'[p].binding = plan[p].binding
          /\ replaced' = [replaced EXCEPT ![p] = {}]
Advances(w, p) ==
    /\ RowsTyped /\ Only(p) /\ Trusting(p) /\ Kept(p) /\ ~Unfrozen(p)
    /\ UNCHANGED <<files, owner, replaced, meddles, faults>>
    /\ StepTyped(w) /\ (worker' = worker \/ Resting(w, p))

LEMMA Steps ==
    ASSUME TypeOK, \A p \in Plan : Chosen(p), [Next]_vars
    PROVE  \/ \E p \in Plan : Drafts(p)
           \/ \E w \in Worker, p \in Plan : Advances(w, p)
           \/ \E w \in Worker : Working(w) \/ TakeOver(w) \/ Crash(w)
           \/ UserStep /\ \E f \in File : UserRemoves(f) \/ Restore(f)
           \/ UserStep /\ \E d \in Dir : UserChanges(d) \/ UserReplaces(d)
           \/ UNCHANGED vars
<1>1. ASSUME NEW p \in Plan, NEW g \in Group, SelectGroup(p, g)
      PROVE  Drafts(p)
  BY <1>1, SelectGroupStep DEF Drafts, SelectGroup
<1>2. ASSUME NEW p \in Plan, PersistDraft(p)
      PROVE  Drafts(p)
  BY <1>2, PersistDraftStep DEF Drafts, PersistDraft
<1>3. ASSUME NEW p \in Plan, NEW recursive \in BOOLEAN, Compile(p, recursive)
      PROVE  Drafts(p)
  BY <1>3, CompileStep DEF Drafts, Compile
<1>4. ASSUME NEW p \in Plan, Freeze(p)
      PROVE  Drafts(p)
  BY <1>4, FreezeStep DEF Drafts, Freeze
<1>5. ASSUME NEW p \in Plan, Validate(p)
      PROVE  \E w \in Worker : Advances(w, p)
  <2>1. worker' = worker /\ UNCHANGED <<files, owner, replaced, meddles, faults>>
    BY <1>5 DEF Validate
  <2>2. RowsTyped /\ Only(p) /\ Trusting(p) /\ Kept(p) /\ ~Unfrozen(p)
    BY <1>5, ValidateStep
  <2>3. owner \in Worker /\ StepTyped(owner)
    BY <2>1, Unmoved DEF TypeOK, StepTyped
  <2> QED BY <2>1, <2>2, <2>3 DEF Advances
<1>6. ASSUME NEW p \in Plan, NEW w \in Worker, Begin(w, p)
      PROVE  Advances(w, p)
  <2>1. UNCHANGED <<files, owner, replaced, meddles, faults>>
    BY <1>6 DEF Begin
  <2> QED BY <1>6, <2>1, BeginStep DEF Advances
<1>7. ASSUME NEW f \in File, UserRemoves(f) \/ Restore(f)
      PROVE  UserStep
  BY <1>7, UserSteps
<1>8. ASSUME NEW d \in Dir, UserChanges(d) \/ UserReplaces(d)
      PROVE  UserStep
  BY <1>8, UserSteps
<1>9. Others \subseteq Dir
  BY LastFileAssumption
<1> QED BY <1>1, <1>2, <1>3, <1>4, <1>5, <1>6, <1>7, <1>8, <1>9 DEF Next

LEMMA NextTypeOK ==
    ASSUME TypeOK, \A p \in Plan : Chosen(p), \A w \in Worker : Runs(w), [Next]_vars
    PROVE  TypeOK'
<1>1. ASSUME NEW p \in Plan, Drafts(p)
      PROVE  TypeOK'
  <2>1. replaced' \in [Plan -> SUBSET Dir]
    BY <1>1 DEF Drafts, TypeOK
  <2> QED BY <1>1, <2>1 DEF Drafts, RowsTyped, TypeOK, files
<1>2. ASSUME NEW w \in Worker, NEW p \in Plan, Advances(w, p)
      PROVE  TypeOK'
  BY <1>2 DEF Advances, RowsTyped, StepTyped, TypeOK, files
<1>3. ASSUME NEW w \in Worker, Working(w)
      PROVE  TypeOK'
  <2>1. PICK p : p = worker[w].plan
    OBVIOUS
  <2>2. PICK f : f = worker[w].file
    OBVIOUS
  <2>3. /\ p \in Plan /\ RowsTyped /\ StepTyped(w) /\ UNCHANGED <<owner, replaced, meddles, faults>>
        /\ Rests(w, p) \/ Turns(w, p, f) \/ Captures(w, p) \/ MovesFile(w, p, f)
    BY <1>3, <2>1, <2>2, WorkingStep, Zenon
  <2>4. CASE UNCHANGED files
    BY <2>3, <2>4 DEF RowsTyped, StepTyped, TypeOK, files
  <2>5. CASE MovesFile(w, p, f)
    <3>1. place' \in [File -> {"home", "gone"} \cup Plan]
      BY <2>1, <2>3, <2>5 DEF MovesFile, Relocates, TypeOK
    <3>2. PICK drifted \in SUBSET Dir :
              identity' = [d \in Dir |-> IF d \in drifted THEN identity[d] + 1 ELSE identity[d]]
      BY <2>5 DEF MovesFile, Relocates
    <3>3. identity' \in [Dir -> Nat]
      BY <3>2 DEF TypeOK
    <3> QED BY <2>3, <2>5, <3>1, <3>3 DEF MovesFile, RowsTyped, StepTyped, TypeOK
  <2> QED BY <2>3, <2>4, <2>5 DEF Rests, Turns, Captures
<1>4. ASSUME NEW w \in Worker, TakeOver(w) \/ Crash(w)
      PROVE  TypeOK'
  <2>1. faults' \in 0..MaxTroubles
    BY <1>4, LastFileAssumption DEF TakeOver, Crash, Trouble, TypeOK
  <2>2. owner' \in Worker /\ worker' \in [Worker -> WorkerRow]
    BY <1>4, StopStep DEF TakeOver, Crash, StepTyped, TypeOK
  <2>3. UNCHANGED <<files, rows, replaced, meddles>>
    BY <1>4 DEF TakeOver, Crash
  <2> QED BY <2>1, <2>2, <2>3 DEF TypeOK, files, rows
<1>5. CASE UserStep
  BY <1>5 DEF UserStep, FilesTyped, TypeOK, rows
<1>6. CASE UNCHANGED vars
  BY <1>6 DEF vars, files, rows, TypeOK
<1> QED BY <1>1, <1>2, <1>3, <1>4, <1>5, <1>6, Steps

(* Frozen plans keep their items; what they trust changes when it is bound.*)
LEMMA NextKept ==
    ASSUME TypeOK, \A p \in Plan : Chosen(p), \A w \in Worker : Runs(w), [Next]_vars
    PROVE  \A p \in Plan : ~Unfrozen(p) => Kept(p)
<1>1. ASSUME NEW p \in Plan, Drafts(p)
      PROVE  \A q \in Plan : ~Unfrozen(q) => Kept(q)
  BY <1>1 DEF Drafts, Only, Kept, Unfrozen
<1>2. ASSUME NEW w \in Worker, NEW p \in Plan, Advances(w, p)
      PROVE  \A q \in Plan : Kept(q)
  BY <1>2, OnlyOne DEF Advances
<1>3. ASSUME NEW w \in Worker, Working(w)
      PROVE  \A q \in Plan : Kept(q)
  <2>1. \E p \in Plan : Only(p) /\ Kept(p)
    BY <1>3, WorkingStep
  <2> QED BY <2>1, OnlyOne
<1>4. UNCHANGED rows => \A q \in Plan : Kept(q)
  BY Unwritten
<1>5. ASSUME NEW w \in Worker, TakeOver(w) \/ Crash(w)
      PROVE  UNCHANGED rows
  BY <1>5 DEF TakeOver, Crash
<1>6. UserStep => UNCHANGED rows
  BY DEF UserStep
<1>7. UNCHANGED vars => UNCHANGED rows
  BY DEF vars
<1> QED BY <1>1, <1>2, <1>3, <1>4, <1>5, <1>6, <1>7, Steps

LEMMA NextChosen ==
    ASSUME TypeOK, \A p \in Plan : Chosen(p), \A w \in Worker : Runs(w), [Next]_vars
    PROVE  \A p \in Plan : Chosen(p)'
<1>1. ASSUME NEW p \in Plan, Only(p), Chosen(p)'
      PROVE  \A q \in Plan : Chosen(q)'
  BY <1>1 DEF Only, Chosen
<1>2. ASSUME NEW p \in Plan, Kept(p), ~Unfrozen(p)
      PROVE  Chosen(p)'
  BY <1>2 DEF Kept, Unfrozen, Chosen
<1>3. ASSUME NEW p \in Plan, Drafts(p)
      PROVE  \A q \in Plan : Chosen(q)'
  BY <1>1, <1>3 DEF Drafts
<1>4. ASSUME NEW w \in Worker, NEW p \in Plan, Advances(w, p)
      PROVE  \A q \in Plan : Chosen(q)'
  BY <1>1, <1>2, <1>4 DEF Advances
<1>5. ASSUME NEW w \in Worker, Working(w)
      PROVE  \A q \in Plan : Chosen(q)'
  <2>1. \E p \in Plan : Only(p) /\ Kept(p) /\ ~Unfrozen(p)
    BY <1>5, WorkingStep
  <2> QED BY <1>1, <1>2, <2>1
<1>6. UNCHANGED rows => \A q \in Plan : Chosen(q)'
  BY DEF rows, Chosen
<1>7. ASSUME NEW w \in Worker, TakeOver(w) \/ Crash(w)
      PROVE  UNCHANGED rows
  BY <1>7 DEF TakeOver, Crash
<1>8. UserStep => UNCHANGED rows
  BY DEF UserStep
<1>9. UNCHANGED vars => UNCHANGED rows
  BY DEF vars
<1> QED BY <1>3, <1>4, <1>5, <1>6, <1>7, <1>8, <1>9, Steps

(* A worker that goes on with its plan.                                    *)
LEMMA RunsOn ==
    ASSUME NEW w \in Worker, Runs(w), SameWork(w), \A p \in Plan : ~Unfrozen(p) => Kept(p)
    PROVE  Runs(w)'
<1>1. CASE worker[w].pc = "idle"
  BY <1>1 DEF SameWork, Runs
<1>2. CASE worker[w].pc # "idle"
  <2>1. PICK p : p = worker[w].plan
    OBVIOUS
  <2>2. PICK f : f = worker[w].file
    OBVIOUS
  <2>3. p \in Plan /\ ~Unfrozen(p)' /\ Kept(p)
    BY <1>2, <2>1 DEF Runs, Kept
  <2>4. worker'[w].pc \notin {"idle", "item"} => f \in File /\ item'[p][f] # "none"
    BY <2>1, <2>2, <2>3 DEF SameWork, Runs, Kept
  <2>5. worker'[w].plan = p /\ worker'[w].file = f
    BY <2>1, <2>2 DEF SameWork
  <2> QED BY <2>3, <2>4, <2>5 DEF Runs, Unfrozen
<1> QED BY <1>1, <1>2

LEMMA NextRuns ==
    ASSUME TypeOK, \A p \in Plan : Chosen(p), \A w \in Worker : Runs(w), [Next]_vars
    PROVE  \A w \in Worker : Runs(w)'
<1>1. \A p \in Plan : ~Unfrozen(p) => Kept(p)
  BY NextKept
<1>2. \A w \in Worker : SameWork(w) => Runs(w)'
  BY <1>1, RunsOn
<1>3. worker' = worker => \A w \in Worker : Runs(w)'
  BY <1>2 DEF SameWork
<1>4. ASSUME NEW w \in Worker, StepTyped(w), Runs(w)'
      PROVE  \A v \in Worker : Runs(v)'
  BY <1>2, <1>4 DEF StepTyped, Carried
<1>5. ASSUME NEW w \in Worker, NEW p \in Plan, Resting(w, p), ~Unfrozen(p)
      PROVE  Runs(w)'
  <2>1. ~Unfrozen(p)'
    BY <1>1, <1>5 DEF Kept
  <2> QED BY <1>5, <2>1 DEF Resting, Runs, Unfrozen
<1>6. ASSUME NEW p \in Plan, Drafts(p)
      PROVE  \A v \in Worker : Runs(v)'
  BY <1>3, <1>6 DEF Drafts
<1>7. ASSUME NEW w \in Worker, NEW p \in Plan, Advances(w, p)
      PROVE  \A v \in Worker : Runs(v)'
  BY <1>3, <1>4, <1>5, <1>7 DEF Advances
<1>8. ASSUME NEW w \in Worker, Working(w)
      PROVE  \A v \in Worker : Runs(v)'
  <2>1. PICK p : p = worker[w].plan
    OBVIOUS
  <2>2. PICK f : f = worker[w].file
    OBVIOUS
  <2>3. /\ p \in Plan /\ ~Unfrozen(p) /\ Kept(p) /\ StepTyped(w) /\ worker[w].pc # "idle"
        /\ Rests(w, p) \/ Turns(w, p, f) \/ Captures(w, p) \/ MovesFile(w, p, f)
    BY <1>8, <2>1, <2>2, WorkingStep, Zenon
  <2>4. CASE Rests(w, p)
    BY <1>4, <1>5, <2>3, <2>4 DEF Rests
  <2>5. ASSUME worker'[w].plan = p, worker'[w].file \in File, item[p][worker'[w].file] # "none"
        PROVE  Runs(w)'
    BY <2>3, <2>5 DEF Runs, Kept, Unfrozen
  <2>6. ASSUME NEW pc, Going(w, pc), worker[w].pc # "item"
        PROVE  Runs(w)'
    <3>1. worker'[w].plan = p /\ worker'[w].file \in File /\ item[p][worker'[w].file] # "none"
      BY <2>1, <2>3, <2>6 DEF Going, Runs
    <3> QED BY <2>5, <3>1
  <2>7. CASE Turns(w, p, f)
    <3>1. \/ worker'[w].plan = p /\ worker'[w].file \in File /\ item[p][worker'[w].file] # "none"
          \/ worker[w].pc # "item" /\ \E pc \in PCs : Going(w, pc)
      BY <2>7 DEF Turns, PCs
    <3>2. Runs(w)'
      BY <2>5, <2>6, <3>1
    <3> QED BY <1>4, <2>3, <3>2
  <2>8. CASE Captures(w, p) \/ MovesFile(w, p, f)
    <3>1. Runs(w)'
      BY <2>6, <2>8 DEF Captures, MovesFile
    <3> QED BY <1>4, <2>3, <3>1
  <2> QED BY <2>3, <2>4, <2>7, <2>8
<1>9. ASSUME NEW w \in Worker, TakeOver(w)
      PROVE  \A v \in Worker : Runs(v)'
  BY <1>3, <1>9 DEF TakeOver
<1>10. ASSUME NEW w \in Worker, Crash(w)
       PROVE  \A v \in Worker : Runs(v)'
  <2>1. StepTyped(w) /\ worker'[w].pc = "idle"
    BY <1>10, StopStep DEF Crash
  <2>2. Runs(w)'
    BY <2>1 DEF Runs
  <2> QED BY <1>4, <2>1, <2>2
<1>11. UserStep => \A v \in Worker : Runs(v)'
  BY <1>2 DEF UserStep, Carried
<1>12. UNCHANGED vars => \A v \in Worker : Runs(v)'
  BY <1>3 DEF vars
<1> QED BY <1>6, <1>7, <1>8, <1>9, <1>10, <1>11, <1>12, Steps

-----------------------------------------------------------------------------
(* What a worker has seen still holds.                                     *)

LEMMA ProtectedDirs == \A p \in Plan, f \in File : Protected(p, f) \subseteq Dir
BY Chains DEF Protected

LEMMA SameCount ==
    ASSUME place' = place, extra' = extra
    PROVE  \A d \in Dir : Count(d)' >= Count(d)
BY CountKept

(* Users and other workers: what they took from is noted.                  *)
LEMMA LookedOn ==
    ASSUME NEW w \in Worker, Runs(w), Looked(w), Carried(w),
           \A p \in Plan : Chosen(p), \A p \in Plan : ~Unfrozen(p) => Kept(p),
           worker[w].pc \in {"check", "take"} =>
               /\ \A d \in Dir : d \in worker'[w].gone \/ Count(d)' >= Count(d)
               /\ \A x \in File : place[x] = "home" => GroupOf[x] \in worker'[w].gone \/ place'[x] = "home"
    PROVE  Looked(w)'
<1>1. PICK p : p = worker[w].plan
  OBVIOUS
<1>2. PICK f : f = worker[w].file
  OBVIOUS
<1>3. PICK gone : gone = worker'[w].gone
  OBVIOUS
<1>4. worker'[w].plan = p /\ worker'[w].file = f /\ worker'[w].pc = worker[w].pc /\ worker[w].gone \subseteq gone
  BY <1>1, <1>2, <1>3 DEF Carried, SameWork
<1>5. CASE worker[w].pc \notin {"check", "take"}
  BY <1>4, <1>5 DEF Looked, Seen
<1>6. CASE worker[w].pc \in {"check", "take"}
  <2>1. p \in Plan /\ ~Unfrozen(p) /\ f \in File /\ item[p][f] # "none"
    BY <1>1, <1>2, <1>6 DEF Runs
  <2>2. plan'[p].recursive = plan[p].recursive /\ plan'[p].keep = plan[p].keep
    BY <2>1 DEF Kept
  <2>3. Seen(w)' => Seen(w)
    BY <1>1, <1>4, <2>2 DEF Seen
  <2>4. Protected(p, f)' = Protected(p, f) /\ Protected(p, f) \subseteq Dir
    BY <2>1, <2>2, ProtectedDirs DEF Protected
  <2>5. ASSUME Seen(w)', NEW d \in Protected(p, f), d \notin gone
        PROVE  Count(d)' >= 2
    <3>1. d \in Dir /\ Count(d)' >= Count(d) /\ Count(d) >= 2
      BY <1>1, <1>2, <1>3, <1>4, <1>6, <2>3, <2>4, <2>5 DEF Looked
    <3>2. Count(d) \in Nat /\ Count(d)' \in Nat
      BY <3>1, CountSets, CountSetsNext
    <3> QED BY <3>1, <3>2
  <2>6. PICK keep : keep = plan[p].keep[GroupOf[f]]
    OBVIOUS
  <2>7. keep \in File /\ GroupOf[keep] = GroupOf[f]
    BY <2>1, <2>6, Groups, GroupOfCopy DEF Chosen
  <2>8. ASSUME worker[w].pc = "take"
        PROVE  GroupOf[f] \in gone \/ place'[keep] = "home"
    <3>1. GroupOf[f] \in worker[w].gone \/ place[keep] = "home"
      BY <1>1, <1>2, <2>6, <2>8 DEF Looked
    <3> QED BY <1>3, <1>4, <1>6, <2>7, <3>1
  <2> QED BY <1>3, <1>4, <2>2, <2>4, <2>5, <2>6, <2>8 DEF Looked
<1> QED BY <1>5, <1>6

(* A look of its own.                                                      *)
LEMMA LookedNow ==
    ASSUME TypeOK, NEW w \in Worker, NEW p \in Plan, NEW f \in File, p = worker[w].plan, f = worker[w].file,
           Kept(p), UNCHANGED files, Turns(w, p, f), Looked(w)
    PROVE  Looked(w)'
<1>1. plan'[p].recursive = plan[p].recursive /\ plan'[p].keep = plan[p].keep /\ UNCHANGED <<place, extra>>
  BY DEF Kept, files
<1>2. Protected(p, f)' = Protected(p, f) /\ \A d \in Dir : Count(d)' = Count(d)
  BY <1>1 DEF Protected, Count
<1>3. Protected(p, f) \subseteq Dir
  BY ProtectedDirs
<1>4. CASE worker'[w].pc \notin {"check", "take"}
  BY <1>4 DEF Looked, Seen
<1>5. CASE Going(w, "check") /\ (plan[p].recursive => SafeNow(p, f))
  <2>1. worker'[w].pc = "check" /\ worker'[w].plan = p /\ worker'[w].file = f
    BY <1>5 DEF Going
  <2>2. plan[p].recursive => \A d \in Protected(p, f) : Count(d) >= 2
    BY <1>5 DEF SafeNow, Protected
  <2> QED BY <1>1, <1>2, <1>3, <2>1, <2>2 DEF Looked, Seen
<1>6. CASE /\ worker[w].pc = "check" /\ Going(w, "take") /\ ~(Count(Top[f]) <= 1) /\ Fresh(p, f)
           /\ plan[p].recursive => worker'[w].gone = worker[w].gone
  <2>1. worker'[w].pc = "take" /\ worker'[w].plan = p /\ worker'[w].file = f
    BY <1>6 DEF Going
  <2>2. place'[plan'[p].keep[GroupOf[f]]] = "home"
    BY <1>1, <1>6 DEF Fresh
  <2>3. Count(Top[f]) >= 2
    BY <1>6, Chains, CountSets
  <2>4. \A d \in Protected(p, f) : d \in worker'[w].gone \/ Count(d) >= 2
    <3>1. CASE plan[p].recursive
      <4>1. Seen(w)
        BY <1>6, <3>1 DEF Seen
      <4> QED BY <1>6, <3>1, <4>1 DEF Looked
    <3>2. CASE ~plan[p].recursive
      BY <2>3, <3>2 DEF Protected
    <3> QED BY <3>1, <3>2
  <2> QED BY <1>2, <1>3, <2>1, <2>2, <2>4 DEF Looked
<1>7. CASE worker'[w].pc = "check" \/ worker'[w].pc = "take"
  BY <1>5, <1>6, <1>7 DEF Turns, Going
<1> QED BY <1>4, <1>7

(* Taking a file leaves alone what is neither above it nor of its group.   *)
LEMMA ElsewhereKept ==
    ASSUME TypeOK, NEW f \in File, NEW where \in {"gone"} \cup Plan, place' = [place EXCEPT ![f] = where],
           extra' = extra
    PROVE  /\ \A d \in Dir : d \in Sources(f) \/ Count(d)' >= Count(d)
           /\ \A x \in File : place[x] = "home" => GroupOf[x] \in Sources(f) \/ place'[x] = "home"
<1>1. \A x \in File \ {f} : place'[x] = place[x]
  BY DEF TypeOK
<1>2. ASSUME NEW d \in Dir, d \notin Sources(f)
      PROVE  Count(d)' >= Count(d)
  <2>1. f \notin FilesBelow[d]
    BY <1>2 DEF FilesBelow, Sources
  <2>2. \A x \in FilesBelow[d] : place'[x] = place[x]
    BY <1>1, <2>1 DEF FilesBelow
  <2> QED BY <2>2, CountKept
<1>3. ASSUME NEW x \in File, place[x] = "home", GroupOf[x] \notin Sources(f)
      PROVE  place'[x] = "home"
  <2>1. x # f
    BY <1>3 DEF Sources
  <2> QED BY <1>1, <1>3, <2>1
<1> QED BY <1>2, <1>3

(* Whatever the others do, a worker knows what it has seen.                *)
LEMMA NextLooked ==
    ASSUME TypeOK, \A p \in Plan : Chosen(p), \A w \in Worker : Runs(w) /\ Looked(w), [Next]_vars
    PROVE  \A w \in Worker : Looked(w)'
<1>1. \A p \in Plan : ~Unfrozen(p) => Kept(p)
  BY NextKept
<1>2. ASSUME place' = place, extra' = extra, NEW w \in Worker, Carried(w)
      PROVE  Looked(w)'
  BY <1>1, <1>2, LookedOn, SameCount
<1>3. ASSUME NEW w \in Worker, worker'[w].pc \notin {"check", "take"}
      PROVE  Looked(w)'
  BY <1>3 DEF Looked, Seen
<1>4. ASSUME place' = place, extra' = extra, worker' = worker, NEW w \in Worker
      PROVE  Looked(w)'
  BY <1>2, <1>4, Unmoved
<1>5. ASSUME NEW x \in Worker, StepTyped(x), place' = place, extra' = extra, NEW w \in Worker \ {x}
      PROVE  Looked(w)'
  BY <1>2, <1>5 DEF StepTyped
<1>6. ASSUME NEW p \in Plan, Drafts(p), NEW w \in Worker
      PROVE  Looked(w)'
  BY <1>4, <1>6 DEF Drafts, files
<1>7. ASSUME NEW x \in Worker, NEW p \in Plan, Advances(x, p), NEW w \in Worker
      PROVE  Looked(w)'
  <2>1. UNCHANGED <<place, extra>> /\ StepTyped(x)
    BY <1>7 DEF Advances, files
  <2>2. CASE worker' = worker
    BY <1>4, <2>1, <2>2
  <2>3. CASE Resting(x, p)
    BY <1>3, <1>5, <2>1, <2>3 DEF Resting
  <2> QED BY <1>7, <2>2, <2>3 DEF Advances
<1>8. ASSUME NEW x \in Worker, Working(x), NEW w \in Worker
      PROVE  Looked(w)'
  <2>1. PICK p : p = worker[x].plan
    OBVIOUS
  <2>2. PICK f : f = worker[x].file
    OBVIOUS
  <2>3. /\ p \in Plan /\ Kept(p) /\ StepTyped(x)
        /\ worker[x].pc # "item" => f \in File
        /\ Rests(x, p) \/ Turns(x, p, f) \/ Captures(x, p) \/ MovesFile(x, p, f)
    BY <1>8, <2>1, <2>2, WorkingStep, Zenon
  <2>4. CASE UNCHANGED files
    <3>1. place' = place /\ extra' = extra
      BY <2>4 DEF files
    <3>2. CASE w = x /\ worker'[x].pc \in {"check", "take"}
      <4>1. Turns(x, p, f) /\ f \in File
        BY <2>3, <3>2 DEF Rests, Resting, Captures, MovesFile, Going, Turns
      <4> QED BY <2>1, <2>2, <2>3, <2>4, <3>2, <4>1, LookedNow
    <3> QED BY <1>3, <1>5, <2>3, <3>1, <3>2
  <2>5. CASE MovesFile(x, p, f)
    <3>1. CASE w = x
      BY <1>3, <2>5, <3>1 DEF MovesFile, Going
    <3>2. CASE w # x
      <4>1. /\ f \in File /\ place' = [place EXCEPT ![f] = p] /\ extra' = extra /\ Noting(x, Sources(f))
        BY <2>1, <2>3, <2>5 DEF MovesFile, Relocates
      <4>2. Carried(w) /\ (worker[w].pc \in {"check", "take"} => Sources(f) \subseteq worker'[w].gone)
        BY <2>3, <3>2, <4>1 DEF StepTyped, Noting
      <4>3. /\ \A d \in Dir : d \in Sources(f) \/ Count(d)' >= Count(d)
            /\ \A y \in File : place[y] = "home" => GroupOf[y] \in Sources(f) \/ place'[y] = "home"
        BY <2>3, <4>1, ElsewhereKept
      <4> QED BY <1>1, <4>2, <4>3, LookedOn
    <3> QED BY <3>1, <3>2
  <2> QED BY <2>3, <2>4, <2>5 DEF Rests, Turns, Captures
<1>9. ASSUME NEW x \in Worker, TakeOver(x), NEW w \in Worker
      PROVE  Looked(w)'
  BY <1>4, <1>9 DEF TakeOver, files
<1>10. ASSUME NEW x \in Worker, Crash(x), NEW w \in Worker
       PROVE  Looked(w)'
  <2>1. UNCHANGED <<place, extra>>
    BY <1>10 DEF Crash, files
  <2>2. StepTyped(x) /\ worker'[x].pc = "idle"
    BY <1>10, StopStep DEF Crash
  <2> QED BY <1>3, <1>5, <2>1, <2>2
<1>11. ASSUME NEW f \in File, UserRemoves(f), NEW w \in Worker
       PROVE  Looked(w)'
  <2>1. /\ TakenFrom(Sources(f)) /\ place' = [place EXCEPT ![f] = "gone"] /\ extra' = extra
        /\ Sources(f) \in SUBSET (Dir \cup Group)
    BY <1>11, SourcesTyped DEF UserRemoves
  <2>2. Carried(w) /\ (worker[w].pc \in {"check", "take"} => Sources(f) \subseteq worker'[w].gone)
    BY <2>1, TakenFromStep
  <2>3. /\ \A d \in Dir : d \in Sources(f) \/ Count(d)' >= Count(d)
        /\ \A y \in File : place[y] = "home" => GroupOf[y] \in Sources(f) \/ place'[y] = "home"
    BY <2>1, ElsewhereKept
  <2> QED BY <1>1, <2>2, <2>3, LookedOn
<1>12. ASSUME NEW d \in Dir, UserChanges(d), NEW w \in Worker
       PROVE  Looked(w)'
  <2>1. PICK sources \in SUBSET (Dir \cup Group) : sources = IF extra[d] = 1 THEN Above[d] ELSE {}
    BY LastFileAssumption
  <2>2. TakenFrom(sources) /\ extra' = [extra EXCEPT ![d] = 1 - @] /\ place' = place
    BY <1>12, <2>1 DEF UserChanges
  <2>3. Carried(w) /\ (worker[w].pc \in {"check", "take"} => sources \subseteq worker'[w].gone)
    BY <2>2, TakenFromStep
  <2>4. \A e \in Dir \ {d} : extra'[e] = extra[e]
    BY <2>2 DEF TypeOK
  <2>5. ASSUME NEW e \in Dir, e \notin sources
        PROVE  Count(e)' >= Count(e)
    <3>1. ASSUME NEW x \in Below[e], extra[x] = 1
          PROVE  extra'[x] = 1
      <4>1. x \in Dir /\ e \in Above[x]
        BY DEF Below
      <4>2. x # d
        BY <2>1, <2>5, <3>1, <4>1
      <4> QED BY <2>4, <3>1, <4>1, <4>2
    <3> QED BY <2>2, <3>1, CountKept
  <2> QED BY <1>1, <2>2, <2>3, <2>5, LookedOn
<1>13. ASSUME NEW d \in Dir, UserReplaces(d), NEW w \in Worker
       PROVE  Looked(w)'
  BY <1>4, <1>13 DEF UserReplaces
<1>14. ASSUME NEW f \in File, Restore(f), NEW w \in Worker
       PROVE  Looked(w)'
  <2>1. worker' = worker /\ worker[w].pc = "idle"
    BY <1>14 DEF Restore, At
  <2> QED BY <1>3, <2>1
<1>15. ASSUME UNCHANGED vars, NEW w \in Worker
       PROVE  Looked(w)'
  BY <1>4, <1>15 DEF vars, files
<1> QED BY <1>6, <1>7, <1>8, <1>9, <1>10, <1>11, <1>12, <1>13, <1>14, <1>15, Steps

-----------------------------------------------------------------------------
(* What a plan trusts is older than what replaced it.                      *)
Growing == \A d \in Dir : identity[d] <= identity'[d]

LEMMA Identities ==
    ASSUME TypeOK
    PROVE  \A d \in Dir :
              /\ identity[d] \in Nat
              /\ \A p \in Plan : Trusted(p, d) \in Nat
              /\ \A w \in Worker : worker[w].caught[d] \in Nat
BY Rows DEF TypeOK, Trusted, PlanRow, WorkerRow

LEMMA SameIdentity == ASSUME TypeOK, identity' = identity PROVE Growing
BY Identities DEF Growing

LEMMA DriftGrows ==
    ASSUME TypeOK, NEW drifted \in SUBSET Dir,
           identity' = [d \in Dir |-> IF d \in drifted THEN identity[d] + 1 ELSE identity[d]]
    PROVE  Growing
BY Identities DEF Growing

LEMMA NoticedOn ==
    ASSUME TypeOK, TypeOK', NEW p \in Plan, Noticed(p), Trusting(p), Growing, Unfrozen(p)' => Unfrozen(p),
           replaced'[p] = replaced[p]
    PROVE  Noticed(p)'
<1>1. \A d \in Dir : Trusted(p, d)' = Trusted(p, d)
  BY DEF Trusted, Bound, Trusting
<1>2. \A d \in Dir : identity[d] \in Nat /\ identity'[d] \in Nat /\ Trusted(p, d) \in Nat
  BY Identities DEF TypeOK
<1>3. replaced[p] \subseteq Dir
  BY DEF TypeOK
<1> QED BY <1>1, <1>2, <1>3 DEF Noticed, Growing

LEMMA ReliesOn ==
    ASSUME TypeOK, TypeOK', NEW w \in Worker, Runs(w), Relies(w), SameWork(w), worker'[w].caught = worker[w].caught,
           \A p \in Plan : ~Unfrozen(p) => Kept(p), Growing,
           \A p \in Plan : ~Unfrozen(p) => replaced'[p] = replaced[p]
    PROVE  Relies(w)'
<1>1. PICK p : p = worker[w].plan
  OBVIOUS
<1>2. PICK f : f = worker[w].file
  OBVIOUS
<1>3. PICK caught : caught = worker[w].caught
  OBVIOUS
<1>4. worker'[w].plan = p /\ worker'[w].file = f /\ worker'[w].caught = caught /\ worker'[w].pc = worker[w].pc
  BY <1>1, <1>2, <1>3 DEF SameWork
<1>5. \A d \in Dir : identity[d] \in Nat /\ identity'[d] \in Nat /\ caught[d] \in Nat
  BY <1>3, Identities DEF TypeOK
<1>6. \A d \in Dir : caught[d] <= identity'[d]
  BY <1>3, <1>5 DEF Relies, Growing
<1>7. ASSUME worker[w].pc # "idle"
      PROVE  plan'[p].recursive = plan[p].recursive /\ replaced'[p] = replaced[p]
  BY <1>1, <1>7 DEF Runs, Kept
<1>8. ASSUME worker[w].pc \in Mutating, plan'[p].recursive
      PROVE  Chain[f] \cap replaced'[p] = {}
  BY <1>1, <1>2, <1>7, <1>8 DEF Relies, Mutating
<1>9. ASSUME worker[w].pc = "record", plan'[p].recursive, NEW d \in Chain[f] \cap replaced'[p]
      PROVE  caught[d] < identity'[d]
  <2>1. p \in Plan /\ f \in File
    BY <1>1, <1>2, <1>9 DEF Runs
  <2>2. d \in Dir
    BY <2>1, Chains
  <2>3. caught[d] < identity[d]
    BY <1>1, <1>2, <1>3, <1>7, <1>9 DEF Relies
  <2> QED BY <1>5, <2>2, <2>3 DEF Growing
<1> QED BY <1>4, <1>6, <1>8, <1>9 DEF Relies, Mutating

(* A worker's own step, in a tree that nobody else changes.                *)
LEMMA ReliesNow ==
    ASSUME TypeOK, TypeOK', NEW w \in Worker, NEW p \in Plan, NEW f, p = worker[w].plan, f = worker[w].file,
           worker[w].pc # "item" => f \in File, worker[w].pc # "idle",
           Kept(p), Growing, replaced' = replaced, Noticed(p), Relies(w),
           Rests(w, p) \/ Turns(w, p, f) \/ Captures(w, p) \/ MovesFile(w, p, f)
    PROVE  Relies(w)'
<1>1. plan'[p].recursive = plan[p].recursive
  BY DEF Kept
<1>2. \A d \in Dir : identity[d] \in Nat /\ identity'[d] \in Nat /\ worker[w].caught[d] \in Nat
  BY Identities DEF TypeOK
<1>3. \A d \in Dir : worker[w].caught[d] <= identity'[d]
  BY <1>2 DEF Relies, Growing
<1>4. CASE Rests(w, p)
  BY <1>2, <1>4 DEF Rests, Resting, Relies, Mutating
<1>5. CASE Turns(w, p, f)
  <2>1. worker'[w].caught = worker[w].caught
    BY <1>5 DEF Turns
  <2>2. CASE worker'[w].pc \in {"fence", "look", "guard", "protect", "skipped", "failed"}
    BY <1>3, <2>1, <2>2 DEF Relies, Mutating
  <2>3. CASE worker'[w].pc = "check"
    <3>1. Going(w, "check") /\ (plan[p].recursive => SafeNow(p, f)) /\ f \in File
      BY <1>5, <2>3 DEF Turns, Going
    <3>2. plan[p].recursive => \A d \in Chain[f] : identity[d] = Trusted(p, d)
      BY <3>1 DEF SafeNow, Trusted
    <3>3. Chain[f] \subseteq Dir
      BY <3>1, Chains
    <3>4. plan[p].recursive => Chain[f] \cap replaced[p] = {}
      BY <1>2, <3>2, <3>3 DEF Noticed
    <3>5. worker'[w].plan = p /\ worker'[w].file = f
      BY <3>1 DEF Going
    <3> QED BY <1>1, <1>3, <2>1, <2>3, <3>4, <3>5 DEF Relies, Mutating
  <2>4. CASE worker'[w].pc = "take" /\ worker[w].pc = "check"
    <3>1. Going(w, "take")
      BY <1>5, <2>4 DEF Turns, Going
    <3>2. plan[p].recursive => Chain[f] \cap replaced[p] = {}
      BY <2>4 DEF Relies, Mutating
    <3>3. worker'[w].plan = p /\ worker'[w].file = f
      BY <3>1 DEF Going
    <3> QED BY <1>1, <1>3, <2>1, <2>4, <3>2, <3>3 DEF Relies, Mutating
  <2> QED BY <1>5, <2>2, <2>3, <2>4 DEF Turns, Going
<1>6. CASE Captures(w, p)
  <2>1. worker[w].pc = "capture" /\ Going(w, "record") /\ worker'[w].caught = identity /\ identity' = identity
    BY <1>6 DEF Captures, files
  <2>2. plan[p].recursive => Chain[f] \cap replaced[p] = {}
    BY <2>1 DEF Relies, Mutating
  <2>3. worker'[w].plan = p /\ worker'[w].file = f /\ worker'[w].pc = "record"
    BY <2>1 DEF Going
  <2> QED BY <1>1, <1>2, <2>1, <2>2, <2>3 DEF Relies, Mutating
<1>7. CASE MovesFile(w, p, f)
  <2>1. worker[w].pc = "take" /\ Going(w, "capture") /\ worker'[w].caught = worker[w].caught
    BY <1>7 DEF MovesFile
  <2>2. plan[p].recursive => Chain[f] \cap replaced[p] = {}
    BY <2>1 DEF Relies, Mutating
  <2>3. worker'[w].plan = p /\ worker'[w].file = f /\ worker'[w].pc = "capture"
    BY <2>1 DEF Going
  <2> QED BY <1>1, <1>3, <2>1, <2>2, <2>3 DEF Relies, Mutating
<1> QED BY <1>4, <1>5, <1>6, <1>7

(* Binding: the worker captured nothing that was replaced since.           *)
LEMMA NoticedBound ==
    ASSUME TypeOK, NEW w \in Worker, NEW p \in Plan, NEW f \in File, p = worker[w].plan, f = worker[w].file,
           worker[w].pc = "record", Bind(w, p, f), Kept(p), ~Unfrozen(p), identity' = identity, replaced' = replaced,
           Noticed(p), Relies(w)
    PROVE  Noticed(p)'
<1>1. f # None
  BY LastFileAssumption
<1>2. ASSUME NEW d \in Dir, plan[p].recursive, d \in Chain[f]
      PROVE  Trusted(p, d)' = worker[w].caught[d]
  BY <1>1, <1>2 DEF Bind, Trusted, Bound
<1>3. ASSUME NEW d \in Dir, ~(plan[p].recursive /\ d \in Chain[f])
      PROVE  Trusted(p, d)' = Trusted(p, d)
  BY <1>3 DEF Bind, Trusted, Bound
<1>4. replaced[p] \subseteq Dir
  BY DEF TypeOK
<1>5. \A d \in Dir : Trusted(p, d)' <= identity'[d]
  BY <1>2, <1>3 DEF Noticed, Relies
<1>6. \A d \in replaced[p] : Trusted(p, d)' < identity'[d]
  BY <1>2, <1>3, <1>4 DEF Noticed, Relies
<1>7. ~Unfrozen(p)'
  BY DEF Kept
<1> QED BY <1>5, <1>6, <1>7 DEF Noticed

LEMMA NextNoticed ==
    ASSUME TypeOK, TypeOK', \A p \in Plan : Chosen(p) /\ Noticed(p), \A w \in Worker : Runs(w) /\ Relies(w),
           [Next]_vars
    PROVE  (\A p \in Plan : Noticed(p)') /\ (\A w \in Worker : Relies(w)')
<1>1. \A p \in Plan : ~Unfrozen(p) => Kept(p)
  BY NextKept
<1>2. ASSUME NEW w \in Worker, SameWork(w), worker'[w].caught = worker[w].caught, Growing,
             \A p \in Plan : ~Unfrozen(p) => replaced'[p] = replaced[p]
      PROVE  Relies(w)'
  BY <1>1, <1>2, ReliesOn
<1>3. ASSUME NEW p \in Plan, Only(p), Growing, replaced' = replaced, NEW q \in Plan \ {p}
      PROVE  Noticed(q)'
  <2>1. Trusting(q) /\ (Unfrozen(q)' => Unfrozen(q))
    BY <1>3 DEF Only, Trusting, Unfrozen
  <2> QED BY <1>3, <2>1, NoticedOn
<1>4. ASSUME UNCHANGED rows, Growing, replaced' = replaced, NEW p \in Plan
      PROVE  Noticed(p)'
  <2>1. Trusting(p) /\ (Unfrozen(p)' => Unfrozen(p))
    BY <1>4 DEF rows, Trusting, Unfrozen
  <2> QED BY <1>4, <2>1, NoticedOn
<1>5. ASSUME NEW p \in Plan, Drafts(p)
      PROVE  (\A q \in Plan : Noticed(q)') /\ (\A w \in Worker : Relies(w)')
  <2>1. Growing /\ identity' = identity /\ worker' = worker
    BY <1>5, SameIdentity DEF Drafts, files
  <2>2. \A q \in Plan \ {p} : replaced'[q] = replaced[q]
    BY <1>5 DEF Drafts, TypeOK
  <2>3. ASSUME NEW w \in Worker
        PROVE  Relies(w)'
    <3>1. \A q \in Plan : ~Unfrozen(q) => replaced'[q] = replaced[q]
      BY <1>5, <2>2 DEF Drafts
    <3> QED BY <1>2, <2>1, <3>1 DEF SameWork
  <2>4. ASSUME NEW q \in Plan \ {p}
        PROVE  Noticed(q)'
    <3>1. Trusting(q) /\ (Unfrozen(q)' => Unfrozen(q))
      BY <1>5 DEF Drafts, Only, Trusting, Unfrozen
    <3> QED BY <2>1, <2>2, <3>1, NoticedOn
  <2>5. CASE Unfrozen(p)' /\ Trusting(p) /\ replaced' = replaced
    <3>1. Unfrozen(p)
      BY <1>5 DEF Drafts
    <3>2. Noticed(p)'
      BY <2>1, <2>5, <3>1, NoticedOn
    <3> QED BY <2>3, <2>4, <3>2
  <2>6. CASE plan'[p] = NoPlan /\ replaced' = replaced
    <3>1. replaced[p] = {}
      BY <1>5 DEF Drafts, Noticed
    <3>2. \A d \in Dir : Trusted(p, d)' = 0
      BY <2>6 DEF Trusted, Bound, NoPlan
    <3>3. \A d \in Dir : identity'[d] \in Nat
      BY DEF TypeOK
    <3>4. Noticed(p)'
      BY <2>6, <3>1, <3>2, <3>3 DEF Noticed
    <3> QED BY <2>3, <2>4, <3>4
  <2>7. CASE /\ plan'[p].frozen = identity /\ plan'[p].binding = plan[p].binding
             /\ replaced' = [replaced EXCEPT ![p] = {}]
    <3>1. replaced'[p] = {}
      BY <2>7 DEF TypeOK
    <3>2. ASSUME NEW d \in Dir
          PROVE  Trusted(p, d)' <= identity'[d]
      <4>1. CASE Bound(p, d)
        <5>1. Trusted(p, d)' = Trusted(p, d)
          BY <2>7, <4>1 DEF Trusted, Bound
        <5> QED BY <2>1, <5>1 DEF Noticed
      <4>2. CASE ~Bound(p, d)
        <5>1. Trusted(p, d)' = identity[d]
          BY <2>7, <4>2 DEF Trusted, Bound
        <5> QED BY <2>1, <5>1, Identities
      <4> QED BY <4>1, <4>2
    <3>3. Noticed(p)'
      BY <3>1, <3>2 DEF Noticed
    <3> QED BY <2>3, <2>4, <3>3
  <2> QED BY <1>5, <2>5, <2>6, <2>7 DEF Drafts
<1>6. ASSUME NEW w \in Worker, NEW p \in Plan, Advances(w, p)
      PROVE  (\A q \in Plan : Noticed(q)') /\ (\A v \in Worker : Relies(v)')
  <2>1. Growing /\ replaced' = replaced /\ StepTyped(w)
    BY <1>6, SameIdentity DEF Advances, files
  <2>2. Noticed(p)'
    BY <1>6, <2>1, NoticedOn DEF Advances, Kept
  <2>3. ASSUME NEW v \in Worker, Carried(v)
        PROVE  Relies(v)'
    BY <1>2, <2>1, <2>3 DEF Carried
  <2>4. ASSUME Resting(w, p)
        PROVE  Relies(w)'
    <3>1. \A d \in Dir : identity'[d] \in Nat
      BY DEF TypeOK
    <3> QED BY <2>4, <3>1 DEF Resting, Relies, Mutating
  <2>5. Relies(w)'
    BY <1>6, <2>3, <2>4, Unmoved DEF Advances
  <2> QED BY <1>3, <1>6, <2>1, <2>2, <2>3, <2>5 DEF Advances, StepTyped
<1>7. ASSUME NEW w \in Worker, Working(w)
      PROVE  (\A q \in Plan : Noticed(q)') /\ (\A v \in Worker : Relies(v)')
  <2>1. PICK p : p = worker[w].plan
    OBVIOUS
  <2>2. PICK f : f = worker[w].file
    OBVIOUS
  <2>3. /\ p \in Plan /\ ~Unfrozen(p) /\ worker[w].pc # "idle"
        /\ Only(p) /\ Kept(p) /\ StepTyped(w) /\ replaced' = replaced
        /\ Rests(w, p) \/ Turns(w, p, f) \/ Captures(w, p) \/ MovesFile(w, p, f)
    BY <1>7, <2>1, <2>2, WorkingStep
  <2>4. worker[w].pc # "item" => f \in File
    BY <1>7, <2>1, <2>2, WorkingStep
  <2>5. Growing
    <3>1. CASE UNCHANGED files
      BY <3>1, SameIdentity DEF files
    <3>2. CASE MovesFile(w, p, f)
      BY <3>2, DriftGrows DEF MovesFile, Relocates
    <3> QED BY <2>3, <3>1, <3>2 DEF Rests, Turns, Captures
  <2>6. Relies(w)'
    BY <2>1, <2>2, <2>3, <2>4, <2>5, ReliesNow
  <2>7. \A v \in Worker \ {w} : Relies(v)'
    BY <1>2, <2>3, <2>5 DEF StepTyped, Carried
  <2>8. Noticed(p)'
    <3>1. CASE Trusting(p)
      BY <2>3, <2>5, <3>1, NoticedOn DEF Kept
    <3>2. CASE Rests(w, p) /\ worker[w].pc = "record" /\ Bind(w, p, worker[w].file)
      <4>1. f \in File /\ Bind(w, p, f) /\ identity' = identity
        BY <2>2, <2>4, <3>2 DEF Rests, files
      <4> QED BY <2>1, <2>2, <2>3, <3>2, <4>1, NoticedBound
    <3> QED BY <2>3, <3>1, <3>2 DEF Rests, Turns, Captures, MovesFile
  <2> QED BY <1>3, <2>3, <2>5, <2>6, <2>7, <2>8
<1>8. ASSUME NEW w \in Worker, TakeOver(w) \/ Crash(w)
      PROVE  (\A q \in Plan : Noticed(q)') /\ (\A v \in Worker : Relies(v)')
  <2>1. UNCHANGED rows /\ identity' = identity /\ replaced' = replaced /\ Growing
    BY <1>8, SameIdentity DEF TakeOver, Crash, files
  <2>2. ASSUME NEW v \in Worker, Carried(v)
        PROVE  Relies(v)'
    BY <1>2, <2>1, <2>2 DEF Carried
  <2>3. CASE TakeOver(w)
    BY <1>4, <2>1, <2>2, <2>3, Unmoved DEF TakeOver
  <2>4. CASE Crash(w)
    <3>1. StepTyped(w) /\ Resting(w, None) /\ worker'[w].pc = "idle"
      BY <2>4, StopStep DEF Crash
    <3>2. \A d \in Dir : identity'[d] \in Nat
      BY DEF TypeOK
    <3>3. Relies(w)'
      BY <3>1, <3>2 DEF Resting, Relies, Mutating
    <3> QED BY <1>4, <2>1, <2>2, <3>1, <3>3 DEF StepTyped
  <2> QED BY <1>8, <2>3, <2>4
<1>9. ASSUME UserStep, identity' = identity, replaced' = replaced
      PROVE  (\A q \in Plan : Noticed(q)') /\ (\A v \in Worker : Relies(v)')
  BY <1>2, <1>4, <1>9, SameIdentity DEF UserStep, Carried
<1>10. ASSUME NEW f \in File, UserRemoves(f) \/ Restore(f)
       PROVE  identity' = identity /\ replaced' = replaced
  BY <1>10 DEF UserRemoves, Restore
<1>11. ASSUME NEW d \in Dir, UserChanges(d)
       PROVE  identity' = identity /\ replaced' = replaced
  BY <1>11 DEF UserChanges
<1>12. ASSUME UNCHANGED vars
       PROVE  (\A q \in Plan : Noticed(q)') /\ (\A v \in Worker : Relies(v)')
  BY <1>2, <1>4, <1>12, SameIdentity DEF vars, files, SameWork
<1>13. ASSUME NEW d \in Dir, UserReplaces(d)
       PROVE  (\A q \in Plan : Noticed(q)') /\ (\A v \in Worker : Relies(v)')
  <2>1. /\ identity' = [identity EXCEPT ![d] = @ + 1] /\ worker' = worker /\ UNCHANGED rows
        /\ \A p \in Plan :
              \/ replaced'[p] = replaced[p]
              \/ /\ replaced'[p] = replaced[p] \cup {d} /\ ~Unfrozen(p)
                 /\ \A w \in Worker :
                       ~(worker[w].plan = p /\ worker[w].pc \in Mutating /\ d \in Chain[worker[w].file])
    BY <1>13 DEF UserReplaces, Meddle
  <2>2. Growing /\ identity'[d] = identity[d] + 1
    BY <2>1, Identities DEF Growing, TypeOK
  <2>3. ASSUME NEW p \in Plan
        PROVE  Noticed(p)'
    <3>1. Trusting(p) /\ Unfrozen(p)' = Unfrozen(p) /\ \A e \in Dir : Trusted(p, e)' = Trusted(p, e)
      BY <2>1 DEF rows, Trusting, Unfrozen, Trusted, Bound
    <3>2. CASE replaced'[p] = replaced[p]
      BY <2>2, <3>1, <3>2, NoticedOn
    <3>3. CASE replaced'[p] = replaced[p] \cup {d} /\ ~Unfrozen(p)
      <4>1. \A e \in Dir : identity[e] \in Nat /\ identity'[e] \in Nat /\ Trusted(p, e) \in Nat
        BY Identities DEF TypeOK
      <4>2. replaced[p] \subseteq Dir
        BY DEF TypeOK
      <4>3. \A e \in Dir : Trusted(p, e)' <= identity'[e]
        BY <2>2, <3>1, <4>1 DEF Noticed, Growing
      <4>4. \A e \in replaced[p] : Trusted(p, e)' < identity'[e]
        BY <2>2, <3>1, <4>1, <4>2 DEF Noticed, Growing
      <4>5. Trusted(p, d)' < identity'[d]
        BY <2>2, <3>1, <4>1 DEF Noticed
      <4> QED BY <3>1, <3>3, <4>3, <4>4, <4>5 DEF Noticed
    <3> QED BY <2>1, <3>2, <3>3
  <2>4. ASSUME NEW w \in Worker
        PROVE  Relies(w)'
    <3>1. PICK p : p = worker[w].plan
      OBVIOUS
    <3>2. PICK f : f = worker[w].file
      OBVIOUS
    <3>3. \A e \in Dir : identity[e] \in Nat /\ identity'[e] \in Nat /\ worker[w].caught[e] \in Nat
      BY Identities DEF TypeOK
    <3>4. \A e \in Dir : worker[w].caught[e] <= identity'[e]
      BY <2>2, <3>3 DEF Relies, Growing
    <3>5. ASSUME worker[w].pc \in Mutating, plan[p].recursive
          PROVE  Chain[f] \cap replaced'[p] = {}
      <4>1. p \in Plan
        BY <3>1, <3>5 DEF Runs, Mutating
      <4>2. Chain[f] \cap replaced[p] = {}
        BY <3>1, <3>2, <3>5 DEF Relies
      <4> QED BY <2>1, <3>1, <3>2, <3>5, <4>1, <4>2
    <3>6. ASSUME worker[w].pc = "record", plan[p].recursive, NEW e \in Chain[f] \cap replaced'[p]
          PROVE  worker[w].caught[e] < identity'[e]
      <4>1. p \in Plan /\ f \in File
        BY <3>1, <3>2, <3>6 DEF Runs
      <4>2. e \in Dir
        BY <4>1, Chains
      <4>3. CASE e \in replaced[p]
        <5>1. worker[w].caught[e] < identity[e]
          BY <3>1, <3>2, <3>6, <4>3 DEF Relies
        <5> QED BY <2>2, <3>3, <4>2, <5>1 DEF Growing
      <4>4. CASE e = d
        <5>1. worker[w].caught[e] <= identity[e]
          BY <4>2 DEF Relies
        <5> QED BY <2>2, <3>3, <4>2, <4>4, <5>1
      <4> QED BY <2>1, <3>6, <4>1, <4>3, <4>4
    <3>7. plan' = plan
      BY <2>1 DEF rows
    <3> QED BY <2>1, <3>1, <3>2, <3>4, <3>5, <3>6, <3>7 DEF Relies
  <2> QED BY <2>3, <2>4
<1> QED BY <1>5, <1>6, <1>7, <1>8, <1>9, <1>10, <1>11, <1>12, <1>13, Steps

-----------------------------------------------------------------------------
(* The invariant and what follows from it.                                 *)

LEMMA InitInvariant == Init => Invariant
<1> SUFFICES ASSUME Init PROVE Invariant
  OBVIOUS
<1>1. TypeOK
  BY BlankRows, LastFileAssumption DEF Init, TypeOK, ItemState
<1>2. ASSUME NEW p \in Plan
      PROVE  Chosen(p) /\ Noticed(p)
  BY <1>2 DEF Init, Chosen, Noticed, Trusted, Bound, NoPlan, Unfrozen
<1>3. ASSUME NEW w \in Worker
      PROVE  Runs(w) /\ Relies(w) /\ Looked(w)
  BY <1>3 DEF Init, Runs, Looked, Seen, Relies, Mutating, Idle
<1> QED BY <1>1, <1>2, <1>3 DEF Invariant

LEMMA NextInvariant == Invariant /\ [Next]_vars => Invariant'
<1> SUFFICES ASSUME Invariant, [Next]_vars PROVE Invariant'
  OBVIOUS
<1>1. /\ TypeOK /\ \A p \in Plan : Chosen(p) /\ Noticed(p)
      /\ \A w \in Worker : Runs(w) /\ Relies(w) /\ Looked(w)
  BY DEF Invariant
<1>2. TypeOK'
  BY <1>1, NextTypeOK
<1>3. \A p \in Plan : Chosen(p)'
  BY <1>1, NextChosen
<1>4. \A w \in Worker : Runs(w)'
  BY <1>1, NextRuns
<1>5. \A w \in Worker : Looked(w)'
  BY <1>1, NextLooked
<1>6. (\A p \in Plan : Noticed(p)') /\ (\A w \in Worker : Relies(w)')
  BY <1>1, <1>2, NextNoticed
<1> QED BY <1>2, <1>3, <1>4, <1>5, <1>6 DEF Invariant

LEMMA InvariantHolds == Spec => []Invariant
<1> QED BY InitInvariant, NextInvariant, PTL DEF Spec

(* The rows of plans and items and the locals of workers keep their types, *)
(* whatever the order of the steps.                                        *)
THEOREM LastFileTypeCorrect == Spec => []TypeOK
<1>1. Invariant => TypeOK
  BY DEF Invariant
<1> QED BY <1>1, InvariantHolds, PTL

(* A worker that takes its file does nothing else to the tree's files.     *)
LEMMA TakingStep ==
    ASSUME Invariant, [Next]_vars, NEW w \in Worker, Takes(w),
           NEW p, p = worker[w].plan, NEW f, f = worker[w].file
    PROVE  /\ p \in Plan /\ f \in File /\ item[p][f] # "none" /\ Kept(p)
           /\ place' = [place EXCEPT ![f] = p] /\ extra' = extra
<1>1. TypeOK /\ (\A q \in Plan : Chosen(q)) /\ \A v \in Worker : Runs(v)
  BY DEF Invariant
<1>2. worker[w].pc = "take" /\ worker'[w].pc = "capture"
  BY DEF Takes, At
<1>3. p \in Plan /\ f \in File /\ item[p][f] # "none" /\ ~Unfrozen(p)
  BY <1>1, <1>2 DEF Runs
<1>4. Kept(p)
  BY <1>1, <1>3, NextKept
<1>5. worker' # worker /\ ~Carried(w)
  BY <1>2 DEF Carried, SameWork
<1>6. ASSUME NEW v \in Worker, StepTyped(v)
      PROVE  v = w
  BY <1>5, <1>6 DEF StepTyped
<1>7. ASSUME NEW v \in Worker, Working(v)
      PROVE  v = w /\ place' = [place EXCEPT ![f] = p] /\ extra' = extra
  <2>1. PICK q : q = worker[v].plan
    OBVIOUS
  <2>2. PICK x : x = worker[v].file
    OBVIOUS
  <2>3. StepTyped(v) /\ (Rests(v, q) \/ Turns(v, q, x) \/ Captures(v, q) \/ MovesFile(v, q, x))
    BY <1>1, <1>7, <2>1, <2>2, WorkingStep, Zenon
  <2>4. v = w /\ q = p /\ x = f
    BY <1>6, <2>1, <2>2, <2>3
  <2>5. MovesFile(w, p, f)
    BY <1>2, <2>3, <2>4 DEF Rests, Resting, Turns, Captures, Going
  <2> QED BY <2>4, <2>5 DEF MovesFile, Relocates
<1>8. ASSUME NEW q \in Plan, Drafts(q)
      PROVE  FALSE
  BY <1>5, <1>8 DEF Drafts
<1>9. ASSUME NEW v \in Worker, NEW q \in Plan, Advances(v, q)
      PROVE  FALSE
  <2>1. Resting(v, q) /\ v = w
    BY <1>5, <1>6, <1>9 DEF Advances
  <2> QED BY <1>2, <2>1 DEF Resting
<1>10. ASSUME NEW v \in Worker, TakeOver(v) \/ Crash(v)
       PROVE  FALSE
  <2>1. Crash(v)
    BY <1>5, <1>10 DEF TakeOver
  <2>2. StepTyped(v) /\ worker'[v].pc = "idle"
    BY <1>1, <2>1, StopStep DEF Crash
  <2> QED BY <1>2, <1>6, <2>2
<1>11. ~UserStep
  BY <1>5 DEF UserStep
<1>12. ~UNCHANGED vars
  BY <1>5 DEF vars
<1>13. \E v \in Worker : Working(v)
  BY <1>1, <1>8, <1>9, <1>10, <1>11, <1>12, Steps
<1> QED BY <1>3, <1>4, <1>7, <1>13

(* Only the owner goes on to an item.                                      *)
LEMMA ItemStep ==
    ASSUME Invariant, [Next]_vars, NEW w \in Worker, worker'[w].pc = "item", worker[w].pc # "item"
    PROVE  owner = w
<1>1. TypeOK /\ (\A q \in Plan : Chosen(q)) /\ \A v \in Worker : Runs(v)
  BY DEF Invariant
<1>2. worker' # worker /\ ~Carried(w)
  BY DEF Carried, SameWork
<1>3. ASSUME NEW v \in Worker, StepTyped(v)
      PROVE  v = w
  BY <1>2, <1>3 DEF StepTyped
<1>4. ASSUME NEW v \in Worker, Working(v)
      PROVE  owner = w
  <2>1. PICK q : q = worker[v].plan
    OBVIOUS
  <2>2. PICK x : x = worker[v].file
    OBVIOUS
  <2>3. StepTyped(v) /\ (Rests(v, q) \/ Turns(v, q, x) \/ Captures(v, q) \/ MovesFile(v, q, x))
    BY <1>1, <1>4, <2>1, <2>2, WorkingStep, Zenon
  <2>4. v = w
    BY <1>3, <2>3
  <2>5. Rests(v, q)
    BY <2>3, <2>4 DEF Turns, Captures, MovesFile, Going
  <2> QED BY <2>4, <2>5 DEF Rests, Resting
<1>5. ASSUME NEW v \in Worker, NEW q \in Plan, Advances(v, q)
      PROVE  owner = w
  <2>1. Resting(v, q) /\ v = w
    BY <1>2, <1>3, <1>5 DEF Advances
  <2> QED BY <2>1 DEF Resting
<1>6. ASSUME NEW q \in Plan, Drafts(q)
      PROVE  FALSE
  BY <1>2, <1>6 DEF Drafts
<1>7. ASSUME NEW v \in Worker, TakeOver(v) \/ Crash(v)
      PROVE  FALSE
  <2>1. Crash(v)
    BY <1>2, <1>7 DEF TakeOver
  <2>2. StepTyped(v) /\ worker'[v].pc = "idle"
    BY <1>1, <2>1, StopStep DEF Crash
  <2> QED BY <1>3, <2>2
<1>8. ~UserStep
  BY <1>2 DEF UserStep
<1>9. ~UNCHANGED vars
  BY <1>2 DEF vars
<1> QED BY <1>1, <1>4, <1>5, <1>6, <1>7, <1>8, <1>9, Steps

(* LeavesOne: what a plan takes leaves a file in every directory it has to *)
(* protect, and a copy, but for what others took since the look; a worker  *)
(* that has lost the lease takes one file at most.                         *)
THEOREM ProtectedKeepOne == Spec => LeavesOne
<1> DEFINE Leaves(w) ==
           LET p == worker[w].plan
               f == worker[w].file IN
           /\ Takes(w) =>
                  /\ \A d \in Protected(p, f) : d \in worker[w].gone \/ Count(d)' >= 1
                  /\ \/ GroupOf[f] \in worker[w].gone
                     \/ \E x \in Copies[GroupOf[f]] : place'[x] = "home"
           /\ owner /= w /\ worker'[w].pc = "item" => At(w, "item")
<1>1. ASSUME Invariant, [Next]_vars, NEW w \in Worker
      PROVE  Leaves(w)
  <2>1. PICK p : p = worker[w].plan
    OBVIOUS
  <2>2. PICK f : f = worker[w].file
    OBVIOUS
  <2>3. PICK gone : gone = worker[w].gone
    OBVIOUS
  <2>4. owner /= w /\ worker'[w].pc = "item" => At(w, "item")
    BY <1>1, ItemStep DEF At
  <2>5. ASSUME Takes(w)
        PROVE  /\ \A d \in Protected(p, f) : d \in gone \/ Count(d)' >= 1
               /\ GroupOf[f] \in gone \/ \E x \in Copies[GroupOf[f]] : place'[x] = "home"
    <3>1. /\ p \in Plan /\ f \in File /\ item[p][f] # "none"
          /\ place' = [place EXCEPT ![f] = p] /\ extra' = extra
      BY <1>1, <2>1, <2>2, <2>5, TakingStep
    <3>2. Looked(w) /\ Chosen(p) /\ TypeOK
      BY <1>1, <3>1 DEF Invariant
    <3>3. worker[w].pc = "take" /\ Seen(w)
      BY <2>5 DEF Takes, At, Seen
    <3>4. /\ \A d \in Protected(p, f) : d \in gone \/ Count(d) >= 2
          /\ GroupOf[f] \in gone \/ place[plan[p].keep[GroupOf[f]]] = "home"
      BY <2>1, <2>2, <2>3, <3>2, <3>3 DEF Looked
    <3>5. \A x \in File \ {f} : place'[x] = place[x]
      BY <3>1, <3>2 DEF TypeOK
    <3>6. ASSUME NEW d \in Protected(p, f), d \notin gone
          PROVE  Count(d)' >= 1
      <4>1. d \in Dir
        BY <3>1, <3>6, ProtectedDirs
      <4>2. Count(d) >= 2 /\ Count(d)' >= Count(d) - 1
        BY <3>1, <3>4, <3>5, <3>6, <4>1, CountTaken
      <4> QED BY <4>1, <4>2, CountSets, CountSetsNext
    <3>7. PICK keep : keep = plan[p].keep[GroupOf[f]]
      OBVIOUS
    <3>8. keep \in Copies[GroupOf[f]] \ {f} /\ keep \in File
      BY <3>1, <3>2, <3>7, Groups, GroupOfCopy DEF Chosen
    <3>9. GroupOf[f] \in gone \/ place'[keep] = "home"
      BY <3>4, <3>5, <3>7, <3>8
    <3> QED BY <3>6, <3>8, <3>9
  <2> QED BY <2>1, <2>2, <2>3, <2>4, <2>5
<1>2. Invariant /\ [Next]_vars => [\A w \in Worker : Leaves(w)]_vars
  BY <1>1
<1>3. [][\A w \in Worker : Leaves(w)]_vars => LeavesOne
  BY PTL DEF LeavesOne
<1> QED BY <1>2, <1>3, InvariantHolds, PTL DEF Spec

(* TrustedDirectories: what an item captured of the directories it left is *)
(* never taken for a directory that has been replaced.                     *)
THEOREM NoTrustInReplaced == Spec => TrustedDirectories
<1>1. ASSUME Invariant, NEW w \in Worker, Takes(w), plan[worker[w].plan].recursive
      PROVE  Chain[worker[w].file] \cap replaced[worker[w].plan] = {}
  <2>1. Relies(w) /\ worker[w].pc \in Mutating
    BY <1>1 DEF Invariant, Takes, At, Mutating
  <2> QED BY <1>1, <2>1 DEF Relies
<1>2. Invariant =>
          [\A w \in Worker : Takes(w) /\ plan[worker[w].plan].recursive =>
               Chain[worker[w].file] \cap replaced[worker[w].plan] = {}]_vars
  BY <1>1
<1> QED BY <1>2, InvariantHolds, PTL DEF TrustedDirectories
=============================================================================
