------------------------------ MODULE PathGraph ------------------------------
(* How a workflow of mode "file" becomes an ordered list of operations           *)
(* (app/workflows/graph.py, VirtualPathGraph; the grammar of the steps is        *)
(* app/workflows/validation.py).  A workflow is a sequence of steps that every    *)
(* candidate file passes through in turn; the operations of all candidates are    *)
(* then put into one order in which a plan can execute them one by one.           *)
(* A path is <<directory, name>>; a rename step is the function that replacing    *)
(* a pattern is on the names of the instance.                                      *)
EXTENDS Naturals, Sequences, FiniteSets

CONSTANTS Dir,      \* directories inside the allowed roots
          Name      \* file names
ASSUME PathAssumption == Dir # {} /\ Name # {}

Path == Dir \X Name
Rename(f) == [type |-> "rename", name |-> f]
Move(d) == [type |-> "move", dir |-> d]
Touch == [type |-> "touch"]
Quarantine == [type |-> "quarantine"]

(* A quarantine step is the last one.  (Scans and filters come before the first   *)
(* action and decide what the candidates are.)                                    *)
Grammatical(steps) == \A k \in DOMAIN steps : steps[k].type = "quarantine" => k = Len(steps)

(* Where a step takes a file.                                                     *)
ApplyRename(step, path) == <<path[1], step.name[path[2]]>>
ApplyMove(step, path) == <<step.dir, path[2]>>
After(step, path) == CASE step.type = "rename" -> ApplyRename(step, path)
                       [] step.type = "move" -> ApplyMove(step, path)
                       [] OTHER -> path

(* Where a file that starts at the given path is after k steps.                   *)
Simulation(start, steps) ==
  LET at[k \in 0..Len(steps)] == IF k = 0 THEN start ELSE After(steps[k], at[k - 1]) IN at

(* The operations of the candidates: file[c] is where candidate c is on disk.  A   *)
(* rename or a move that leaves the path as it is makes no operation.              *)
AllOperations(file, steps) ==
  LET at == [c \in DOMAIN file |-> Simulation(file[c], steps)] IN
  {[candidate |-> c, step |-> k, type |-> steps[k].type, source |-> at[c][k - 1], target |-> at[c][k]] :
     c \in DOMAIN file, k \in DOMAIN steps}
Moves(op) == op.target # op.source
OperationsOf(file, steps) == {op \in AllOperations(file, steps) : op.type \in {"touch", "quarantine"} \/ Moves(op)}

(* Two candidates may not be taken to one path by one step, nor end at one path.  *)
StepCollision(ops) ==
  \E x, y \in ops : Moves(x) /\ Moves(y) /\ x.candidate # y.candidate /\ x.step = y.step /\ x.target = y.target
EndCollision(file, steps, ops) ==
  \E x, y \in ops : /\ Moves(x) /\ Moves(y) /\ x.candidate # y.candidate /\ x.target = y.target
                    /\ \A op \in {x, y} : Simulation(file[op.candidate], steps)[Len(steps)] = op.target

(* A target that exists must be where a candidate is, and be left by some          *)
(* operation.                                                                     *)
Vacating(ops, path) == {op \in ops : Moves(op) /\ op.source = path}
Occupied(file, disk, ops) ==
  \E op \in ops : /\ Moves(op) /\ op.target \in disk
                  /\ \/ \A c \in DOMAIN file : file[c] # op.target
                     \/ Vacating(ops, op.target) = {}

(* x comes before y: they are of one candidate and in its order, or x leaves the   *)
(* path that y takes.                                                             *)
\* Mutant of MustPrecede: the order within each candidate only.
MustPrecedeOwn(x, y) == x.candidate = y.candidate /\ x.step < y.step
MustPrecede(x, y) ==
  \/ x.candidate = y.candidate /\ x.step < y.step
  \/ x.candidate # y.candidate /\ Moves(x) /\ Moves(y) /\ x.source = y.target

(* Of the operations that nothing left has to precede, the one with the smallest   *)
(* step comes first, then the smallest number among those of its candidate, then   *)
(* the smallest candidate.                                                        *)
Number(ops, op) == Cardinality({x \in ops : x.candidate = op.candidate /\ x.step < op.step})
ComesFirst(ops, x, y) ==
  \/ x.step < y.step
  \/ x.step = y.step /\ Number(ops, x) < Number(ops, y)
  \/ x.step = y.step /\ Number(ops, x) = Number(ops, y) /\ x.candidate <= y.candidate
Free(left) == {op \in left : \A x \in left : x # op => ~MustPrecede(x, op)}
Order(ops) ==
  LET order[k \in 0..Cardinality(ops)] ==
        IF k = 0 THEN << >>
        ELSE LET left == ops \ {order[k - 1][i] : i \in DOMAIN order[k - 1]}
                 free == Free(left)
             IN IF free = {} THEN order[k - 1]
                ELSE Append(order[k - 1], CHOOSE op \in free : \A x \in free : ComesFirst(ops, op, x))
  IN order[Cardinality(ops)]

(* resolve_ordered_operations refuses collisions, and cycles, which leave           *)
(* operations over; else the plan has the operations in their order.               *)
Accepted(file, disk, steps) ==
  LET ops == OperationsOf(file, steps) IN
  /\ ~StepCollision(ops) /\ ~EndCollision(file, steps, ops) /\ ~Occupied(file, disk, ops)
  /\ Len(Order(ops)) = Cardinality(ops)
-----------------------------------------------------------------------------
(* The reference: the operations are executed one by one, each only if its file    *)
(* is at its source and nothing is at its target; others are the paths of files    *)
(* that are no candidates.                                                         *)
Possible(where, others, op) ==
  /\ where[op.candidate] = op.source
  /\ Moves(op) => op.target \notin others /\ \A c \in DOMAIN where : where[c] # op.target
Executed(file, others, order) ==
  LET where[k \in 0..Len(order)] ==
        IF k = 0 THEN file ELSE [where[k - 1] EXCEPT ![order[k].candidate] = order[k].target]
  IN [possible |-> \A k \in 1..Len(order) : Possible(where[k - 1], others, order[k]),
      result |-> where[Len(order)]]
ExecutableFor(file, others, steps) ==
  Accepted(file, others \cup {file[c] : c \in DOMAIN file}, steps) =>
    LET run == Executed(file, others, Order(OperationsOf(file, steps))) IN
    run.possible /\ run.result = [c \in DOMAIN file |-> Simulation(file[c], steps)[Len(steps)]]
=============================================================================
