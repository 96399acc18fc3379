--------------------------- MODULE TempRegisters ---------------------------
(***************************************************************************)
(* The temporary registers of the assembly generator (assembly.c): a       *)
(* round-robin counter hands them out, GenerateExpression puts one node of *)
(* the expression tree in each, and nothing records which are still in     *)
(* use.  The emitted code is straight-line, so the order of emission is    *)
(* the order of execution, and this module describes both at once: a step  *)
(* emits the instructions of one tree node, in post-order, and executes    *)
(* them.                                                                   *)
(***************************************************************************)
EXTENDS Integers, Sequences

CONSTANTS
  temp_start, temp_max,   \* first and last temporary register
  MaxAllocs               \* bound: tree nodes evaluated in one statement

r4 == 4   \* target of a whole expression, and argument of the syscalls

ASSUME TempAssumption ==
  /\ temp_start \in Nat /\ temp_max \in Nat
  /\ r4 < temp_start /\ temp_start <= temp_max
ASSUME BoundAssumption == MaxAllocs \in Nat

Temps == temp_start .. temp_max
NTemps == temp_max - temp_start + 1

VARIABLES
  temp_next,  \* the counter
  regs,       \* regs[r]: which allocation wrote r last in this statement, or 0
  count,      \* allocations made in this statement
  operands    \* nodes evaluated and not yet consumed, innermost last

vars == <<temp_next, regs, count, operands>>

(* A pending node: its register, the allocation that produced its value,   *)
(* and the number of nodes of its subtree.                                 *)
Operand == [reg : Temps, at : 1 .. MaxAllocs, size : 1 .. MaxAllocs]

(* Bugs: the counter wraps one late, or one early, or does not move.       *)
NewTempWrapsLate == temp_next' = IF temp_next > temp_max THEN temp_start ELSE temp_next + 1
NewTempWrapsEarly == temp_next' = IF temp_next + 1 >= temp_max THEN temp_start ELSE temp_next + 1
NewTempStays == temp_next' = temp_next

NewTempRegister ==
  temp_next' = IF temp_next + 1 > temp_max THEN temp_start ELSE temp_next + 1

(* The bound is kept on the trees, not on the way they are evaluated: with *)
(* c nodes done and d of them pending, the operations that remain must fit.*)
Room(c, d) == c + (IF d = 1 THEN 1 ELSE d - 2) <= MaxAllocs

(* The value of a node is written to a new temporary, and the node becomes *)
(* the last of the operands that remain.                                   *)
PutInTemp(remaining, size) ==
  /\ Room(count + 1, Len(remaining) + 1)
  /\ NewTempRegister
  /\ count' = count + 1
  /\ regs' = [regs EXCEPT ![temp_next] = count + 1]
  /\ operands' = Append(remaining, [reg |-> temp_next, at |-> count + 1,
                                    size |-> size])

Depth == Len(operands)
Left  == operands[Depth - 1]
Right == operands[Depth]

-----------------------------------------------------------------------------
Init ==
  /\ temp_next = temp_start
  /\ regs = [r \in Temps |-> 0]
  /\ count = 0
  /\ operands = << >>

(* NODE_NUM or NODE_ID below another node.                                 *)
Leaf == PutInTemp(operands, 1)

(* NODE_BINOP below another node: the result takes a third register.       *)
Binop ==
  /\ Depth >= 2
  /\ PutInTemp(SubSeq(operands, 1, Depth - 2), Left.size + Right.size + 1)

(* NODE_BINOP at the root: the result goes to r4.  (A leaf at the root is  *)
(* loaded into r4 and touches no temporary.)  The next part of a print     *)
(* goes on from the same counter.                                          *)
RootBinop ==
  /\ Depth = 2
  /\ operands' = << >>
  /\ UNCHANGED <<temp_next, regs, count>>

(* GenerateAssemblyNode: ResetTempRegister before each statement.          *)
NextStatement ==
  /\ operands = << >>
  /\ temp_next' = temp_start
  /\ regs' = [r \in Temps |-> 0]
  /\ count' = 0
  /\ UNCHANGED operands

Next == Leaf \/ Binop \/ RootBinop \/ NextStatement

Spec == Init /\ [][Next]_vars

-----------------------------------------------------------------------------
(* Properties.                                                             *)

TypeOK ==
  /\ temp_next \in Temps
  /\ regs \in [Temps -> 0 .. MaxAllocs]
  /\ count \in 0 .. MaxAllocs
  /\ operands \in Seq(Operand)

Intact(o) == regs[o.reg] = o.at

(* A pending value survives exactly the next NTemps - 1 allocations, and   *)
(* the one after them overwrites it (NewTempRegister keeps no account of   *)
(* what is live).                                                          *)
LifetimeOfTemp ==
  \A i \in DOMAIN operands :
    Intact(operands[i]) <=> count - operands[i].at < NTemps

(* When an operation reads its operands, the right one always holds its    *)
(* value, and the left one does exactly when the right subtree has fewer   *)
(* nodes than there are temporaries: this is the class of expressions that *)
(* GenerateExpression compiles correctly.                                  *)
ReadsWhatItComputed ==
  Depth >= 2 =>
    /\ Intact(Right)
    /\ Intact(Left) <=> Right.size < NTemps

(* assembly.c:33-34, 141: r10-r19 are allocated for temporary calculations *)
(* - so that an operation finds both its operands where it left them.      *)
OperandsSurvive == Depth >= 2 => Intact(Left) /\ Intact(Right)

=============================================================================
