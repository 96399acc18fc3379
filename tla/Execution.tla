------------------------------ MODULE Execution ------------------------------
(***************************************************************************)
(* One program, twice: the interpreter walks its AST, and the processor    *)
(* runs the code that assembly.c emits for it and machine_code.c encodes.  *)
(* The code is straight-line, so each item's instructions are executed     *)
(* beside the interpreter's step.  Symbols are taken to resolve, and .data *)
(* to be as Assembly says.                                                 *)
(***************************************************************************)
EXTENDS Interpreter

CONSTANTS
  IMM_HALF,              \* half of the range of an immediate operand
  MACHINE_HALF,          \* half of the range of a register
  temp_start, temp_max,  \* first and last temporary register
  Unescape               \* Unescape[l]: GetStringLabel resolves escapes (again)

ASSUME WidthAssumption ==
  /\ IMM_HALF \in Nat \ {0} /\ MACHINE_HALF \in Nat \ {0}
  /\ INT_HALF <= MACHINE_HALF /\ MACHINE_HALF % INT_HALF = 0
ASSUME TemporariesAssumption ==
  temp_start \in Nat /\ temp_max \in Nat /\ temp_start <= temp_max
ASSUME EscapeAssumption == Unescape \in [Literal -> Literal]

Temps == temp_start .. temp_max
NTemps == temp_max - temp_start + 1

VARIABLES
  mem,        \* the doubleword at each variable's label
  text,       \* the text there, of string variables, as .data stands so far
  regs,       \* the temporary registers
  temp_next,  \* the next one to be used
  nodes,      \* where the values on the stack are, see Node
  shown,      \* what the last syscall printed
  told,       \* history: the texts the interpreter printed for a string variable
  late,       \* history: variables given another text after they were printed
  exact       \* history: how far the processor's numbers are the interpreter's

registers == <<regs, temp_next, nodes>>
texts == <<text, told, late>>
machine == <<mem, registers, texts, shown, exact>>
allVars == <<vars, machine>>

-----------------------------------------------------------------------------
(* The processor.  A value is known, or text, or what a division by zero   *)
(* leaves in LO.                                                           *)

Known(v) == [known |-> TRUE, val |-> v]
Unknown == [known |-> FALSE, val |-> 0]

(* daddiu sign-extends its immediate, which the encoder has cut.           *)
Immediate(k) == Known(Wrap(IMM_HALF, k))

(* daddu, dsubu, dmult and mflo, ddiv and mflo.                            *)
Result(op, l, r) ==
  IF ~l.known \/ ~r.known \/ (op = "/" /\ r.val = 0) THEN Unknown
  ELSE Known(Wrap(MACHINE_HALF, Operation(op, l.val, r.val)))

(* A node of the expression has its value in a temporary, and is the at-th *)
(* node that was emitted; so the nodes of a subtree can be counted.        *)
Node(r, a) == [reg |-> r, at |-> a]

LastNode == nodes[Len(nodes)]
LeftNode == nodes[Len(nodes) - 1]
Emitted == IF nodes = << >> THEN 0 ELSE LastNode.at

LeftRegister == regs[LeftNode.reg]
RightRegister == regs[LastNode.reg]

NoText == [kind |-> "none"]

-----------------------------------------------------------------------------
MachineInit ==
  /\ mem = [n \in Ident |-> Known(0)]
  /\ text = [n \in Ident |-> NoText]
  /\ regs = [r \in Temps |-> Unknown]
  /\ temp_next = temp_start /\ nodes = << >>
  /\ shown = [kind |-> "newline"]
  /\ told = [n \in Ident |-> {}] /\ late = {}
  /\ exact = "exact"

(* NewTempRegister, and the instructions that put a node's value there.    *)
(* The root of an expression goes to r4 instead: see GiveBack.             *)
PutInTemp(remaining, value) ==
  /\ regs' = [regs EXCEPT ![temp_next] = value]
  /\ temp_next' = IF temp_next + 1 > temp_max THEN temp_start ELSE temp_next + 1
  /\ nodes' = Append(remaining, Node(temp_next, Emitted + 1))
  /\ UNCHANGED <<mem, texts, shown>>

(* The last node was the root, and its value is in r4; the temporary it    *)
(* was given above is the next one to be used.                             *)
GiveBack ==
  /\ temp_next' = LastNode.reg
  /\ nodes' = << >>
  /\ UNCHANGED regs

(* ResetTempRegister, unless this is a further item of a declaration.      *)
EmitTarget ==
  /\ temp_next' \in {temp_start, temp_next}
  /\ UNCHANGED <<mem, regs, nodes, texts, shown, exact>>

(* GenerateLoadImmediate.                                                  *)
EmitNumber(k) ==
  /\ PutInTemp(nodes, Immediate(k))
  /\ exact' = IF Immediate(k) = Known(k) THEN exact ELSE "lost"

(* ld r, n(r0).                                                            *)
EmitIdentifier(n) == PutInTemp(nodes, mem[n]) /\ UNCHANGED exact

(* When the right operand has as many nodes as there are temporaries, the  *)
(* left one's was used again.                                              *)
Overwritten == LastNode.at - LeftNode.at >= NTemps

(* After an overflow the two agree modulo the range of int, and after a    *)
(* division of such numbers no longer.                                     *)
Exactness(op, l, r) ==
  CASE exact = "lost" \/ Overwritten -> "lost"
    [] exact = "wrapped" /\ ~Overwritten -> IF op = "/" THEN "lost" ELSE "wrapped"
    [] exact = "exact" /\ ~Overwritten ->
         IF op = "/" /\ r = 0 THEN "exact"
         ELSE IF Operation(op, l, r) \in Signed(INT_HALF) THEN "exact" ELSE "wrapped"

(* Bug: the operands come in the wrong order.                              *)
EmitSwapped(op) ==
  /\ PutInTemp(SubSeq(nodes, 1, Len(nodes) - 2), Result(op, RightRegister, LeftRegister))
  /\ exact' = Exactness(op, LeftValue, RightValue)

(* Bug: mfhi, so that the high half of a product is taken.                 *)
EmitHigh(op) ==
  LET high == [known |-> LeftRegister.known /\ RightRegister.known,
               val |-> (LeftRegister.val * RightRegister.val) \div (2 * MACHINE_HALF)]
  IN /\ PutInTemp(SubSeq(nodes, 1, Len(nodes) - 2),
                  IF op = "*" THEN high ELSE Result(op, LeftRegister, RightRegister))
     /\ exact' = Exactness(op, LeftValue, RightValue)

EmitOperate(op) ==
  /\ PutInTemp(SubSeq(nodes, 1, Len(nodes) - 2), Result(op, LeftRegister, RightRegister))
  /\ exact' = Exactness(op, LeftValue, RightValue)

(* sd r4, n(r0).                                                           *)
EmitStore ==
  /\ mem' = [mem EXCEPT ![stmt.name] = RightRegister]
  /\ GiveBack
  /\ UNCHANGED <<texts, shown, exact>>

(* No code: the text of a string variable goes to .data, and what its      *)
(* characters are as a number is not known.                                *)
DeclareText(n, l) ==
  /\ text' = [text EXCEPT ![n] = StringPart(l)]
  /\ mem' = [mem EXCEPT ![n] = Unknown]
  /\ UNCHANGED <<registers, told, late, shown, exact>>

(* Bug: AddStringVariable keeps the first text.                            *)
AssignTextOnce(n, l) ==
  /\ mem' = [mem EXCEPT ![n] = Unknown]
  /\ late' = IF told[n] \subseteq {StringPart(l)} THEN late ELSE late \cup {n}
  /\ UNCHANGED <<text, registers, told, shown, exact>>

(* No code either: the one text of the variable is replaced, for what was  *)
(* printed before as well.  A bare "ch n" stays an integer; its name then  *)
(* labels a doubleword and a text.                                         *)
AssignText(n, l) ==
  /\ text' = IF text[n] = NoText THEN text ELSE [text EXCEPT ![n] = StringPart(l)]
  /\ mem' = [mem EXCEPT ![n] = Unknown]
  /\ late' = IF told[n] \subseteq {StringPart(l)} THEN late ELSE late \cup {n}
  /\ UNCHANGED <<registers, told, shown, exact>>

Shown(value) == IF value.known THEN IntPart(value.val) ELSE [kind |-> "unknown"]

(* GeneratePrint, part by part: the address of a literal or of a string    *)
(* variable and syscall 4, or an integer and syscall 1.                    *)
EmitBeginPrint ==
  /\ temp_next' = temp_start
  /\ UNCHANGED <<mem, regs, nodes, texts, shown, exact>>

EmitPrintLiteral(l) ==
  /\ shown' = StringPart(Unescape[l])
  /\ UNCHANGED <<mem, registers, texts, exact>>

EmitPrintVariable(n) ==
  /\ IF text[n] = NoText
     THEN shown' = Shown(mem[n]) /\ UNCHANGED told
     ELSE shown' = text[n] /\ told' = [told EXCEPT ![n] = @ \cup {said'.part}]
  /\ UNCHANGED <<mem, registers, text, late, exact>>

EmitPrintExpression ==
  /\ shown' = Shown(RightRegister)
  /\ GiveBack
  /\ UNCHANGED <<mem, texts, exact>>

(* Every print ends with a newline.                                        *)
EmitNewline == shown' = NewlinePart /\ UNCHANGED <<mem, registers, texts, exact>>

-----------------------------------------------------------------------------
BothInit == Init /\ MachineInit

Statements ==
  \/ \E n \in Ident, type \in {"int", "ch"} : Declare(n, type) /\ UNCHANGED machine
  \/ \E n \in Ident, kind \in {"decl", "assign"} : Target(kind, n) /\ EmitTarget
  \/ \E n \in Ident, l \in Literal : \/ DeclareString(n, l) /\ DeclareText(n, l)
                                     \/ AssignString(n, l) /\ AssignText(n, l)
  \/ Store /\ EmitStore

Expressions ==
  \/ \E k \in Numeral : NumberNode(k) /\ EmitNumber(k)
  \/ \E n \in Ident : Identifier(n) /\ EmitIdentifier(n)
  \/ \E op \in {"+", "-", "*", "/"} : Operate(op) /\ EmitOperate(op)

Prints ==
  \/ BeginPrint /\ EmitBeginPrint
  \/ \E l \in Literal : PrintLiteral(l) /\ EmitPrintLiteral(l)
  \/ \E n \in Ident : PrintVariable(n) /\ EmitPrintVariable(n)
  \/ PrintExpression /\ EmitPrintExpression
  \/ EndPrint /\ EmitNewline

BothNext ==
  \/ Statements \/ Expressions \/ Prints
  \/ (Return \/ Finished) /\ UNCHANGED machine

BothSpec == BothInit /\ [][BothNext]_allVars

-----------------------------------------------------------------------------
(* Properties.                                                             *)

(* What each side has for the same thing, as pairs: the node that was just *)
(* computed, and the variables.                                            *)
Pairs ==
  {<<RightRegister, stack[i].val>> : i \in DOMAIN stack \cap {Len(nodes)}}
  \cup {<<mem[n], Abstract!IntOf(ValueOf(n))>> : n \in Ident}

PrintedNow == mode = "run" /\ stmt.kind = "print" /\ stmt.last # "nothing" /\ stack = << >>

(* The processor computes, stores and prints the interpreter's numbers as  *)
(* long as no int overflowed, no constant was too wide for its instruction *)
(* and no right operand had as many nodes as there are temporaries; the    *)
(* result of a division by zero and a string read as a number are excepted.*)
SameNumbers ==
  mode = "run" /\ exact = "exact" =>
    /\ \A p \in Pairs : p[1].known => p[1].val = p[2]
    /\ PrintedNow /\ shown.kind = "int" => shown = said.part

(* When ints overflowed, but nothing was divided since, the processor's    *)
(* numbers are still the interpreter's in their low bits: C's wrapping int *)
(* and the 64-bit registers drift apart only at a division.                *)
SameLowBits ==
  mode = "run" /\ exact \in {"exact", "wrapped"} =>
    \A p \in Pairs : p[1].known => Wrap(INT_HALF, p[1].val) = p[2]

(* The text at the label of a string variable is the one the interpreter   *)
(* has on its heap for it.  Whatever the code printed from that label is   *)
(* the text as it stands now: what the interpreter printed then, unless    *)
(* the variable was given another text since.  A text that was printed     *)
(* just now is the interpreter's, unless it is a literal that a second     *)
(* unescaping changes.                                                     *)
SameTexts ==
  mode = "run" =>
    /\ \A n \in Ident : text[n] # NoText => text[n] = ValueOf(n)
    /\ \A n \in Ident \ late : told[n] \subseteq {text[n]}
    /\ PrintedNow /\ shown.kind = "str" =>
         shown = said.part \/ \E l \in Literal : Unescape[l] # l /\ said.part = StringPart(l)

=============================================================================
