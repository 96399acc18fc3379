----------------------------- MODULE Interpreter -----------------------------
(***************************************************************************)
(* The interpreter (interpreter.c): it walks the AST and keeps the         *)
(* variables in an array that is reallocated when it is full, strings on   *)
(* the heap, and the output in a capture buffer.                           *)
(*                                                                         *)
(* The AST arrives in the order in which the walk visits it: a declaration *)
(* or assignment of an expression is its target, the expression in         *)
(* post-order, and a store; a print is its parts and an end.  It is        *)
(* extended by whatever the front end's checks let pass                    *)
(* (Frontend!BackEndContract).                                             *)
(***************************************************************************)
EXTENDS Sequences, FiniteSets, Arithmetic, OutputCapture

CONSTANTS
  Ident, Literal,
  Number,            \* values of numeric literals
  INT_HALF,          \* half of the range of int
  Size,              \* Size[l]: strlen
  Width,             \* Width[v]: characters that "%d" makes of v
  INITIAL_CAPACITY,  \* var_capacity of create_state
  MaxItems           \* bound: items of a program

ASSUME InterpreterAssumption ==
  /\ INT_HALF \in Nat \ {0}
  /\ Number \subseteq Signed(INT_HALF)
  /\ Size \in [Literal -> Nat] /\ Width \in [Signed(INT_HALF) -> Nat]
  /\ INITIAL_CAPACITY \in Nat \ {0} /\ MaxItems \in Nat

VARIABLES
  mode,      \* "run", "done" or "crashed"
  items,     \* items executed so far
  declared,  \* history: the type each variable was declared with
  stmt,      \* the statement being executed
  state,     \* InterpreterState: vars and var_capacity
  held,      \* the Variable * that is kept while an expression is evaluated
  stack,     \* values of evaluated nodes that wait for their parent
  heap,      \* the strings on the heap, by address
  output,    \* the capture buffer
  written,   \* history: what was given to the buffer
  said       \* history: the last part printed, and how many there were

statement == <<declared, stmt>>
memory == <<state, held, heap>>
printing == <<output, written, said>>
vars == <<mode, items, statement, memory, stack, printing>>

-----------------------------------------------------------------------------
(* The array of variables.  A Variable's value is a union: as says which   *)
(* member was written last, and reading a pointer that was not written is  *)
(* a wild access.                                                          *)

AsInt(v) == [as |-> "int", val |-> v]
AsStr(address) == [as |-> "str", val |-> address]

NewVariable(n) == [name |-> n, value |-> AsInt(0), is_string |-> FALSE,
                   initialized |-> FALSE]

Matching(s, n) == {i \in DOMAIN s.vars : s.vars[i].name = n}

FindVariable(s, n) == CHOOSE i \in Matching(s, n) : \A j \in Matching(s, n) : i <= j

(* Bug: the array is grown for one more than it has.                       *)
AddVariableLate(s, n) ==
  [vars |-> Append(s.vars, NewVariable(n)),
   var_capacity |-> IF Len(s.vars) > s.var_capacity
                    THEN 2 * s.var_capacity ELSE s.var_capacity]

Grown(capacity) == IF capacity = 0 THEN INITIAL_CAPACITY ELSE 2 * capacity

AddVariable(s, n) ==
  [vars |-> Append(s.vars, NewVariable(n)),
   var_capacity |-> IF Len(s.vars) >= s.var_capacity
                    THEN Grown(s.var_capacity) ELSE s.var_capacity]

FindOrAdd(s, n) == IF Matching(s, n) = {} THEN AddVariable(s, n) ELSE s

Variable(s, n) == s.vars[FindVariable(s, n)]

With(s, i, var) == [s EXCEPT !.vars[i] = var]

GetIntValue(var) ==
  IF ~var.initialized \/ var.is_string THEN 0 ELSE var.value.val

(* A pointer into the array: an index, and the block it points into.       *)
(* realloc moves the array to another block; the capacity, which grows     *)
(* each time, identifies it.                                               *)
NULL == [index |-> 0, block |-> 0]
PointerTo(s, n) == [index |-> FindVariable(s, n), block |-> s.var_capacity]

-----------------------------------------------------------------------------
(* The heap.  strdup takes an address that is free.                        *)

Address(h) == CHOOSE a \in 1 .. Cardinality(DOMAIN h) + 1 : a \notin DOMAIN h

Strdup(h, l) == [a \in DOMAIN h \cup {Address(h)} |-> IF a = Address(h) THEN l ELSE h[a]]

Free(h, addresses) == [a \in DOMAIN h \ addresses |-> h[a]]

OwnsString(var) == var.is_string /\ var.initialized

-----------------------------------------------------------------------------
NoStatement == [kind |-> "none", name |-> "nothing", last |-> "nothing"]

Init ==
  /\ mode = "run" /\ items = 0
  /\ declared = [n \in Ident |-> "none"]
  /\ stmt = NoStatement
  /\ state = [vars |-> << >>, var_capacity |-> INITIAL_CAPACITY]
  /\ held = NULL /\ stack = << >> /\ heap = << >>
  /\ output = CaptureInit
  /\ written = [bytes |-> 0, clipped |-> FALSE]
  /\ said = [part |-> [kind |-> "newline"], count |-> 0]

(* How many items an open statement needs to be completed: a lone          *)
(* identifier must become an operand before an expression can be printed.  *)
Rest(kind, nodes) ==
  CASE kind = "none" -> 0
    [] kind \in {"decl", "assign"} -> IF nodes = << >> THEN 2 ELSE Len(nodes)
    [] kind = "print" -> IF Len(nodes) = 1 /\ nodes[1].type = "id" THEN 4
                         ELSE Len(nodes) + 1

(* The program has an item more, and executing it opens, continues or      *)
(* closes a statement.                                                     *)
Item(next, nodes) ==
  /\ mode = "run" /\ items + 1 + Rest(next.kind, nodes) <= MaxItems
  /\ items' = items + 1
  /\ stmt' = next

Opening(kind, n) == [kind |-> kind, name |-> n, last |-> "nothing"]

-----------------------------------------------------------------------------
(* Declarations and assignments.                                           *)

(* Bug: a declaration without a value leaves the array alone.              *)
DeclareNothing(n, type) ==
  /\ stmt.kind = "none" /\ declared[n] = "none" /\ Item(NoStatement, << >>)
  /\ declared' = [declared EXCEPT ![n] = type]
  /\ UNCHANGED <<mode, memory, stack, printing>>

Declare(n, type) ==
  /\ stmt.kind = "none" /\ declared[n] = "none" /\ Item(NoStatement, << >>)
  /\ declared' = [declared EXCEPT ![n] = type]
  /\ LET s == FindOrAdd(state, n) IN
       state' = With(s, FindVariable(s, n),
                     [Variable(s, n) EXCEPT !.initialized = FALSE, !.value = AsInt(0)])
  /\ UNCHANGED <<mode, held, heap, stack, printing>>

(* The variable is looked up, or added, before the expression is evaluated.*)
Target(kind, n) ==
  /\ stmt.kind = "none"
  /\ declared[n] = IF kind = "decl" THEN "none" ELSE "int"
  /\ Item(Opening(kind, n), << >>)
  /\ state' = FindOrAdd(state, n)
  /\ held' = PointerTo(FindOrAdd(state, n), n)
  /\ UNCHANGED <<mode, declared, heap, stack, printing>>

(* Undefined behaviour may kill the process, or pass unnoticed.            *)
Risking(bad) == mode' \in IF bad THEN {"run", "crashed"} ELSE {"run"}

Live(pointer) == pointer.block = state.var_capacity

(* Through a pointer into a block that was freed, the value is lost.       *)
Store ==
  /\ stmt.kind \in {"decl", "assign"} /\ Len(stack) = 1
  /\ Item(NoStatement, << >>)
  /\ declared' = [declared EXCEPT ![stmt.name] = "int"]
  /\ Risking(~Live(held))
  /\ LET var == [state.vars[held.index] EXCEPT !.value = AsInt(stack[1].val),
                   !.initialized = TRUE, !.is_string = FALSE]
     IN state' = IF Live(held) THEN With(state, held.index, var) ELSE state
  /\ held' = NULL /\ stack' = << >>
  /\ UNCHANGED <<heap, printing>>

Given(s, n, address) ==
  With(s, FindVariable(s, n),
       [Variable(s, n) EXCEPT !.value = AsStr(address), !.initialized = TRUE,
                              !.is_string = TRUE])

(* ch n = "l": nothing is freed.                                           *)
DeclareString(n, l) ==
  /\ stmt.kind = "none" /\ declared[n] = "none" /\ Item(NoStatement, << >>)
  /\ declared' = [declared EXCEPT ![n] = "ch"]
  /\ state' = Given(FindOrAdd(state, n), n, Address(heap))
  /\ heap' = Strdup(heap, l)
  /\ UNCHANGED <<mode, held, stack, printing>>

(* Bug: the old string is not freed.                                       *)
AssignStringLeaking(n, l) ==
  /\ stmt.kind = "none" /\ declared[n] = "ch" /\ Item(NoStatement, << >>)
  /\ state' = Given(FindOrAdd(state, n), n, Address(heap))
  /\ heap' = Strdup(heap, l)
  /\ UNCHANGED <<mode, declared, held, stack, printing>>

(* The variable does not point to a string on the heap.                    *)
Dangles(var) == var.value.as = "int" \/ var.value.val \notin DOMAIN heap

(* n = "l": the old string is freed before the new one is copied.          *)
AssignString(n, l) ==
  /\ stmt.kind = "none" /\ declared[n] = "ch" /\ Item(NoStatement, << >>)
  /\ LET s == FindOrAdd(state, n)
         old == Variable(s, n)
         kept == IF OwnsString(old) THEN Free(heap, {old.value.val}) ELSE heap
     IN /\ Risking(OwnsString(old) /\ Dangles(old))
        /\ state' = Given(s, n, Address(kept))
        /\ heap' = Strdup(kept, l)
  /\ UNCHANGED <<declared, held, stack, printing>>

-----------------------------------------------------------------------------
(* Expressions, in post-order.  A node is its value and its node_type.     *)
(* '-' factor is (-1) * factor, so -1 is among the numbers of an AST.      *)

Numeral == Number \cup {-1}

Evaluated(type, v) == [type |-> type, val |-> v]

Push(below, node) ==
  /\ Item(stmt, Append(below, node))
  /\ stack' = Append(below, node)

NumberNode(k) ==
  /\ stmt.kind # "none"
  /\ Push(stack, Evaluated("num", k))
  /\ UNCHANGED <<mode, declared, memory, printing>>

(* In a print, a string variable can only be a part of its own.            *)
Identifier(n) ==
  /\ stmt.kind # "none"
  /\ declared[n] \in IF stmt.kind = "print" THEN {"int"} ELSE {"int", "ch"}
  /\ state' = FindOrAdd(state, n)
  /\ LET s == FindOrAdd(state, n) IN
       Push(stack, Evaluated("id", GetIntValue(Variable(s, n))))
  /\ UNCHANGED <<mode, declared, held, heap, printing>>

LeftValue == stack[Len(stack) - 1].val
RightValue == stack[Len(stack)].val

(* The one quotient that is no int: the processor traps.                   *)
Traps(op, l, r) == op = "/" /\ l = -INT_HALF /\ r = -1

Binop(op, l, r) ==
  IF op = "/" /\ r = 0 THEN 0 ELSE Wrap(INT_HALF, Operation(op, l, r))

Operate(op) ==
  /\ Len(stack) >= 2
  /\ Push(SubSeq(stack, 1, Len(stack) - 2),
          Evaluated("binop", Binop(op, LeftValue, RightValue)))
  /\ mode' = IF Traps(op, LeftValue, RightValue) THEN "crashed" ELSE "run"
  /\ UNCHANGED <<declared, memory, printing>>

-----------------------------------------------------------------------------
(* Prints.                                                                 *)

Garbage == CHOOSE l \in Literal : TRUE

StringPart(l) == [kind |-> "str", lit |-> l]
IntPart(v) == [kind |-> "int", int |-> v]
NewlinePart == [kind |-> "newline"]

Length(part) ==
  CASE part.kind = "str" -> Size[part.lit]
    [] part.kind = "int" -> Width[part.int]
    [] part.kind = "newline" -> 1

CapturePart(part) ==
  /\ output' = CapturePrintf(output, Length(part))
  /\ written' = [bytes |-> written.bytes + Length(part),
                 clipped |-> written.clipped \/ Clips(Length(part))]
  /\ said' = [part |-> part, count |-> said.count + 1]

BeginPrint ==
  /\ stmt.kind = "none"
  /\ items + 2 < MaxItems
  /\ Item(Opening("print", "nothing"), << >>)
  /\ UNCHANGED <<mode, declared, memory, stack, printing>>

(* A part is complete; last is what its content is.                        *)
Part(last, n) ==
  /\ stmt.kind = "print"
  /\ Item([kind |-> "print", name |-> n, last |-> last], << >>)

PrintLiteral(l) ==
  /\ stack = << >>
  /\ Part("STR", "nothing")
  /\ CapturePart(StringPart(l))
  /\ UNCHANGED <<mode, declared, memory, stack>>

PrintVariable(n) ==
  /\ stack = << >> /\ declared[n] # "none"
  /\ Part("ID", n)
  /\ LET known == Matching(state, n) # {} /\ Variable(state, n).initialized
         var == Variable(state, n)
     IN /\ Risking(known /\ var.is_string /\ Dangles(var))
        /\ CapturePart(CASE ~known -> IntPart(0)
                          [] known /\ ~var.is_string -> IntPart(var.value.val)
                          [] known /\ var.is_string /\ Dangles(var) -> StringPart(Garbage)
                          [] OTHER -> StringPart(heap[var.value.val]))
  /\ UNCHANGED <<declared, memory, stack>>

PrintExpression ==
  /\ Len(stack) = 1 /\ stack[1].type # "id"
  /\ Part("expression", "nothing")
  /\ CapturePart(IntPart(stack[1].val))
  /\ stack' = << >>
  /\ UNCHANGED <<mode, declared, memory>>

(* Bug: no newline behind a variable of type ch.                           *)
EndPrintByType ==
  /\ stmt.last # "nothing" /\ stack = << >> /\ Item(NoStatement, << >>)
  /\ IF stmt.last = "STR" \/ (stmt.last = "ID" /\ declared[stmt.name] = "ch")
     THEN UNCHANGED printing
     ELSE CapturePart(NewlinePart)
  /\ UNCHANGED <<mode, declared, memory, stack>>

(* A newline, unless the last part is a literal or a variable that holds   *)
(* a string now.                                                           *)
EndPrint ==
  /\ stmt.last # "nothing" /\ stack = << >> /\ Item(NoStatement, << >>)
  /\ LET text == \/ stmt.last = "STR"
                 \/ /\ stmt.last = "ID" /\ Matching(state, stmt.name) # {}
                    /\ Variable(state, stmt.name).is_string
     IN IF text THEN UNCHANGED printing ELSE CapturePart(NewlinePart)
  /\ UNCHANGED <<mode, declared, memory, stack>>

-----------------------------------------------------------------------------
(* interpret_program returns a copy of the output; free_state releases the *)
(* strings that the variables own, the array and the buffer.               *)
Return ==
  /\ mode = "run" /\ stmt.kind = "none"
  /\ LET owners == {i \in DOMAIN state.vars : OwnsString(state.vars[i])}
         owned == {state.vars[i].value.val : i \in owners}
     IN /\ mode' = IF \E i \in owners : Dangles(state.vars[i]) THEN "crashed" ELSE "done"
        /\ heap' = Free(heap, owned)
  /\ state' = [vars |-> << >>, var_capacity |-> 0]
  /\ output' = CaptureFree
  /\ UNCHANGED <<items, statement, held, stack, written, said>>

Finished == mode # "run" /\ UNCHANGED vars

Next ==
  \/ \E n \in Ident :
       \/ \E type \in {"int", "ch"} : Declare(n, type)
       \/ \E kind \in {"decl", "assign"} : Target(kind, n)
       \/ \E l \in Literal : DeclareString(n, l) \/ AssignString(n, l)
       \/ Identifier(n) \/ PrintVariable(n)
  \/ \E k \in Numeral : NumberNode(k)
  \/ \E op \in {"+", "-", "*", "/"} : Operate(op)
  \/ \E l \in Literal : PrintLiteral(l)
  \/ Store \/ BeginPrint \/ PrintExpression \/ EndPrint \/ Return \/ Finished

Spec == Init /\ [][Next]_vars


-----------------------------------------------------------------------------
(* Properties.                                                             *)

Variables == [name : Ident, value : [as : {"int", "str"}, val : Int],
              is_string : BOOLEAN, initialized : BOOLEAN]

Kinds == {"none", "decl", "assign", "print"}

PartOK(part) ==
  \/ part = NewlinePart
  \/ part.kind = "str" /\ part.lit \in Literal
  \/ part.kind = "int" /\ part.int \in Signed(INT_HALF)

TypeOK ==
  /\ mode \in {"run", "done", "crashed"} /\ items \in 0 .. MaxItems
  /\ declared \in [Ident -> {"none", "int", "ch"}]
  /\ stmt.kind \in Kinds
  /\ state.vars \in Seq(Variables)
  /\ state.var_capacity \in Nat /\ Len(state.vars) <= state.var_capacity
  /\ held.index \in 0 .. Len(state.vars)
  /\ stack \in Seq([type : {"num", "id", "binop"}, val : Signed(INT_HALF)])
  /\ DOMAIN heap \subseteq 1 .. MaxItems /\ \A a \in DOMAIN heap : heap[a] \in Literal
  /\ output \in Captures
  /\ said.count \in 0 .. MaxItems /\ PartOK(said.part)

(* The pointer that a declaration or an assignment keeps while it          *)
(* evaluates its expression (interpreter.c:147) is still into the array    *)
(* when the value is stored, and at the variable it was taken for -        *)
(* although an unknown identifier in the expression would grow the array.  *)
HeldIsLive ==
  stmt.kind \in {"decl", "assign"} =>
    Live(held) /\ state.vars[held.index].name = stmt.name

(* Each string on the heap belongs to exactly one variable, no variable    *)
(* that will be printed or freed dangles, and nothing is left when the     *)
(* interpreter returns: every strdup meets one free, although an           *)
(* assignment frees and a declaration does not.                            *)
StringsOwned ==
  LET owners == {i \in DOMAIN state.vars : OwnsString(state.vars[i])} IN
    /\ mode # "crashed" => DOMAIN heap = {state.vars[i].value.val : i \in owners}
    /\ \A i, j \in owners : state.vars[i].value = state.vars[j].value => i = j
    /\ mode = "done" => DOMAIN heap = {}

(* The buffer always has room for its text and the '\0', and it holds all  *)
(* that was printed unless one part alone was PRINTF_MAX bytes or more     *)
(* (output.c:14-31).                                                       *)
CaptureIsWhole ==
  mode # "done" =>
    /\ output.size < output.capacity
    /\ output.size <= written.bytes
    /\ ~written.clipped => output.size = written.bytes

(* The only way to die is the quotient that is no int.                     *)
CrashesOnlyOnTrap ==
  mode = "crashed" =>
    stack # << >> /\ stack[Len(stack)] = Evaluated("binop", -INT_HALF)

ValueOf(n) ==
  IF Matching(state, n) = {} THEN [kind |-> "undeclared"]
  ELSE LET var == Variable(state, n) IN
       CASE ~var.initialized -> [kind |-> "unset"]
         [] OwnsString(var) /\ Dangles(var) -> [kind |-> "dangling"]
         [] OwnsString(var) /\ ~Dangles(var) -> StringPart(heap[var.value.val])
         [] OTHER -> IntPart(var.value.val)

Abstract == INSTANCE Language WITH
  store <- [n \in Ident |-> ValueOf(n)],
  stack <- [i \in DOMAIN stack |-> stack[i].val],
  printing <- (stmt.kind = "print")

(* The array, the union, the heap and the pointer that is kept together    *)
(* behave like a store that maps identifiers to values; what is printed,   *)
(* and where lines end, is what the store says (interpreter.c:128-292).    *)
ImplementsLanguage == Abstract!Spec

=============================================================================
