------------------------------- MODULE Language -------------------------------
(***************************************************************************)
(* What running a program of the source language means, without pointers,  *)
(* arrays or buffers: a store that maps each identifier to its value, the  *)
(* operands of the expression being evaluated, and what was printed last.  *)
(* The interpreter implements it.                                          *)
(***************************************************************************)
EXTENDS Sequences, Arithmetic

CONSTANTS
  Ident, Literal,
  Number,     \* values of numeric literals
  INT_HALF    \* half of the range of int

VARIABLES
  store,    \* the value of each variable
  stack,    \* values of the expression's operands
  printing, \* a print is being executed
  said      \* the last part printed, and how many there were

languageVars == <<store, stack, printing, said>>

Undeclared == [kind |-> "undeclared"]
Unset == [kind |-> "unset"]
IntVal(v) == [kind |-> "int", int |-> v]
Str(l) == [kind |-> "str", lit |-> l]
Newline == [kind |-> "newline"]

(* A variable without an integer counts as 0, and so it prints.            *)
IntOf(value) == IF value.kind = "int" THEN value.int ELSE 0

TextOf(value) == IF value.kind = "str" THEN value ELSE IntVal(IntOf(value))

Init ==
  /\ store = [n \in Ident |-> Undeclared]
  /\ stack = << >> /\ printing = FALSE
  /\ said = [part |-> Newline, count |-> 0]

Declare(n) ==
  /\ store[n] = Undeclared
  /\ store' = [store EXCEPT ![n] = Unset]
  /\ UNCHANGED <<stack, printing, said>>

Push(v) == stack' = Append(stack, v) /\ UNCHANGED <<store, printing, said>>

(* Division by zero gives 0, and what does not fit in an int wraps.        *)
Operate(op) ==
  /\ Len(stack) >= 2
  /\ LET d == Len(stack)
         l == stack[d - 1]
         r == stack[d]
         v == IF op = "/" /\ r = 0 THEN 0
              ELSE Wrap(INT_HALF, Operation(op, l, r))
     IN stack' = Append(SubSeq(stack, 1, d - 2), v)
  /\ UNCHANGED <<store, printing, said>>

SetInt(n) ==
  /\ store[n].kind \in {"unset", "int"} /\ Len(stack) = 1
  /\ store' = [store EXCEPT ![n] = IntVal(stack[1])]
  /\ stack' = << >>
  /\ UNCHANGED <<printing, said>>

SetString(n, l) ==
  /\ store[n].kind # "int"
  /\ store' = [store EXCEPT ![n] = Str(l)]
  /\ UNCHANGED <<stack, printing, said>>

Output(part) == said' = [part |-> part, count |-> said.count + 1]

Say(part) == printing /\ Output(part) /\ UNCHANGED <<store, printing>>

BeginPrint == printing' = TRUE /\ UNCHANGED <<store, stack, said>>

SayLiteral(l) == Say(Str(l)) /\ UNCHANGED stack

SayVariable(n) == Say(TextOf(store[n])) /\ UNCHANGED stack

SayResult == Len(stack) = 1 /\ Say(IntVal(stack[1])) /\ stack' = << >>

(* A print ends its line unless the last thing it printed was text.        *)
EndPrint ==
  /\ printing /\ printing' = FALSE
  /\ IF said.part.kind = "str" THEN UNCHANGED said ELSE Output(Newline)
  /\ UNCHANGED <<store, stack>>

(* Running off the end forgets everything but what was printed.            *)
Exit ==
  /\ ~printing /\ stack = << >>
  /\ store' = [n \in Ident |-> Undeclared]
  /\ UNCHANGED <<stack, printing, said>>

Next ==
  \/ \E n \in Ident : Declare(n) \/ SetInt(n) \/ SayVariable(n)
                      \/ Push(IntOf(store[n]))
  \/ \E k \in Number \cup {-1} : Push(k)
  \/ \E op \in {"+", "-", "*", "/"} : Operate(op)
  \/ \E n \in Ident, l \in Literal : SetString(n, l)
  \/ \E l \in Literal : SayLiteral(l)
  \/ BeginPrint \/ SayResult \/ EndPrint \/ Exit

Spec == Init /\ [][Next]_languageVars

=============================================================================
