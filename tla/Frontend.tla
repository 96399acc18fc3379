------------------------------ MODULE Frontend ------------------------------
(***************************************************************************)
(* The front end: the lexer's delimiter flags, the LALR parser with its    *)
(* error recovery (parser.y and the tables Bison makes of it), and the     *)
(* semantic checks its rules call (semantics.c).  The input is any         *)
(* sequence of tokens; tokens that start a construct are read together     *)
(* with the ones that must follow where nothing can happen in between.     *)
(*                                                                         *)
(* An expression is built bottom-up, in the order of the reductions; a     *)
(* node is the summary of its subtree that the checks can tell apart, so   *)
(* that expressions of any size are covered.                               *)
(***************************************************************************)
EXTENDS Integers, Sequences

CONSTANTS
  Name,        \* identifiers
  MaxLines,    \* lines the parser's stack can hold (YYMAXDEPTH: lines is right-recursive)
  MaxPending,  \* bound: nodes of an expression waiting for their parent
  MaxErrors    \* bound: errors counted

ASSUME BoundAssumption ==
  MaxLines \in Nat \ {0} /\ MaxPending \in Nat \ {0} /\ MaxErrors \in Nat

VARIABLES
  mode,         \* where the parser stands, or how it ended
  opened,       \* PROG_START is on the parser's stack
  lines,        \* the lines on the parser's stack
  head,         \* the statement being read: what its first tokens were
  expr,         \* nodes without a parent yet
  content,      \* what the finished parts of a print refer to
  result,       \* the value of the finished statement
  symbols,      \* the semantic analyzer's symbol table
  error_count,  \* errors counted by the analyzer
  found_prog_start, found_prog_end,
  reported,     \* history: some diagnostic was printed
  skipped       \* history: error recovery threw tokens away

statement == <<head, expr, content, result>>
program == <<opened, lines>>
flags == <<found_prog_start, found_prog_end>>
analysis == <<symbols, error_count, reported>>
vars == <<mode, program, statement, analysis, flags, skipped>>

-----------------------------------------------------------------------------
(* Nodes and statements.                                                   *)

Verdict == {"ok", "bad", "crash"}

(* kind; the variables in the subtree; whether it has no NULL in it; and   *)
(* what sem_check_division_by_zero and sem_check_print_expression will     *)
(* make of it: "crash" is a read through a NULL child.                     *)
Node == [kind : {"null", "zero", "num", "id", "binop"}, ids : SUBSET Name,
         whole : BOOLEAN, div : Verdict, print : Verdict]

NullNode == [kind |-> "null", ids |-> {}, whole |-> FALSE, div |-> "ok", print |-> "ok"]

Leaf(kind, ids) == [kind |-> kind, ids |-> ids, whole |-> TRUE, div |-> "ok", print |-> "ok"]

IsString(n) == symbols[n] = "ch"

(* semantics.c:280; sub-expressions that hold NULLs are searched too.      *)
HasString(node) == \E n \in node.ids : IsString(n)

First(v, w) == IF v # "ok" THEN v ELSE w

(* A check visits the node, its left child and then its right child, and   *)
(* stops at the first objection.                                           *)
DivisionByZero(op, l, r) ==
  First(CASE op = "/" /\ r.kind = "null" -> "crash"
          [] op = "/" /\ r.kind = "zero" -> "bad"
          [] OTHER -> "ok",
        First(l.div, r.div))

(* ... and here the children come before the node.                         *)
PrintExpression(l, r) ==
  First(First(l.print, r.print),
        CASE "null" \in {l.kind, r.kind} -> "crash"
          [] "null" \notin {l.kind, r.kind} /\ (HasString(l) \/ HasString(r)) -> "bad"
          [] OTHER -> "ok")

Binop(op, l, r) ==
  [kind |-> "binop", ids |-> l.ids \cup r.ids, whole |-> l.whole /\ r.whole,
   div |-> DivisionByZero(op, l, r), print |-> PrintExpression(l, r)]

(* A statement of the AST: the variable it declares or sets, the type it   *)
(* gives it, the variables it reads, and those it reads in arithmetic.     *)
NoName == "no name"
Statement == [kind : {"null", "decl", "assign", "print"}, name : Name \cup {NoName},
              type : {"int", "ch"}, uses : SUBSET Name, arith : SUBSET Name,
              whole : BOOLEAN]

(* The value of an empty line and of one that was refused; append_to_list  *)
(* leaves it out of the AST.                                               *)
NULL == [kind |-> "null", name |-> NoName, type |-> "int", uses |-> {},
         arith |-> {}, whole |-> FALSE]

Stmt(kind, name, type, node) ==
  [kind |-> kind, name |-> name, type |-> type, uses |-> node.ids,
   arith |-> {}, whole |-> node.whole]

Empty == Leaf("num", {})

NoContent == [uses |-> {}, arith |-> {}, whole |-> TRUE]

(* A print part; a NULL part is the item of an expression that was refused.*)
WithPart(node) ==
  [uses |-> content.uses \cup node.ids,
   arith |-> content.arith \cup (IF node.kind = "binop" THEN node.ids ELSE {}),
   whole |-> content.whole /\ node.whole]

PrintStatement(c) ==
  [kind |-> "print", name |-> NoName, type |-> "int", uses |-> c.uses,
   arith |-> c.arith, whole |-> c.whole]

NoHead == [kind |-> "none", name |-> NoName]

-----------------------------------------------------------------------------
Init ==
  /\ mode = "line"
  /\ opened = FALSE /\ lines = << >>
  /\ head = NoHead /\ expr = << >> /\ content = NoContent /\ result = NULL
  /\ symbols = [n \in Name |-> "none"] /\ error_count = 0 /\ reported = FALSE
  /\ found_prog_start = FALSE /\ found_prog_end = FALSE
  /\ skipped = FALSE

(* Diagnostics: some are counted, some are only printed.                   *)
Counted ==
  /\ error_count < MaxErrors
  /\ error_count' = error_count + 1
  /\ reported' = TRUE

Printed == reported' = TRUE /\ UNCHANGED error_count

Silent == UNCHANGED <<error_count, reported>>

(* The statement is complete and has value r; a new line must follow.      *)
Conclude(r) ==
  /\ mode' = "end"
  /\ result' = r
  /\ head' = NoHead /\ expr' = << >> /\ content' = NoContent

Refuse == Conclude(NULL) /\ UNCHANGED symbols

Crash == mode' = "crashed" /\ UNCHANGED <<statement, analysis>>

(* sem_add_symbol; every caller has set in_decl_line.                      *)
Declare(n, type, node) ==
  \/ /\ symbols[n] = "none"
     /\ symbols' = [symbols EXCEPT ![n] = type]
     /\ Conclude(Stmt("decl", n, type, node))
     /\ Silent
  \/ /\ symbols[n] # "none"
     /\ Refuse /\ Counted

-----------------------------------------------------------------------------
(* Between lines.  With MaxLines lines on it the parser's stack is full.   *)

(* Bug: the stack is not checked.                                          *)
AtLineUnchecked == mode = "line"

AtLine == mode = "line" /\ Len(lines) < MaxLines

ProgStart ==
  /\ AtLine /\ ~opened /\ lines = << >>
  /\ opened' = TRUE /\ found_prog_start' = TRUE
  /\ UNCHANGED <<mode, lines, statement, analysis, found_prog_end, skipped>>

BlankLine ==
  /\ AtLine
  /\ lines' = Append(lines, NULL)
  /\ UNCHANGED <<mode, opened, statement, analysis, flags, skipped>>

(* KW_INT ID, KW_CH ID, ID '=' or KW_PRINT ':'.                            *)
StartStatement(kind, n) ==
  /\ AtLine
  /\ head' = [kind |-> kind, name |-> n]
  /\ mode' = IF kind \in {"int", "ch"} THEN "head" ELSE "rhs"
  /\ UNCHANGED <<program, expr, content, result, analysis, flags, skipped>>

(* <<< or the end of the file: the lines are chained into the AST, and the *)
(* rule for program overrides what the lexer found.                        *)
ProgEnd ==
  /\ AtLine
  /\ mode' = "closed"
  /\ found_prog_start' = opened /\ found_prog_end' = TRUE
  /\ UNCHANGED <<program, statement, analysis, skipped>>

Eof ==
  \/ /\ AtLine
     /\ mode' = "accepted"
     /\ found_prog_start' = opened /\ found_prog_end' = FALSE
     /\ UNCHANGED <<program, statement, analysis, skipped>>
  \/ /\ mode = "closed"
     /\ mode' = "accepted"
     /\ UNCHANGED <<program, statement, analysis, flags, skipped>>

-----------------------------------------------------------------------------
(* Declarations without an expression: KW ID, KW_CH ID '=' STR, and what   *)
(* is refused in their place.                                              *)

DeclareBare == mode = "head" /\ Declare(head.name, head.kind, Empty)

DeclareTerminated == mode = "head" /\ Refuse /\ Counted

DeclareSeveral == mode = "head" /\ Refuse /\ Printed

(* Bug: the symbol is entered before the initialiser is refused.           *)
DeclareIntAsStringTooSoon ==
  /\ mode = "head" /\ head.kind = "int"
  /\ Conclude(NULL) /\ symbols' = [symbols EXCEPT ![head.name] = "int"]
  /\ Printed

DeclareIntAsString == mode = "head" /\ head.kind = "int" /\ Refuse /\ Printed

Initialize ==
  /\ mode = "head"
  /\ mode' = "rhs"
  /\ UNCHANGED <<statement, analysis>>

-----------------------------------------------------------------------------
(* Expressions.  create_binop_node takes NULL children as they come.       *)

Push(rest, node) ==
  /\ Len(rest) < MaxPending
  /\ expr' = Append(rest, node)
  /\ UNCHANGED <<mode, head, content, result, symbols>>

Number(kind) == mode = "rhs" /\ Push(expr, Leaf(kind, {})) /\ Silent

(* Bug: an undeclared variable is reported and not counted.                *)
IdentifierUncounted(n) ==
  /\ mode = "rhs"
  /\ \/ symbols[n] # "none" /\ Push(expr, Leaf("id", {n})) /\ Silent
     \/ symbols[n] = "none" /\ Push(expr, NullNode) /\ Printed

Identifier(n) ==
  /\ mode = "rhs"
  /\ \/ symbols[n] # "none" /\ Push(expr, Leaf("id", {n})) /\ Silent
     \/ symbols[n] = "none" /\ Push(expr, NullNode) /\ Counted

Operate(op) ==
  /\ mode = "rhs" /\ Len(expr) >= 2
  /\ Push(SubSeq(expr, 1, Len(expr) - 2),
          Binop(op, expr[Len(expr) - 1], expr[Len(expr)]))
  /\ Silent

(* '-' factor is (-1) * factor.                                            *)
Negate ==
  /\ mode = "rhs" /\ Len(expr) >= 1
  /\ Push(SubSeq(expr, 1, Len(expr) - 1),
          Binop("*", Leaf("num", {}), expr[Len(expr)]))
  /\ Silent

Complete(kind) == mode = "rhs" /\ head.kind = kind /\ Len(expr) = 1

-----------------------------------------------------------------------------
(* Statements with an expression.                                          *)

(* What follows once the division check has passed, or not.                *)
InitializeInt ==
  /\ Complete("int")
  /\ \/ expr[1].div = "ok" /\ Declare(head.name, "int", expr[1])
     \/ expr[1].div = "bad" /\ Refuse /\ Printed
     \/ expr[1].div = "crash" /\ Crash

InitializeTerminated == Complete("int") /\ Refuse /\ Counted

InitializeSeveral == Complete("int") /\ Refuse /\ Printed

(* The rule reads the node's type first; no expression is a string.        *)
InitializeString ==
  /\ Complete("ch")
  /\ \/ expr[1].kind = "null" /\ Crash
     \/ expr[1].kind # "null" /\ Refuse /\ Printed

AssignInt ==
  /\ Complete("assign")
  /\ \/ symbols[head.name] = "none" /\ Refuse /\ Counted
     \/ symbols[head.name] = "ch" /\ Refuse /\ Printed
     \/ /\ symbols[head.name] = "int"
        /\ \/ /\ expr[1].div = "ok" /\ Silent /\ UNCHANGED symbols
              /\ Conclude(Stmt("assign", head.name, "int", expr[1]))
           \/ expr[1].div = "bad" /\ Refuse /\ Printed
           \/ expr[1].div = "crash" /\ Crash

AssignString ==
  /\ mode = "rhs" /\ head.kind = "assign" /\ expr = << >>
  /\ \/ symbols[head.name] = "none" /\ Refuse /\ Counted
     \/ symbols[head.name] = "int" /\ Refuse /\ Printed
     \/ /\ symbols[head.name] = "ch" /\ Silent /\ UNCHANGED symbols
        /\ Conclude(Stmt("assign", head.name, "ch", Empty))

(* ID '=' expr ',' ID '=' : a second expression is read before the refusal.*)
AssignAnother ==
  /\ Complete("assign")
  /\ head' = [kind |-> "assign2", name |-> NoName]
  /\ expr' = << >>
  /\ UNCHANGED <<mode, content, result, analysis>>

AssignSeveral == Complete("assign2") /\ Refuse /\ Printed

(* A part of a print, the last one or one with a ',' behind it.            *)
PrintPart(node, last) ==
  \/ /\ last
     /\ Conclude(PrintStatement(WithPart(node)))
     /\ UNCHANGED symbols
  \/ /\ ~last
     /\ content' = WithPart(node)
     /\ expr' = << >>
     /\ UNCHANGED <<mode, head, result, symbols>>

PrintExpr(last) ==
  /\ Complete("print")
  /\ \/ expr[1].print = "ok" /\ PrintPart(expr[1], last) /\ Silent
     \/ expr[1].print = "bad" /\ PrintPart(NullNode, last) /\ Counted
     \/ expr[1].print = "crash" /\ Crash

(* A string literal refers to nothing; before a ',' it changes nothing.    *)
PrintString ==
  /\ mode = "rhs" /\ head.kind = "print" /\ expr = << >>
  /\ PrintPart(Empty, TRUE)
  /\ Silent

WithinLine ==
  /\ \/ DeclareBare \/ DeclareTerminated \/ DeclareSeveral
     \/ DeclareIntAsString \/ Initialize
     \/ \E kind \in {"num", "zero"} : Number(kind)
     \/ \E n \in Name : Identifier(n)
     \/ \E op \in {"/", "*"} : Operate(op)
     \/ Negate
     \/ InitializeInt \/ InitializeTerminated \/ InitializeSeveral
     \/ InitializeString
     \/ AssignInt \/ AssignString \/ AssignAnother \/ AssignSeveral
     \/ \E last \in BOOLEAN : PrintExpr(last)
     \/ PrintString
  /\ UNCHANGED <<program, flags, skipped>>

(* stmt NEWLINE_TOKEN.                                                     *)
EndLine ==
  /\ mode = "end"
  /\ mode' = "line"
  /\ lines' = Append(lines, result)
  /\ result' = NULL
  /\ UNCHANGED <<opened, head, expr, content, analysis, flags, skipped>>

-----------------------------------------------------------------------------
(* Error recovery.                                                         *)

Token == {">>>", "<<<", "other"}

(* The lexer sets its flag for a delimiter wherever it meets one.          *)
Lexed(token) ==
  /\ found_prog_start' = (found_prog_start \/ token = ">>>")
  /\ found_prog_end' = (found_prog_end \/ token = "<<<")

Fits(token) ==
  \/ mode = "line" /\ token = "<<<"
  \/ mode = "line" /\ token = ">>>" /\ ~opened /\ lines = << >>
  \/ mode \notin {"line", "head", "rhs", "end", "closed"}

(* A token that does not fit: the parser pops its stack to the last state  *)
(* that can shift error, which is the start of the line - or, behind <<<,  *)
(* the start of the program, whose lines are lost.  A finished statement   *)
(* is popped too, but not the symbol it declared.                          *)
Unexpected(token) ==
  /\ ~Fits(token)
  /\ mode = "line" => AtLine
  /\ mode' = "recover" /\ skipped' = TRUE
  /\ Lexed(token)
  /\ head' = NoHead /\ expr' = << >> /\ content' = NoContent /\ result' = NULL
  /\ \/ mode = "closed" /\ opened' = FALSE /\ lines' = << >>
     \/ mode # "closed" /\ UNCHANGED program
  /\ UNCHANGED analysis

Discard(token) ==
  /\ mode = "recover"
  /\ Lexed(token)
  /\ UNCHANGED <<mode, program, statement, analysis, skipped>>

(* Bug: the syntax error is reported and not counted.                      *)
RecoverUncounted ==
  /\ mode = "recover"
  /\ mode' = "line"
  /\ lines' = Append(lines, NULL)
  /\ Printed
  /\ UNCHANGED <<opened, statement, symbols, flags, skipped>>

(* error NEWLINE_TOKEN.                                                    *)
Recover ==
  /\ mode = "recover"
  /\ mode' = "line"
  /\ lines' = Append(lines, NULL)
  /\ Counted
  /\ UNCHANGED <<opened, statement, symbols, flags, skipped>>

(* The end of the file while recovering: YYABORT.                          *)
Abort ==
  /\ mode = "recover"
  /\ mode' = "aborted"
  /\ UNCHANGED <<program, statement, analysis, flags, skipped>>

(* The stack is full: of lines, or of a deeply nested expression.          *)
MemoryExhausted ==
  /\ \/ mode = "line" /\ Len(lines) = MaxLines
     \/ mode = "rhs"
  /\ mode' = "exhausted"
  /\ UNCHANGED <<program, statement, analysis, flags, skipped>>

Ended == mode \in {"accepted", "aborted", "exhausted", "crashed"}

Finished == Ended /\ UNCHANGED vars

Next ==
  \/ ProgStart \/ BlankLine \/ ProgEnd \/ Eof
  \/ \E kind \in {"int", "ch", "assign"}, n \in Name : StartStatement(kind, n)
  \/ StartStatement("print", NoName)
  \/ WithinLine \/ EndLine
  \/ \E token \in Token : Unexpected(token) \/ Discard(token)
  \/ Recover \/ Abort \/ MemoryExhausted \/ Finished

Spec == Init /\ [][Next]_vars

-----------------------------------------------------------------------------
(* Properties.                                                             *)

Mode == {"line", "head", "rhs", "end", "closed", "recover",
         "accepted", "aborted", "exhausted", "crashed"}

TypeOK ==
  /\ mode \in Mode
  /\ opened \in BOOLEAN
  /\ lines \in Seq(Statement) /\ Len(lines) <= MaxLines
  /\ head \in [kind : {"none", "int", "ch", "assign", "assign2", "print"},
               name : Name \cup {NoName}]
  /\ expr \in Seq(Node) /\ Len(expr) <= MaxPending
  /\ content \in [uses : SUBSET Name, arith : SUBSET Name, whole : BOOLEAN]
  /\ result \in Statement
  /\ symbols \in [Name -> {"none", "int", "ch"}]
  /\ error_count \in 0 .. MaxErrors
  /\ {found_prog_start, found_prog_end, reported, skipped} \subseteq BOOLEAN

(* parser.y:883 with the two delimiter checks before it.                   *)
Compiles ==
  mode = "accepted" /\ error_count = 0 /\ found_prog_start /\ found_prog_end

Declares(s, n, type) == s.kind = "decl" /\ s.name = n /\ s.type = type

DeclaredBefore(i, n, type) == \E j \in 1 .. i - 1 : Declares(lines[j], n, type)

(* What the code generator and the interpreter take for granted about one  *)
(* statement of the AST, given those before it.                            *)
WellFormed(i) ==
  LET s == lines[i] IN
    /\ s.whole
    /\ \A n \in s.uses : DeclaredBefore(i, n, "int") \/ DeclaredBefore(i, n, "ch")
    /\ \A n \in s.arith : DeclaredBefore(i, n, "int")
    /\ s.kind = "assign" => DeclaredBefore(i, s.name, s.type)
    /\ s.kind = "decl" => \A type \in {"int", "ch"} : ~DeclaredBefore(i, s.name, type)

(* The AST handed to the back end has no NULL child, declares each name    *)
(* once and before its first use, assigns each variable a value of its     *)
(* type and never prints arithmetic on strings - although a symbol stays   *)
(* in the table when the line that declared it is thrown away, and several *)
(* of the checks above refuse a line without counting an error.            *)
BackEndContract ==
  Compiles => \A i \in DOMAIN lines : lines[i].kind # "null" => WellFormed(i)

(* While nothing was counted and nothing thrown away, the symbol table     *)
(* says exactly what the lines read so far declare, the finished statement *)
(* included (semantics.c:168: only correct lines reach the table).         *)
SymbolsAgreeWithLines ==
  error_count = 0 /\ ~skipped =>
    \A n \in Name, type \in {"int", "ch"} :
      symbols[n] = type <=>
        \/ \E i \in DOMAIN lines : Declares(lines[i], n, type)
        \/ Declares(result, n, type)

(* A program that compiles lost no token and no line to error recovery,    *)
(* and its AST is delimited by its own >>> and <<<, whatever the lexer's   *)
(* flags say.                                                              *)
CompilesAllOfIt == Compiles => ~skipped /\ opened

(* parser.y:254 "to flag ch x = expr as error" (and its neighbours: a line *)
(* refused with a message is an error, so the program does not compile).   *)
ReportedIsRejected == Compiles => ~reported

(* semantics.h:35 "check if variable is declared before use": an           *)
(* undeclared variable is reported, and the parse goes on.                 *)
UndeclaredIsSurvived == mode # "crashed"

=============================================================================
