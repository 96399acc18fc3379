---------------------------- MODULE FrontendProofs ----------------------------
(***************************************************************************)
(* What the back end takes for granted about the AST holds of whatever     *)
(* sequence of tokens the front end lets pass: for every set of names, and *)
(* programs, expressions and numbers of errors of any size.                *)
(***************************************************************************)
EXTENDS Frontend, SequenceTheorems, TLAPS

(***************************************************************************)
(* The inductive invariant.                                                *)
(***************************************************************************)
Types == {"int", "ch"}

(* The types of TypeOK that have no name there.                            *)
Heads == [kind : {"none", "int", "ch", "assign", "assign2", "print"}, name : Name \cup {NoName}]

Contents == [uses : SUBSET Name, arith : SUBSET Name, whole : BOOLEAN]

SymbolTables == [Name -> {"none", "int", "ch"}]

(* There is room for the line that is being read.                          *)
LineFits == mode \in {"head", "rhs", "end", "recover"} => Len(lines) < MaxLines

(* A statement that begins with a name has one.                            *)
HeadNamed ==
  /\ head.kind \in {"int", "ch", "assign"} => head.name \in Name
  /\ mode = "head" => head.kind \in Types

(* A result waits for the end of its line only.                            *)
ResultWaits == mode # "end" => result = NULL

(* Skipping ends in a counted error, or ends the parse.                    *)
SkipIsCounted == skipped => error_count > 0 \/ mode \in {"recover", "aborted"}

(* Behind the end of the program the flag says whether it was opened.      *)
Delimited == mode \in {"closed", "accepted"} => found_prog_start = opened

Clean == error_count = 0 /\ ~skipped

Known(ids) == \A n \in ids : symbols[n] \in Types

(* An operand is complete and reads declared variables, and ints only if   *)
(* it is arithmetic that may be printed.                                   *)
GoodNode(node) ==
  /\ node.whole /\ Known(node.ids)
  /\ node.kind = "binop" /\ node.print = "ok" => \A n \in node.ids : symbols[n] = "int"

GoodContent(c) ==
  /\ c.whole /\ Known(c.uses)
  /\ \A n \in c.arith : symbols[n] = "int"

LineDeclares(n, type) == \E i \in 1 .. Len(lines) : Declares(lines[i], n, type)

SymbolsAgree ==
  \A n \in Name, type \in Types :
    symbols[n] = type <=> LineDeclares(n, type) \/ Declares(result, n, type)

(* The statement s may follow the lines that were read.                    *)
MayFollow(s) ==
  /\ s.whole
  /\ \A n \in s.uses : LineDeclares(n, "int") \/ LineDeclares(n, "ch")
  /\ \A n \in s.arith : LineDeclares(n, "int")
  /\ s.kind = "assign" => LineDeclares(s.name, s.type)
  /\ s.kind = "decl" => \A type \in Types : ~LineDeclares(s.name, type)

Operands == \A i \in 1 .. Len(expr) : GoodNode(expr[i])

LinesGood == \A i \in 1 .. Len(lines) : lines[i].kind # "null" => WellFormed(i)

ResultGood == result.kind # "null" => MayFollow(result)

(* What holds until an error is counted or a token thrown away.            *)
CleanInv == SymbolsAgree /\ Operands /\ GoodContent(content) /\ LinesGood /\ ResultGood

FInv ==
  /\ TypeOK /\ LineFits /\ HeadNamed /\ ResultWaits
  /\ SkipIsCounted /\ Delimited
  /\ Clean => CleanInv

(***************************************************************************)
(* What it implies.                                                        *)
(***************************************************************************)
LEMMA Implied ==
  ASSUME FInv
  PROVE  TypeOK /\ SymbolsAgreeWithLines /\ BackEndContract /\ CompilesAllOfIt
<1>1. TypeOK /\ DOMAIN lines = 1 .. Len(lines)
  BY DEF FInv, TypeOK
<1>2. SymbolsAgreeWithLines
  BY <1>1 DEF FInv, SymbolsAgreeWithLines, Clean, CleanInv, SymbolsAgree, LineDeclares, Types
<1>3. ASSUME Compiles PROVE Clean /\ opened
  <2>1. mode = "accepted" /\ error_count = 0 /\ found_prog_start
    BY <1>3 DEF Compiles
  <2>2. ~skipped
    BY <2>1 DEF FInv, SkipIsCounted
  <2>3. found_prog_start = opened
    BY <2>1 DEF FInv, Delimited
  <2> QED BY <2>1, <2>2, <2>3 DEF Clean
<1>4. BackEndContract
  BY <1>1, <1>3 DEF FInv, BackEndContract, CleanInv, LinesGood
<1>5. CompilesAllOfIt
  BY <1>3 DEF CompilesAllOfIt, Clean
<1> QED BY <1>1, <1>2, <1>4, <1>5

LEMMA EmptySequence == << >> \in Seq(Statement) /\ Len(<< >>) = 0
OBVIOUS

LEMMA NullIsStatement == NULL \in Statement /\ NULL.kind = "null" /\ ~Declares(NULL, NoName, "int")
BY DEF NULL, Statement, Declares

LEMMA NoneYet == NoHead \in Heads /\ NoContent \in Contents
<1>1. NoHead \in Heads
  BY DEF NoHead, Heads
<1>2. NoContent \in Contents
  BY DEF NoContent, Contents
<1> QED BY <1>1, <1>2

LEMMA InitInv == Init => FInv
<1> SUFFICES ASSUME Init PROVE FInv
  OBVIOUS
<1>1. TypeOK
  <2>1. {found_prog_start, found_prog_end, reported, skipped} \subseteq BOOLEAN
    BY DEF Init
  <2>2. result \in Statement /\ lines \in Seq(Statement) /\ Len(lines) <= MaxLines
    BY NullIsStatement, BoundAssumption DEF Init
  <2>3. expr \in Seq(Node) /\ Len(expr) <= MaxPending
    BY BoundAssumption DEF Init
  <2>4. mode \in Mode /\ opened \in BOOLEAN
    BY DEF Init, Mode
  <2>7. error_count \in 0 .. MaxErrors
    BY BoundAssumption DEF Init
  <2>5. head \in Heads /\ content \in Contents
    BY NoneYet DEF Init
  <2>6. symbols \in SymbolTables
    BY DEF Init, SymbolTables
  <2> QED BY <2>1, <2>2, <2>3, <2>4, <2>5, <2>6, <2>7 DEF TypeOK, Heads, Contents, SymbolTables
<1>2. LineFits /\ HeadNamed /\ ResultWaits /\ SkipIsCounted /\ Delimited
  BY DEF Init, LineFits, HeadNamed, NoHead, ResultWaits, SkipIsCounted, Delimited, Types
<1>3. SymbolsAgree
  BY DEF Init, SymbolsAgree, LineDeclares, Declares, NULL, Types
<1>4. Operands /\ GoodContent(content) /\ LinesGood /\ ResultGood
  BY DEF Init, Operands, GoodContent, Known, NoContent, LinesGood, ResultGood, NULL
<1> QED BY <1>1, <1>2, <1>3, <1>4 DEF FInv, CleanInv

(***************************************************************************)
(* Lines.                                                                  *)
(***************************************************************************)

(* A line more: what went before it stays, and it is well formed if it     *)
(* could follow.                                                           *)
LEMMA LineMore ==
  ASSUME lines \in Seq(Statement), NEW s \in Statement, lines' = Append(lines, s)
  PROVE  /\ \A n, type : LineDeclares(n, type)' <=> LineDeclares(n, type) \/ Declares(s, n, type)
         /\ LinesGood /\ (s.kind # "null" => MayFollow(s)) => LinesGood'
<1> DEFINE m == Len(lines)
<1>1. /\ m \in Nat /\ Len(lines') = m + 1 /\ lines'[m + 1] = s
      /\ \A i \in 1 .. m : lines'[i] = lines[i]
  OBVIOUS
<1>2. \A i \in 1 .. m + 1 : i \in 1 .. m \/ i = m + 1
  BY <1>1
<1> HIDE DEF m
<1>3. \A n, type : LineDeclares(n, type)' <=> LineDeclares(n, type) \/ Declares(s, n, type)
  <2>1. \A n, type : LineDeclares(n, type)' <=>
                       \E i \in 1 .. m + 1 : Declares(lines'[i], n, type)
    BY <1>1 DEF LineDeclares, Declares
  <2>2. \A n, type : LineDeclares(n, type) <=> \E i \in 1 .. m : Declares(lines[i], n, type)
    BY DEF LineDeclares, m
  <2> QED BY <1>1, <1>2, <2>1, <2>2
<1>4. \A i \in 1 .. m + 1 : \A n, type :
        DeclaredBefore(i, n, type)' <=> \E j \in 1 .. i - 1 : Declares(lines[j], n, type)
  BY <1>1 DEF DeclaredBefore, Declares
<1>5. ASSUME LinesGood, s.kind # "null" => MayFollow(s) PROVE LinesGood'
  <2> SUFFICES ASSUME NEW i \in 1 .. m + 1, lines'[i].kind # "null" PROVE WellFormed(i)'
    BY <1>1 DEF LinesGood
  <2>1. CASE i \in 1 .. m
    <3>1. WellFormed(i) /\ lines'[i] = lines[i]
      BY <1>1, <1>5, <2>1 DEF LinesGood, m
    <3>2. \A n, type : DeclaredBefore(i, n, type)' <=> DeclaredBefore(i, n, type)
      BY <1>4 DEF DeclaredBefore
    <3> QED BY <3>1, <3>2 DEF WellFormed
  <2>2. CASE i = m + 1
    <3>1. lines'[i] = s /\ MayFollow(s)
      BY <1>1, <1>5, <2>2
    <3>2. \A n, type : DeclaredBefore(i, n, type)' <=> LineDeclares(n, type)
      BY <1>1, <1>4, <2>2 DEF LineDeclares, m
    <3> QED BY <3>1, <3>2 DEF WellFormed, MayFollow, Types
  <2> QED BY <1>2, <2>1, <2>2
<1> QED BY <1>3, <1>5

(* A step that leaves the lines alone.                                     *)
LEMMA LinesKept ==
  ASSUME UNCHANGED lines
  PROVE  /\ \A n, type : LineDeclares(n, type)' <=> LineDeclares(n, type)
         /\ LinesGood <=> LinesGood'
BY DEF LineDeclares, LinesGood, WellFormed, DeclaredBefore, Declares

LEMMA SymbolsKept ==
  ASSUME UNCHANGED symbols
  PROVE  /\ \A node : GoodNode(node)' <=> GoodNode(node)
         /\ \A c : GoodContent(c)' <=> GoodContent(c)
BY DEF GoodNode, GoodContent, Known

(* While the line is being read its names are those of the lines before.   *)
LEMMA KnownIsDeclared ==
  ASSUME FInv, Clean, mode # "end"
  PROVE  /\ \A n \in Name, type \in Types : symbols[n] = type <=> LineDeclares(n, type)
         /\ \A ids \in SUBSET Name : Known(ids) =>
              \A n \in ids : LineDeclares(n, "int") \/ LineDeclares(n, "ch")
<1>1. \A n \in Name, type \in Types : symbols[n] = type <=> LineDeclares(n, type)
  <2>1. SymbolsAgree /\ result = NULL
    BY DEF FInv, CleanInv, ResultWaits
  <2>2. \A n, type : ~Declares(NULL, n, type)
    BY DEF Declares, NULL
  <2> QED BY <2>1, <2>2 DEF SymbolsAgree
<1> QED BY <1>1 DEF Known, Types

(***************************************************************************)
(* Diagnostics.                                                            *)
(***************************************************************************)
Diagnosed == Silent \/ Printed \/ Counted

LEMMA Diagnoses ==
  ASSUME FInv, Diagnosed, skipped => skipped'
  PROVE  /\ error_count' \in 0 .. MaxErrors
         /\ error_count > 0 => error_count' > 0
         /\ reported' \in BOOLEAN
         /\ Clean' => Clean
         /\ Counted => ~Clean'
<1>1. error_count \in 0 .. MaxErrors /\ MaxErrors \in Nat /\ reported \in BOOLEAN
  BY BoundAssumption DEF FInv, TypeOK
<1>2. CASE Silent
  BY <1>1, <1>2 DEF Silent, Clean, Counted
<1>3. CASE Printed
  BY <1>1, <1>3 DEF Printed, Clean, Counted
<1>4. CASE Counted
  BY <1>1, <1>4 DEF Counted, Clean
<1> QED BY <1>2, <1>3, <1>4 DEF Diagnosed

(***************************************************************************)
(* The steps within a line.                                                *)
(***************************************************************************)
Outside == UNCHANGED <<program, flags, skipped>>

(* What they have in common.                                               *)
LEMMA WithinInv ==
  ASSUME FInv, mode \in {"head", "rhs"}, Outside, Diagnosed,
         mode' \in {"head", "rhs", "end", "crashed"},
         head' \in Heads, expr' \in Seq(Node), Len(expr') <= MaxPending,
         content' \in Contents, result' \in Statement, symbols' \in SymbolTables,
         HeadNamed', ResultWaits',
         Clean /\ Clean' => SymbolsAgree' /\ Operands' /\ GoodContent(content)' /\ ResultGood'
  PROVE  FInv'
<1>1. /\ error_count' \in 0 .. MaxErrors /\ reported' \in BOOLEAN
      /\ error_count > 0 => error_count' > 0
      /\ Clean' => Clean
  BY Diagnoses DEF Outside
<1>2. UNCHANGED <<opened, lines, found_prog_start, found_prog_end, skipped>>
  BY DEF Outside, program, flags
<1>3. mode' \in Mode
  BY DEF Mode
<1>4. TypeOK'
  <2>1. opened' \in BOOLEAN /\ lines' \in Seq(Statement) /\ Len(lines') <= MaxLines
    BY <1>2 DEF FInv, TypeOK
  <2>2. {found_prog_start', found_prog_end', reported', skipped'} \subseteq BOOLEAN
    BY <1>1, <1>2 DEF FInv, TypeOK
  <2> QED BY <1>1, <1>3, <2>1, <2>2 DEF TypeOK, Heads, Contents, SymbolTables
<1>5. LineFits' /\ SkipIsCounted' /\ Delimited'
  <2>1. LineFits'
    BY <1>2 DEF FInv, LineFits
  <2>2. SkipIsCounted'
    BY <1>1, <1>2 DEF FInv, SkipIsCounted
  <2>3. Delimited'
    BY DEF Delimited
  <2> QED BY <2>1, <2>2, <2>3
<1>6. Clean' => CleanInv'
  BY <1>1, <1>2, LinesKept DEF FInv, CleanInv
<1> QED BY <1>4, <1>5, <1>6 DEF FInv

(* The end of the statement.                                               *)
LEMMA ConcludeInv ==
  ASSUME FInv, mode \in {"head", "rhs"}, Outside, Diagnosed,
         NEW r \in Statement, Conclude(r), symbols' \in SymbolTables,
         Clean /\ Clean' => SymbolsAgree' /\ (r.kind # "null" => MayFollow(r))
  PROVE  FInv'
<1>1. /\ mode' = "end" /\ result' = r /\ head' = NoHead /\ expr' = << >>
      /\ content' = NoContent
  BY DEF Conclude
<1>2. expr' \in Seq(Node) /\ Len(expr') <= MaxPending /\ Operands'
  BY <1>1, BoundAssumption DEF Operands
<1>3. HeadNamed' /\ ResultWaits'
  BY <1>1 DEF HeadNamed, NoHead, ResultWaits, Types
<1>4. GoodContent(content)'
  BY <1>1 DEF GoodContent, Known, NoContent
<1>5. UNCHANGED lines
  BY DEF Outside, program
<1>6. Clean /\ Clean' => ResultGood'
  BY <1>1, <1>5, LinesKept DEF ResultGood, MayFollow
<1> QED BY <1>1, <1>2, <1>3, <1>4, <1>6, NoneYet, WithinInv

LEMMA RefuseInv ==
  ASSUME FInv, mode \in {"head", "rhs"}, Outside, Printed \/ Counted, Refuse
  PROVE  FInv'
<1>1. Conclude(NULL) /\ UNCHANGED symbols /\ result' = NULL
  BY DEF Refuse, Conclude
<1>2. result = NULL /\ symbols \in SymbolTables /\ UNCHANGED lines
  BY DEF FInv, ResultWaits, TypeOK, SymbolTables, Outside, program
<1>3. Clean => SymbolsAgree'
  BY <1>1, <1>2, LinesKept DEF FInv, CleanInv, SymbolsAgree, Declares
<1> QED BY <1>1, <1>2, <1>3, ConcludeInv, NullIsStatement DEF Diagnosed

LEMMA StmtType ==
  ASSUME NEW kind \in {"decl", "assign"}, NEW n \in Name, NEW type \in Types, NEW node \in Node
  PROVE  /\ Stmt(kind, n, type, node) \in Statement
         /\ Stmt(kind, n, type, node).kind = kind
         /\ Stmt(kind, n, type, node).name = n
         /\ Stmt(kind, n, type, node).type = type
         /\ Stmt(kind, n, type, node).uses = node.ids
         /\ Stmt(kind, n, type, node).arith = {}
         /\ Stmt(kind, n, type, node).whole = node.whole
BY DEF Stmt, Statement, Node, Types

LEMMA LeafType ==
  ASSUME NEW kind \in {"zero", "num", "id"}, NEW ids \in SUBSET Name
  PROVE  /\ Leaf(kind, ids) \in Node
         /\ Leaf(kind, ids).kind = kind /\ Leaf(kind, ids).ids = ids /\ Leaf(kind, ids).whole
BY DEF Leaf, Node, Verdict

LEMMA EmptyIsGood == Empty \in Node /\ Empty.ids = {} /\ Empty.kind = "num" /\ GoodNode(Empty)
BY LeafType DEF Empty, GoodNode, Known

(* A node may be assigned to, or declare, what the checks let pass.        *)
LEMMA StmtMayFollow ==
  ASSUME FInv, Clean, mode # "end",
         NEW kind \in {"decl", "assign"}, NEW n \in Name, NEW type \in Types, NEW node \in Node,
         GoodNode(node),
         kind = "assign" => symbols[n] = type,
         kind = "decl" => symbols[n] = "none"
  PROVE  MayFollow(Stmt(kind, n, type, node))
<1> DEFINE s == Stmt(kind, n, type, node)
<1>1. /\ s.kind = kind /\ s.name = n /\ s.type = type /\ s.uses = node.ids
      /\ s.arith = {} /\ s.whole = node.whole
  BY StmtType
<1>2. node.whole /\ Known(node.ids) /\ node.ids \in SUBSET Name
  BY DEF GoodNode, Node
<1> HIDE DEF s
<1>3. \A m \in node.ids : LineDeclares(m, "int") \/ LineDeclares(m, "ch")
  BY <1>2, KnownIsDeclared
<1>4. \A t \in Types : symbols[n] = t <=> LineDeclares(n, t)
  BY KnownIsDeclared
<1>5. kind = "decl" => \A t \in Types : ~LineDeclares(n, t)
  BY <1>4 DEF Types
<1>6. MayFollow(s)
  BY <1>1, <1>2, <1>3, <1>4, <1>5 DEF MayFollow
<1> QED BY <1>6 DEF s

LEMMA DeclareInv ==
  ASSUME FInv, mode \in {"head", "rhs"}, Outside,
         NEW n \in Name, NEW type \in Types, NEW node \in Node,
         Clean => GoodNode(node),
         Declare(n, type, node)
  PROVE  FInv'
<1>1. CASE symbols[n] # "none" /\ Refuse /\ Counted
  BY <1>1, RefuseInv
<1>2. CASE /\ symbols[n] = "none" /\ Silent
           /\ symbols' = [symbols EXCEPT ![n] = type]
           /\ Conclude(Stmt("decl", n, type, node))
  <2> DEFINE s == Stmt("decl", n, type, node)
  <2>1. /\ s \in Statement /\ s.kind = "decl" /\ s.name = n /\ s.type = type
    BY StmtType
  <2>2. /\ symbols \in SymbolTables /\ symbols' \in SymbolTables
        /\ symbols'[n] = type /\ \A m \in Name \ {n} : symbols'[m] = symbols[m]
    BY <1>2 DEF FInv, TypeOK, SymbolTables, Types
  <2>3. Clean => MayFollow(s)
    BY <1>2, StmtMayFollow
  <2>4. result' = s /\ UNCHANGED lines
    BY <1>2 DEF Conclude, Outside, program
  <2> HIDE DEF s
  <2>5. ASSUME Clean PROVE SymbolsAgree'
    <3> SUFFICES ASSUME NEW m \in Name, NEW t \in Types
                 PROVE  symbols'[m] = t <=> LineDeclares(m, t) \/ Declares(s, m, t)
      BY <2>4, LinesKept DEF SymbolsAgree, Declares
    <3>1. symbols[m] = t <=> LineDeclares(m, t)
      BY <2>5, KnownIsDeclared
    <3>2. Declares(s, m, t) <=> m = n /\ t = type
      BY <2>1 DEF Declares
    <3>3. CASE m = n
      <4>1. ~LineDeclares(m, t)
        BY <1>2, <3>1, <3>3 DEF Types
      <4> QED BY <2>2, <3>2, <3>3, <4>1
    <3>4. CASE m # n
      BY <2>2, <3>1, <3>2, <3>4
    <3> QED BY <3>3, <3>4
  <2>6. Conclude(s)
    BY <1>2 DEF s
  <2> QED BY <1>2, <2>1, <2>2, <2>3, <2>5, <2>6, ConcludeInv DEF Diagnosed
<1> QED BY <1>1, <1>2 DEF Declare

LEMMA CrashInv ==
  ASSUME FInv, mode \in {"head", "rhs"}, Outside, Crash
  PROVE  FInv'
<1>1. /\ mode' = "crashed"
      /\ UNCHANGED <<head, expr, content, result, symbols, lines>> /\ Silent
  BY DEF Crash, statement, analysis, Silent, Outside, program
<1>2. /\ head' \in Heads /\ expr' \in Seq(Node) /\ Len(expr') <= MaxPending
      /\ content' \in Contents /\ result' \in Statement /\ symbols' \in SymbolTables
  BY <1>1 DEF FInv, TypeOK, Heads, Contents, SymbolTables
<1>3. HeadNamed' /\ ResultWaits'
  BY <1>1 DEF FInv, HeadNamed, ResultWaits, Types
<1>4. Clean => SymbolsAgree' /\ Operands' /\ GoodContent(content)' /\ ResultGood'
  BY <1>1, LinesKept, SymbolsKept
     DEF FInv, CleanInv, SymbolsAgree, Operands, ResultGood, MayFollow, Declares
<1> QED BY <1>1, <1>2, <1>3, <1>4, WithinInv DEF Diagnosed

(***************************************************************************)
(* Expressions.                                                            *)
(***************************************************************************)
LEMMA PushInv ==
  ASSUME FInv, mode = "rhs", Outside, Diagnosed,
         NEW rest \in Seq(Node), NEW node \in Node, Push(rest, node),
         Clean /\ Clean' => GoodNode(node) /\ \A i \in 1 .. Len(rest) : GoodNode(rest[i])
  PROVE  FInv'
<1>1. /\ expr' = Append(rest, node) /\ Len(rest) < MaxPending
      /\ UNCHANGED <<mode, head, content, result, symbols, lines>>
  BY DEF Push, Outside, program
<1>2. /\ head' \in Heads /\ content' \in Contents /\ result' \in Statement
      /\ symbols' \in SymbolTables
  BY <1>1 DEF FInv, TypeOK, Heads, Contents, SymbolTables
<1>3. /\ expr' \in Seq(Node) /\ Len(expr') = Len(rest) + 1 /\ Len(rest) \in Nat
      /\ expr'[Len(rest) + 1] = node /\ \A i \in 1 .. Len(rest) : expr'[i] = rest[i]
  BY <1>1
<1>4. HeadNamed' /\ ResultWaits'
  BY <1>1 DEF FInv, HeadNamed, ResultWaits, Types
<1>5. Clean => SymbolsAgree' /\ GoodContent(content)' /\ ResultGood'
  BY <1>1, LinesKept, SymbolsKept
     DEF FInv, CleanInv, SymbolsAgree, ResultGood, MayFollow, Declares
<1>6. Clean /\ Clean' => Operands'
  <2>1. \A i \in 1 .. Len(rest) + 1 : i \in 1 .. Len(rest) \/ i = Len(rest) + 1
    BY <1>3
  <2> QED BY <1>1, <1>3, <2>1, SymbolsKept DEF Operands
<1>7. Len(expr') <= MaxPending
  BY <1>1, <1>3, BoundAssumption
<1> QED BY <1>1, <1>2, <1>3, <1>4, <1>5, <1>6, <1>7, WithinInv

LEMMA NumberInv ==
  ASSUME FInv, Outside, NEW kind \in {"num", "zero"}, Number(kind)
  PROVE  FInv'
<1>1. mode = "rhs" /\ Push(expr, Leaf(kind, {})) /\ Silent /\ expr \in Seq(Node)
  BY DEF Number, FInv, TypeOK
<1>2. Leaf(kind, {}) \in Node /\ GoodNode(Leaf(kind, {}))
  BY LeafType DEF GoodNode, Known
<1>3. Clean => \A i \in 1 .. Len(expr) : GoodNode(expr[i])
  BY DEF FInv, CleanInv, Operands
<1> QED BY <1>1, <1>2, <1>3, PushInv DEF Diagnosed

LEMMA IdentifierInv ==
  ASSUME FInv, Outside, NEW n \in Name, Identifier(n)
  PROVE  FInv'
<1>1. mode = "rhs" /\ expr \in Seq(Node) /\ symbols \in SymbolTables
  BY DEF Identifier, FInv, TypeOK, SymbolTables
<1>2. Clean => \A i \in 1 .. Len(expr) : GoodNode(expr[i])
  BY DEF FInv, CleanInv, Operands
<1>3. CASE symbols[n] # "none" /\ Push(expr, Leaf("id", {n})) /\ Silent
  <2>1. Leaf("id", {n}) \in Node /\ GoodNode(Leaf("id", {n}))
    BY <1>1, <1>3, LeafType DEF GoodNode, Known, SymbolTables, Types
  <2> QED BY <1>1, <1>2, <1>3, <2>1, PushInv DEF Diagnosed
<1>4. CASE symbols[n] = "none" /\ Push(expr, NullNode) /\ Counted
  <2>1. NullNode \in Node
    BY DEF NullNode, Node, Verdict
  <2>2. ~Clean'
    BY <1>4, Diagnoses DEF Outside, Diagnosed
  <2> QED BY <1>1, <1>4, <2>1, <2>2, PushInv DEF Diagnosed
<1> QED BY <1>3, <1>4 DEF Identifier

LEMMA BinopGood ==
  ASSUME NEW op, NEW l \in Node, NEW r \in Node
  PROVE  /\ Binop(op, l, r) \in Node
         /\ GoodNode(l) /\ GoodNode(r) => GoodNode(Binop(op, l, r))
<1> DEFINE b == Binop(op, l, r)
<1>1. /\ l.ids \in SUBSET Name /\ r.ids \in SUBSET Name /\ l.whole \in BOOLEAN
      /\ r.whole \in BOOLEAN
      /\ {l.div, r.div, l.print, r.print} \subseteq Verdict
  BY DEF Node
<1>2. \A v, w \in Verdict : First(v, w) \in Verdict /\ (First(v, w) = "ok" => v = "ok" /\ w = "ok")
  BY DEF First
<1>3. {"ok", "bad", "crash"} \subseteq Verdict
  BY DEF Verdict
<1>4. DivisionByZero(op, l, r) \in Verdict
  BY <1>1, <1>2, <1>3 DEF DivisionByZero
<1>5. /\ PrintExpression(l, r) \in Verdict
      /\ PrintExpression(l, r) = "ok" => ~HasString(l) /\ ~HasString(r)
  BY <1>1, <1>2, <1>3 DEF PrintExpression
<1>6. /\ b.kind = "binop" /\ b.ids = l.ids \cup r.ids /\ b.whole = (l.whole /\ r.whole)
      /\ b.div = DivisionByZero(op, l, r) /\ b.print = PrintExpression(l, r)
  BY DEF Binop
<1>7. b \in Node
  BY <1>1, <1>4, <1>5 DEF Binop, Node
<1> HIDE DEF b
<1>8. ASSUME GoodNode(l), GoodNode(r) PROVE GoodNode(b)
  <2>1. b.whole /\ Known(b.ids)
    BY <1>6, <1>8 DEF GoodNode, Known
  <2>2. ASSUME b.print = "ok", NEW n \in b.ids PROVE symbols[n] = "int"
    <3>1. symbols[n] # "ch"
      BY <1>5, <1>6, <2>2 DEF HasString, IsString
    <3> QED BY <2>1, <3>1 DEF Known, Types
  <2> QED BY <2>1, <2>2 DEF GoodNode
<1> QED BY <1>7, <1>8 DEF b

LEMMA TopRemoved ==
  ASSUME NEW k \in {1, 2}, expr \in Seq(Node), Len(expr) >= k
  PROVE  /\ SubSeq(expr, 1, Len(expr) - k) \in Seq(Node)
         /\ Len(SubSeq(expr, 1, Len(expr) - k)) = Len(expr) - k
         /\ \A i \in 1 .. Len(expr) - k : /\ SubSeq(expr, 1, Len(expr) - k)[i] = expr[i]
                                         /\ i \in 1 .. Len(expr)
OBVIOUS

LEMMA OperateInv ==
  ASSUME FInv, Outside, NEW op, Operate(op)
  PROVE  FInv'
<1> DEFINE k == Len(expr)
           rest == SubSeq(expr, 1, k - 2)
<1>1. mode = "rhs" /\ k >= 2 /\ Push(rest, Binop(op, expr[k - 1], expr[k])) /\ Silent
  BY DEF Operate
<1>2. expr \in Seq(Node) /\ k \in Nat
  BY DEF FInv, TypeOK
<1>3. /\ rest \in Seq(Node) /\ Len(rest) = k - 2
      /\ \A i \in 1 .. k - 2 : rest[i] = expr[i] /\ i \in 1 .. k
  BY <1>1, <1>2, TopRemoved
<1>4. k - 1 \in 1 .. k /\ k \in 1 .. k /\ expr[k - 1] \in Node /\ expr[k] \in Node
  BY <1>1, <1>2
<1>5. Clean => \A i \in 1 .. k : GoodNode(expr[i])
  BY DEF FInv, CleanInv, Operands
<1> HIDE DEF k, rest
<1>6. /\ Binop(op, expr[k - 1], expr[k]) \in Node
      /\ Clean => GoodNode(Binop(op, expr[k - 1], expr[k]))
  BY <1>4, <1>5, BinopGood
<1> QED BY <1>1, <1>3, <1>5, <1>6, PushInv DEF Diagnosed

LEMMA NegateInv ==
  ASSUME FInv, Outside, Negate
  PROVE  FInv'
<1> DEFINE k == Len(expr)
           rest == SubSeq(expr, 1, k - 1)
           minus == Leaf("num", {})
<1>1. mode = "rhs" /\ k >= 1 /\ Push(rest, Binop("*", minus, expr[k])) /\ Silent
  BY DEF Negate
<1>2. expr \in Seq(Node) /\ k \in Nat
  BY DEF FInv, TypeOK
<1>3. /\ rest \in Seq(Node) /\ Len(rest) = k - 1
      /\ \A i \in 1 .. k - 1 : rest[i] = expr[i] /\ i \in 1 .. k
  BY <1>1, <1>2, TopRemoved
<1>4. k \in 1 .. k /\ expr[k] \in Node
  BY <1>1, <1>2
<1>5. Clean => \A i \in 1 .. k : GoodNode(expr[i])
  BY DEF FInv, CleanInv, Operands
<1>6. minus \in Node /\ GoodNode(minus)
  BY LeafType DEF GoodNode, Known
<1> HIDE DEF k, rest, minus
<1>7. /\ Binop("*", minus, expr[k]) \in Node
      /\ Clean => GoodNode(Binop("*", minus, expr[k]))
  BY <1>4, <1>5, <1>6, BinopGood
<1> QED BY <1>1, <1>3, <1>5, <1>7, PushInv DEF Diagnosed

(***************************************************************************)
(* Statements.                                                             *)
(***************************************************************************)
LEMMA Named ==
  ASSUME FInv, head.kind \in {"int", "ch", "assign"}
  PROVE  head.name \in Name
BY DEF FInv, HeadNamed

LEMMA TheOperand ==
  ASSUME FInv, Len(expr) = 1
  PROVE  expr[1] \in Node /\ (Clean => GoodNode(expr[1]))
<1>1. expr \in Seq(Node) /\ 1 \in 1 .. Len(expr)
  BY DEF FInv, TypeOK
<1> QED BY <1>1 DEF FInv, CleanInv, Operands

LEMMA DeclarationInv ==
  ASSUME FInv, Outside,
         \/ DeclareBare \/ DeclareTerminated \/ DeclareSeveral
         \/ DeclareIntAsString \/ Initialize
  PROVE  FInv'
<1>1. CASE DeclareBare
  <2>1. mode = "head" /\ head.kind \in Types /\ Declare(head.name, head.kind, Empty)
    BY <1>1 DEF DeclareBare, FInv, HeadNamed
  <2>2. head.name \in Name
    BY <2>1, Named DEF Types
  <2> QED BY <2>1, <2>2, DeclareInv, EmptyIsGood
<1>2. CASE DeclareTerminated
  BY <1>2, RefuseInv DEF DeclareTerminated
<1>3. CASE DeclareSeveral
  BY <1>3, RefuseInv DEF DeclareSeveral
<1>4. CASE DeclareIntAsString
  BY <1>4, RefuseInv DEF DeclareIntAsString
<1>5. CASE Initialize
  <2>1. /\ mode = "head" /\ mode' = "rhs" /\ Silent
        /\ UNCHANGED <<head, expr, content, result, symbols, lines>>
    BY <1>5 DEF Initialize, statement, analysis, Silent, Outside, program
  <2>2. /\ head' \in Heads /\ expr' \in Seq(Node) /\ Len(expr') <= MaxPending
        /\ content' \in Contents /\ result' \in Statement /\ symbols' \in SymbolTables
    BY <2>1 DEF FInv, TypeOK, Heads, Contents, SymbolTables
  <2>3. HeadNamed' /\ ResultWaits'
    BY <2>1 DEF FInv, HeadNamed, ResultWaits, Types
  <2>4. Clean => SymbolsAgree' /\ Operands' /\ GoodContent(content)' /\ ResultGood'
    BY <2>1, LinesKept, SymbolsKept
       DEF FInv, CleanInv, SymbolsAgree, Operands, ResultGood, MayFollow, Declares
  <2> QED BY <2>1, <2>2, <2>3, <2>4, WithinInv DEF Diagnosed
<1> QED BY <1>1, <1>2, <1>3, <1>4, <1>5

LEMMA InitializationInv ==
  ASSUME FInv, Outside,
         \/ InitializeInt \/ InitializeTerminated \/ InitializeSeveral \/ InitializeString
  PROVE  FInv'
<1>1. CASE InitializeInt
  <2>1. mode = "rhs" /\ head.kind = "int" /\ Len(expr) = 1
    BY <1>1 DEF InitializeInt, Complete
  <2>2. CASE Declare(head.name, "int", expr[1])
    BY <2>1, <2>2, Named, TheOperand, DeclareInv DEF Types
  <2>3. CASE Refuse /\ Printed
    BY <2>1, <2>3, RefuseInv
  <2>4. CASE Crash
    BY <2>1, <2>4, CrashInv
  <2> QED BY <1>1, <2>2, <2>3, <2>4 DEF InitializeInt
<1>2. CASE InitializeTerminated
  BY <1>2, RefuseInv DEF InitializeTerminated, Complete
<1>3. CASE InitializeSeveral
  BY <1>3, RefuseInv DEF InitializeSeveral, Complete
<1>4. CASE InitializeString
  BY <1>4, RefuseInv, CrashInv DEF InitializeString, Complete
<1> QED BY <1>1, <1>2, <1>3, <1>4

LEMMA AssignedInv ==
  ASSUME FInv, Outside, mode = "rhs", head.kind = "assign",
         NEW type \in Types, NEW node \in Node, Clean => GoodNode(node),
         symbols[head.name] = type, Silent, UNCHANGED symbols,
         Conclude(Stmt("assign", head.name, type, node))
  PROVE  FInv'
<1> DEFINE s == Stmt("assign", head.name, type, node)
<1>1. head.name \in Name
  BY Named
<1>2. s \in Statement /\ s.kind = "assign"
  BY <1>1, StmtType
<1>3. Clean => MayFollow(s)
  BY <1>1, StmtMayFollow
<1>4. result' = s /\ result = NULL /\ UNCHANGED <<lines, symbols>> /\ Conclude(s)
  BY DEF Conclude, FInv, ResultWaits, Outside, program
<1>5. symbols' \in SymbolTables
  BY DEF FInv, TypeOK, SymbolTables
<1> HIDE DEF s
<1>6. \A n, t : ~Declares(NULL, n, t) /\ ~Declares(s, n, t)
  BY <1>2 DEF Declares, NULL
<1>7. Clean => SymbolsAgree'
  <2>1. \A n, t : ~Declares(result, n, t) /\ ~Declares(result, n, t)'
    BY <1>4, <1>6 DEF Declares
  <2> QED BY <1>4, <2>1, LinesKept DEF FInv, CleanInv, SymbolsAgree
<1> QED BY <1>2, <1>3, <1>4, <1>5, <1>7, ConcludeInv DEF Diagnosed

LEMMA AssignmentInv ==
  ASSUME FInv, Outside, AssignInt \/ AssignString \/ AssignSeveral
  PROVE  FInv'
<1>1. CASE AssignInt
  <2>1. mode = "rhs" /\ head.kind = "assign" /\ Len(expr) = 1
    BY <1>1 DEF AssignInt, Complete
  <2>2. CASE Refuse /\ (Counted \/ Printed)
    BY <2>1, <2>2, RefuseInv
  <2>3. CASE Crash
    BY <2>1, <2>3, CrashInv
  <2>4. CASE /\ symbols[head.name] = "int" /\ Silent /\ UNCHANGED symbols
             /\ Conclude(Stmt("assign", head.name, "int", expr[1]))
    BY <2>1, <2>4, TheOperand, AssignedInv DEF Types
  <2> QED BY <1>1, <2>2, <2>3, <2>4 DEF AssignInt
<1>2. CASE AssignString
  <2>1. mode = "rhs" /\ head.kind = "assign"
    BY <1>2 DEF AssignString
  <2>2. CASE Refuse /\ (Counted \/ Printed)
    BY <2>1, <2>2, RefuseInv
  <2>3. CASE /\ symbols[head.name] = "ch" /\ Silent /\ UNCHANGED symbols
             /\ Conclude(Stmt("assign", head.name, "ch", Empty))
    BY <2>1, <2>3, EmptyIsGood, AssignedInv DEF Types
  <2> QED BY <1>2, <2>2, <2>3 DEF AssignString
<1>3. CASE AssignSeveral
  BY <1>3, RefuseInv DEF AssignSeveral, Complete
<1> QED BY <1>1, <1>2, <1>3

(* The next expression of the line, or the next part of the print.         *)
LEMMA NextPartInv ==
  ASSUME FInv, Outside, Diagnosed, mode = "rhs", mode' = "rhs", expr' = << >>,
         UNCHANGED <<result, symbols>>,
         head' \in Heads, head'.kind \in {"int", "ch", "assign"} => head'.name \in Name,
         content' \in Contents, Clean /\ Clean' => GoodContent(content)'
  PROVE  FInv'
<1>1. /\ result' \in Statement /\ symbols' \in SymbolTables /\ UNCHANGED lines
  BY DEF FInv, TypeOK, SymbolTables, Outside, program
<1>2. expr' \in Seq(Node) /\ Len(expr') <= MaxPending /\ Operands'
  BY BoundAssumption DEF Operands
<1>3. HeadNamed' /\ ResultWaits'
  BY DEF FInv, HeadNamed, ResultWaits
<1>4. Clean => SymbolsAgree' /\ ResultGood'
  BY <1>1, LinesKept DEF FInv, CleanInv, SymbolsAgree, ResultGood, MayFollow, Declares
<1> QED BY <1>1, <1>2, <1>3, <1>4, WithinInv

LEMMA AssignAnotherInv ==
  ASSUME FInv, Outside, AssignAnother
  PROVE  FInv'
<1>1. /\ mode = "rhs" /\ mode' = "rhs" /\ expr' = << >> /\ Silent
      /\ head' = [kind |-> "assign2", name |-> NoName]
      /\ UNCHANGED <<content, result, symbols>>
  BY DEF AssignAnother, Complete, analysis, Silent
<1>2. head' \in Heads /\ head'.kind = "assign2"
  BY <1>1 DEF Heads
<1>3. content' \in Contents
  BY <1>1 DEF FInv, TypeOK, Contents
<1>4. Clean => GoodContent(content)'
  BY <1>1, SymbolsKept DEF FInv, CleanInv
<1> QED BY <1>1, <1>2, <1>3, <1>4, NextPartInv DEF Diagnosed

(* What may be a part of a print.                                          *)
Printable(node) ==
  GoodNode(node) /\ (node.kind = "binop" => \A n \in node.ids : symbols[n] = "int")

LEMMA WithPartType ==
  ASSUME FInv, NEW node \in Node
  PROVE  /\ WithPart(node) \in Contents
         /\ GoodContent(content) /\ Printable(node) => GoodContent(WithPart(node))
<1>1. /\ content.uses \in SUBSET Name /\ content.arith \in SUBSET Name
      /\ content.whole \in BOOLEAN
  BY DEF FInv, TypeOK
<1>2. node.ids \in SUBSET Name /\ node.whole \in BOOLEAN
  BY DEF Node
<1> DEFINE w == WithPart(node)
<1>3. /\ w.uses = content.uses \cup node.ids
      /\ w.arith = content.arith \cup (IF node.kind = "binop" THEN node.ids ELSE {})
      /\ w.whole = (content.whole /\ node.whole)
  BY DEF WithPart
<1>4. w \in Contents
  BY <1>1, <1>2 DEF WithPart, Contents
<1> HIDE DEF w
<1>5. ASSUME GoodContent(content), Printable(node) PROVE GoodContent(w)
  <2>1. w.whole /\ Known(w.uses)
    BY <1>3, <1>5 DEF GoodContent, Printable, GoodNode, Known
  <2>2. \A n \in w.arith : symbols[n] = "int"
    BY <1>3, <1>5 DEF GoodContent, Printable
  <2> QED BY <2>1, <2>2 DEF GoodContent
<1> QED BY <1>4, <1>5 DEF w

LEMMA PrintedMayFollow ==
  ASSUME FInv, Clean, mode # "end", NEW c \in Contents, GoodContent(c)
  PROVE  MayFollow(PrintStatement(c))
<1> DEFINE s == PrintStatement(c)
<1>1. s.kind = "print" /\ s.uses = c.uses /\ s.arith = c.arith /\ s.whole = c.whole
  BY DEF PrintStatement
<1>2. c.uses \in SUBSET Name /\ c.arith \in SUBSET Name
  BY DEF Contents
<1>3. \A n \in c.uses : LineDeclares(n, "int") \/ LineDeclares(n, "ch")
  BY <1>2, KnownIsDeclared DEF GoodContent
<1>4. \A n \in c.arith : LineDeclares(n, "int")
  BY <1>2, KnownIsDeclared DEF GoodContent, Types
<1> HIDE DEF s
<1>5. MayFollow(s)
  BY <1>1, <1>3, <1>4 DEF MayFollow, GoodContent
<1> QED BY <1>5 DEF s

LEMMA PrintPartInv ==
  ASSUME FInv, Outside, Diagnosed, mode = "rhs", NEW node \in Node, NEW last \in BOOLEAN,
         PrintPart(node, last), Clean /\ Clean' => Printable(node)
  PROVE  FInv'
<1> DEFINE c == WithPart(node)
           s == PrintStatement(c)
<1>1. c \in Contents /\ (Clean /\ Clean' => GoodContent(c))
  BY WithPartType DEF FInv, CleanInv
<1>2. s \in Statement /\ s.kind = "print"
  BY <1>1 DEF PrintStatement, Contents, Statement
<1>3. Clean /\ Clean' => MayFollow(s)
  BY <1>1, PrintedMayFollow
<1> HIDE DEF c, s
<1>4. CASE Conclude(s) /\ UNCHANGED symbols
  <2>1. result' = s /\ result = NULL /\ UNCHANGED lines /\ symbols' \in SymbolTables
    BY <1>4 DEF Conclude, FInv, ResultWaits, TypeOK, SymbolTables, Outside, program
  <2>2. \A n, t : ~Declares(result, n, t) /\ ~Declares(result, n, t)'
    BY <1>2, <2>1 DEF Declares, NULL
  <2>3. Clean => SymbolsAgree'
    BY <1>4, <2>1, <2>2, LinesKept DEF FInv, CleanInv, SymbolsAgree
  <2> QED BY <1>2, <1>3, <1>4, <2>1, <2>3, ConcludeInv
<1>5. CASE content' = c /\ expr' = << >> /\ UNCHANGED <<mode, head, result, symbols>>
  <2>1. head' \in Heads /\ (head'.kind \in {"int", "ch", "assign"} => head'.name \in Name)
    BY <1>5 DEF FInv, TypeOK, Heads, HeadNamed
  <2>2. Clean /\ Clean' => GoodContent(content)'
    BY <1>1, <1>5, SymbolsKept
  <2> QED BY <1>1, <1>5, <2>1, <2>2, NextPartInv
<1> QED BY <1>4, <1>5 DEF PrintPart, c, s

LEMMA PrintInv ==
  ASSUME FInv, Outside, PrintString \/ \E last \in BOOLEAN : PrintExpr(last)
  PROVE  FInv'
<1>1. CASE PrintString
  <2>1. mode = "rhs" /\ PrintPart(Empty, TRUE) /\ Silent
    BY <1>1 DEF PrintString
  <2>2. Printable(Empty)
    BY EmptyIsGood DEF Printable
  <2> QED BY <2>1, <2>2, EmptyIsGood, PrintPartInv DEF Diagnosed
<1>2. CASE \E last \in BOOLEAN : PrintExpr(last)
  <2>1. PICK last \in BOOLEAN : PrintExpr(last)
    BY <1>2
  <2>2. mode = "rhs" /\ Len(expr) = 1
    BY <2>1 DEF PrintExpr, Complete
  <2>3. CASE expr[1].print = "ok" /\ PrintPart(expr[1], last) /\ Silent
    <3>1. Clean => Printable(expr[1])
      BY <2>2, <2>3, TheOperand DEF Printable, GoodNode
    <3> QED BY <2>2, <2>3, <3>1, TheOperand, PrintPartInv DEF Diagnosed
  <2>4. CASE PrintPart(NullNode, last) /\ Counted
    <3>1. NullNode \in Node
      BY DEF NullNode, Node, Verdict
    <3>2. ~Clean'
      BY <2>4, Diagnoses DEF Outside, Diagnosed
    <3> QED BY <2>2, <2>4, <3>1, <3>2, PrintPartInv DEF Diagnosed
  <2>5. CASE Crash
    BY <2>2, <2>5, CrashInv
  <2> QED BY <2>1, <2>3, <2>4, <2>5 DEF PrintExpr
<1> QED BY <1>1, <1>2

LEMMA WithinLineInv ==
  ASSUME FInv, WithinLine
  PROVE  FInv'
<1>1. Outside
  BY DEF WithinLine, Outside
<1>2. CASE \/ DeclareBare \/ DeclareTerminated \/ DeclareSeveral
           \/ DeclareIntAsString \/ Initialize
  BY <1>1, <1>2, DeclarationInv
<1>3. CASE \E kind \in {"num", "zero"} : Number(kind)
  BY <1>1, <1>3, NumberInv
<1>4. CASE \E n \in Name : Identifier(n)
  BY <1>1, <1>4, IdentifierInv
<1>5. CASE \E op \in {"/", "*"} : Operate(op)
  BY <1>1, <1>5, OperateInv
<1>6. CASE Negate
  BY <1>1, <1>6, NegateInv
<1>7. CASE \/ InitializeInt \/ InitializeTerminated \/ InitializeSeveral
           \/ InitializeString
  BY <1>1, <1>7, InitializationInv
<1>8. CASE AssignInt \/ AssignString \/ AssignSeveral
  BY <1>1, <1>8, AssignmentInv
<1>9. CASE AssignAnother
  BY <1>1, <1>9, AssignAnotherInv
<1>10. CASE PrintString \/ \E last \in BOOLEAN : PrintExpr(last)
  BY <1>1, <1>10, PrintInv
<1> QED BY <1>2, <1>3, <1>4, <1>5, <1>6, <1>7, <1>8, <1>9, <1>10 DEF WithinLine

(***************************************************************************)
(* The steps between lines, and error recovery.                            *)
(***************************************************************************)

(* What they have in common: the statement's parts are left alone.         *)
LEMMA BetweenInv ==
  ASSUME FInv, mode' \in Mode, UNCHANGED <<expr, content, symbols>>,
         head' \in Heads, result' \in Statement,
         lines' \in Seq(Statement), Len(lines') <= MaxLines,
         {opened', found_prog_start', found_prog_end', reported', skipped'} \subseteq BOOLEAN,
         error_count' \in 0 .. MaxErrors,
         LineFits', HeadNamed', ResultWaits', SkipIsCounted', Delimited',
         Clean' => Clean, Clean => SymbolsAgree' /\ LinesGood' /\ ResultGood'
  PROVE  FInv'
<1>1. TypeOK'
  <2>1. /\ expr' \in Seq(Node) /\ Len(expr') <= MaxPending /\ content' \in Contents
        /\ symbols' \in SymbolTables
    BY DEF FInv, TypeOK, Contents, SymbolTables
  <2> QED BY <2>1 DEF TypeOK, Heads, Contents, SymbolTables
<1>2. Clean => Operands' /\ GoodContent(content)'
  BY SymbolsKept DEF FInv, CleanInv, Operands
<1> QED BY <1>1, <1>2 DEF FInv, CleanInv

(* ... and those that neither diagnose anything nor read a line.           *)
LEMMA StillInv ==
  ASSUME FInv, mode' \in Mode, UNCHANGED <<expr, content, symbols, result, lines>>,
         UNCHANGED <<error_count, reported, skipped>>,
         head' \in Heads,
         {opened', found_prog_start', found_prog_end'} \subseteq BOOLEAN,
         LineFits', HeadNamed', ResultWaits', SkipIsCounted', Delimited'
  PROVE  FInv'
<1>1. /\ result' \in Statement /\ lines' \in Seq(Statement) /\ Len(lines') <= MaxLines
      /\ {reported', skipped'} \subseteq BOOLEAN /\ error_count' \in 0 .. MaxErrors
  BY DEF FInv, TypeOK
<1>2. Clean' => Clean
  BY DEF Clean
<1>3. Clean => SymbolsAgree' /\ LinesGood' /\ ResultGood'
  BY LinesKept DEF FInv, CleanInv, SymbolsAgree, ResultGood, MayFollow, Declares
<1> QED BY <1>1, <1>2, <1>3, BetweenInv

(* ... and those that add a line.                                          *)
LEMMA AppendInv ==
  ASSUME FInv, mode \in {"line", "end", "recover"}, Len(lines) < MaxLines,
         mode' = "line", NEW s \in Statement, lines' = Append(lines, s), result' = NULL,
         UNCHANGED <<opened, head, expr, content, symbols, flags, skipped>>,
         error_count' \in 0 .. MaxErrors, reported' \in BOOLEAN,
         SkipIsCounted', Clean' => Clean, s \in {result, NULL},
         mode # "end" \/ s = result
  PROVE  FInv'
<1>1. /\ lines' \in Seq(Statement) /\ Len(lines') = Len(lines) + 1 /\ Len(lines) \in Nat
      /\ lines \in Seq(Statement)
  BY DEF FInv, TypeOK
<1>2. Len(lines') <= MaxLines
  BY <1>1, BoundAssumption
<1>3. /\ head' \in Heads
      /\ {opened', found_prog_start', found_prog_end', reported', skipped'} \subseteq BOOLEAN
  BY DEF FInv, TypeOK, Heads, flags
<1>4. LineFits' /\ HeadNamed' /\ ResultWaits' /\ Delimited' /\ mode' \in Mode
  BY DEF FInv, LineFits, HeadNamed, ResultWaits, Delimited, Mode
<1>5. s = result
  BY DEF FInv, ResultWaits
<1>6. Clean => LinesGood' /\ SymbolsAgree'
  <2>1. \A n, type : LineDeclares(n, type)' <=> LineDeclares(n, type) \/ Declares(s, n, type)
    BY <1>1, LineMore
  <2>2. \A n, type : ~Declares(result, n, type)'
    BY DEF Declares, NULL
  <2>3. Clean => SymbolsAgree'
    BY <1>5, <2>1, <2>2 DEF FInv, CleanInv, SymbolsAgree
  <2>4. Clean => LinesGood'
    BY <1>1, <1>5, LineMore DEF FInv, CleanInv, ResultGood
  <2> QED BY <2>3, <2>4
<1>7. ResultGood'
  BY DEF ResultGood, NULL
<1> QED BY <1>1, <1>2, <1>3, <1>4, <1>6, <1>7, BetweenInv, NullIsStatement

LEMMA ProgStartInv ==
  ASSUME FInv, ProgStart
  PROVE  FInv'
<1>1. /\ mode = "line" /\ mode' = "line" /\ opened' = TRUE /\ found_prog_start' = TRUE
      /\ UNCHANGED <<expr, content, symbols, result, lines, head>>
      /\ UNCHANGED <<error_count, reported, skipped, found_prog_end>>
  BY DEF ProgStart, AtLine, statement, analysis
<1>2. LineFits' /\ HeadNamed' /\ ResultWaits' /\ SkipIsCounted' /\ Delimited' /\ mode' \in Mode
  BY <1>1 DEF FInv, LineFits, HeadNamed, ResultWaits, SkipIsCounted, Delimited, Mode
<1>3. head' \in Heads /\ {opened', found_prog_start', found_prog_end'} \subseteq BOOLEAN
  BY <1>1 DEF FInv, TypeOK, Heads
<1> QED BY <1>1, <1>2, <1>3, StillInv

LEMMA BlankLineInv ==
  ASSUME FInv, BlankLine
  PROVE  FInv'
<1>1. /\ mode = "line" /\ mode' = "line" /\ Len(lines) < MaxLines /\ lines' = Append(lines, NULL)
      /\ UNCHANGED <<opened, head, expr, content, symbols, result>>
      /\ UNCHANGED <<error_count, reported, flags, skipped>>
  BY DEF BlankLine, AtLine, statement, analysis
<1>2. result' = NULL
  BY <1>1 DEF FInv, ResultWaits
<1>3. SkipIsCounted' /\ (Clean' => Clean) /\ error_count' \in 0 .. MaxErrors /\ reported' \in BOOLEAN
  BY <1>1 DEF FInv, SkipIsCounted, Clean, TypeOK
<1> QED BY <1>1, <1>2, <1>3, NullIsStatement, AppendInv

LEMMA StartStatementInv ==
  ASSUME FInv, NEW kind \in {"int", "ch", "assign", "print"}, NEW n \in Name \cup {NoName},
         kind # "print" => n \in Name, StartStatement(kind, n)
  PROVE  FInv'
<1>1. /\ mode = "line" /\ Len(lines) < MaxLines
      /\ head' = [kind |-> kind, name |-> n]
      /\ mode' = IF kind \in {"int", "ch"} THEN "head" ELSE "rhs"
      /\ UNCHANGED <<expr, content, symbols, result, lines, opened, found_prog_start, found_prog_end>>
      /\ UNCHANGED <<error_count, reported, skipped>>
  BY DEF StartStatement, AtLine, analysis, program, flags
<1>2. mode' \in {"head", "rhs"} /\ (mode' = "head" => kind \in Types)
  BY <1>1 DEF Types
<1>3. head' \in Heads /\ head'.kind = kind /\ head'.name = n
  BY <1>1 DEF Heads
<1>4. HeadNamed'
  BY <1>2, <1>3 DEF HeadNamed
<1>5. LineFits' /\ ResultWaits' /\ SkipIsCounted' /\ Delimited' /\ mode' \in Mode
  BY <1>1, <1>2 DEF FInv, LineFits, ResultWaits, SkipIsCounted, Delimited, Mode
<1>6. {opened', found_prog_start', found_prog_end'} \subseteq BOOLEAN
  BY <1>1 DEF FInv, TypeOK
<1> QED BY <1>1, <1>3, <1>4, <1>5, <1>6, StillInv

(* The program ends, or the parser gives up.                               *)
LEMMA EndInv ==
  ASSUME FInv, ProgEnd \/ Eof \/ Abort \/ MemoryExhausted
  PROVE  FInv'
<1>1. /\ UNCHANGED <<expr, content, symbols, result, lines, head, opened>>
      /\ UNCHANGED <<error_count, reported, skipped>>
  BY DEF ProgEnd, Eof, Abort, MemoryExhausted, statement, analysis, program
<1>2. /\ mode \in {"line", "rhs", "closed", "recover"}
      /\ mode' \in {"closed", "accepted", "aborted", "exhausted"}
      /\ mode = "recover" => mode' = "aborted"
  BY DEF ProgEnd, Eof, Abort, MemoryExhausted, AtLine
<1>3. Delimited'
  <2>1. CASE ProgEnd
    BY <1>1, <2>1 DEF ProgEnd, Delimited
  <2>2. CASE Eof
    BY <1>1, <2>2 DEF Eof, FInv, Delimited, flags
  <2>3. CASE Abort \/ MemoryExhausted
    BY <2>3 DEF Abort, MemoryExhausted, Delimited
  <2> QED BY <2>1, <2>2, <2>3
<1>4. {opened', found_prog_start', found_prog_end'} \subseteq BOOLEAN
  BY <1>1 DEF FInv, TypeOK, ProgEnd, Eof, Abort, MemoryExhausted, flags
<1>5. LineFits' /\ HeadNamed' /\ ResultWaits' /\ SkipIsCounted'
  BY <1>1, <1>2 DEF FInv, LineFits, HeadNamed, ResultWaits, SkipIsCounted
<1>6. mode' \in Mode /\ head' \in Heads
  BY <1>1, <1>2 DEF Mode, FInv, TypeOK, Heads
<1> QED BY <1>1, <1>3, <1>4, <1>5, <1>6, StillInv

LEMMA EndLineInv ==
  ASSUME FInv, EndLine
  PROVE  FInv'
<1>1. /\ mode = "end" /\ mode' = "line" /\ lines' = Append(lines, result) /\ result' = NULL
      /\ UNCHANGED <<opened, head, expr, content, symbols>>
      /\ UNCHANGED <<error_count, reported, flags, skipped>>
  BY DEF EndLine, analysis
<1>2. Len(lines) < MaxLines /\ result \in Statement
  BY <1>1 DEF FInv, LineFits, TypeOK
<1>3. SkipIsCounted' /\ (Clean' => Clean) /\ error_count' \in 0 .. MaxErrors /\ reported' \in BOOLEAN
  BY <1>1 DEF FInv, SkipIsCounted, Clean, TypeOK
<1> QED BY <1>1, <1>2, <1>3, AppendInv

LEMMA UnexpectedInv ==
  ASSUME FInv, NEW token, Unexpected(token)
  PROVE  FInv'
<1>1. /\ mode' = "recover" /\ skipped' = TRUE
      /\ head' = NoHead /\ expr' = << >> /\ content' = NoContent /\ result' = NULL
      /\ UNCHANGED <<symbols, error_count, reported>>
  BY DEF Unexpected, analysis
<1>2. ~Clean'
  BY <1>1 DEF Clean
<1>3. mode \in {"line", "head", "rhs", "end", "closed"}
  BY DEF Unexpected, Fits
<1>4. lines' \in Seq(Statement) /\ Len(lines') < MaxLines /\ opened' \in BOOLEAN
  <2>1. CASE mode = "closed" /\ opened' = FALSE /\ lines' = << >>
    <3>1. lines' \in Seq(Statement) /\ Len(lines') = 0
      BY <2>1, EmptySequence
    <3>2. 0 < MaxLines
      BY BoundAssumption
    <3>3. opened' \in BOOLEAN
      BY <2>1, Zenon
    <3> QED BY <3>1, <3>2, <3>3
  <2>2. CASE mode # "closed" /\ UNCHANGED program
    <3>1. UNCHANGED <<opened, lines>>
      BY <2>2 DEF program
    <3>2. Len(lines) < MaxLines
      BY <1>3, <2>2 DEF Unexpected, AtLine, FInv, LineFits
    <3> QED BY <3>1, <3>2 DEF FInv, TypeOK
  <2> QED BY <2>1, <2>2 DEF Unexpected
<1>5. {found_prog_start', found_prog_end', reported', skipped'} \subseteq BOOLEAN
  BY <1>1 DEF Unexpected, Lexed, FInv, TypeOK
<1>6. TypeOK'
  <2>1. mode' \in Mode
    BY <1>1 DEF Mode
  <2>2. Len(lines') \in Nat /\ Len(lines') <= MaxLines
    BY <1>4, BoundAssumption
  <2>3. expr' \in Seq(Node) /\ Len(expr') <= MaxPending
    BY <1>1, BoundAssumption
  <2>4. head' \in Heads /\ content' \in Contents /\ result' \in Statement
    BY <1>1, NoneYet, NullIsStatement
  <2>5. symbols' \in SymbolTables /\ error_count' \in 0 .. MaxErrors
    BY <1>1 DEF FInv, TypeOK, SymbolTables
  <2> QED BY <1>4, <1>5, <2>1, <2>2, <2>3, <2>4, <2>5 DEF TypeOK, Heads, Contents, SymbolTables
<1>7. LineFits' /\ HeadNamed' /\ ResultWaits' /\ SkipIsCounted' /\ Delimited'
  BY <1>1, <1>4 DEF LineFits, HeadNamed, NoHead, ResultWaits, SkipIsCounted, Delimited
<1> QED BY <1>2, <1>6, <1>7 DEF FInv

LEMMA DiscardInv ==
  ASSUME FInv, NEW token, Discard(token)
  PROVE  FInv'
<1>1. /\ mode = "recover" /\ mode' = "recover"
      /\ UNCHANGED <<expr, content, symbols, result, lines, head, opened>>
      /\ UNCHANGED <<error_count, reported, skipped>>
  BY DEF Discard, program, statement, analysis
<1>2. {opened', found_prog_start', found_prog_end'} \subseteq BOOLEAN
  BY <1>1 DEF Discard, Lexed, FInv, TypeOK
<1>3. LineFits' /\ HeadNamed' /\ ResultWaits' /\ SkipIsCounted' /\ Delimited' /\ mode' \in Mode
  BY <1>1 DEF FInv, LineFits, HeadNamed, ResultWaits, SkipIsCounted, Delimited, Mode
<1>4. head' \in Heads
  BY <1>1 DEF FInv, TypeOK, Heads
<1> QED BY <1>1, <1>2, <1>3, <1>4, StillInv

LEMMA RecoverInv ==
  ASSUME FInv, Recover
  PROVE  FInv'
<1>1. /\ mode = "recover" /\ mode' = "line" /\ lines' = Append(lines, NULL) /\ Counted
      /\ UNCHANGED <<opened, head, expr, content, symbols, result, flags, skipped>>
  BY DEF Recover, statement
<1>2. Len(lines) < MaxLines /\ result = NULL
  BY <1>1 DEF FInv, LineFits, ResultWaits
<1>3. error_count' \in 0 .. MaxErrors /\ reported' \in BOOLEAN /\ (Clean' => Clean)
  BY <1>1, Diagnoses DEF Diagnosed
<1>4. SkipIsCounted'
  <2>1. error_count' > 0
    BY <1>1 DEF Counted, FInv, TypeOK
  <2> QED BY <2>1 DEF SkipIsCounted
<1> QED BY <1>1, <1>2, <1>3, <1>4, NullIsStatement, AppendInv

LEMMA StutterInv ==
  ASSUME FInv, UNCHANGED vars
  PROVE  FInv'
<1>1. UNCHANGED <<mode, opened, lines, head, expr, content, result>>
  BY DEF vars, program, statement
<1>2. UNCHANGED <<symbols, error_count, reported, found_prog_start, found_prog_end, skipped>>
  BY DEF vars, analysis, flags
<1>3. LineFits' /\ HeadNamed' /\ ResultWaits' /\ SkipIsCounted' /\ Delimited'
  BY <1>1, <1>2 DEF FInv, LineFits, HeadNamed, ResultWaits, SkipIsCounted, Delimited
<1>4. {opened', found_prog_start', found_prog_end'} \subseteq BOOLEAN /\ mode' \in Mode /\ head' \in Heads
  BY <1>1, <1>2 DEF FInv, TypeOK, Heads
<1> QED BY <1>1, <1>2, <1>3, <1>4, StillInv

LEMMA NextInv == FInv /\ [Next]_vars => FInv'
<1> SUFFICES ASSUME FInv, [Next]_vars PROVE FInv'
  OBVIOUS
<1>1. CASE ProgStart
  BY <1>1, ProgStartInv
<1>2. CASE BlankLine
  BY <1>2, BlankLineInv
<1>3. CASE ProgEnd \/ Eof \/ Abort \/ MemoryExhausted
  BY <1>3, EndInv
<1>4. CASE \E kind \in {"int", "ch", "assign"}, n \in Name : StartStatement(kind, n)
  BY <1>4, StartStatementInv
<1>5. CASE StartStatement("print", NoName)
  BY <1>5, StartStatementInv
<1>6. CASE WithinLine
  BY <1>6, WithinLineInv
<1>7. CASE EndLine
  BY <1>7, EndLineInv
<1>8. CASE \E token \in Token : Unexpected(token) \/ Discard(token)
  BY <1>8, UnexpectedInv, DiscardInv
<1>9. CASE Recover
  BY <1>9, RecoverInv
<1>10. CASE UNCHANGED vars
  BY <1>10, StutterInv
<1> QED
  BY <1>1, <1>2, <1>3, <1>4, <1>5, <1>6, <1>7, <1>8, <1>9, <1>10 DEF Next, Finished

(***************************************************************************)
(* The theorems.                                                           *)
(***************************************************************************)
LEMMA Inductive == Spec => []FInv
<1>1. Init => FInv
  BY InitInv
<1>2. FInv /\ [Next]_vars => FInv'
  BY NextInv
<1> QED BY <1>1, <1>2, PTL DEF Spec

(* Every variable keeps its type, and the parser's stack its limit, for    *)
(* any limits on lines, expressions and errors.                            *)
THEOREM FrontendTypeCorrect == Spec => []TypeOK
<1>1. FInv => TypeOK
  BY Implied
<1> QED BY <1>1, Inductive, PTL

(* Only correct lines reach the symbol table, whatever was refused before  *)
(* them (semantics.c:168, the declaration rules of parser.y).              *)
THEOREM TableFollowsLines == Spec => []SymbolsAgreeWithLines
<1>1. FInv => SymbolsAgreeWithLines
  BY Implied
<1> QED BY <1>1, Inductive, PTL

(* Whatever passes the three checks after the parse (parser.y:883) is an   *)
(* AST the code generator and the interpreter may take as it is.           *)
THEOREM BackEndMayTrust == Spec => []BackEndContract
<1>1. FInv => BackEndContract
  BY Implied
<1> QED BY <1>1, Inductive, PTL

(* A program that compiles lost nothing to error recovery, and was opened  *)
(* by the >>> of its own (lexer.l's flags and the rule for program).       *)
THEOREM NothingLost == Spec => []CompilesAllOfIt
<1>1. FInv => CompilesAllOfIt
  BY Implied
<1> QED BY <1>1, Inductive, PTL

=============================================================================
