------------------------------ MODULE Assembly ------------------------------
(***************************************************************************)
(* The assembly generator (assembly.c) at work on the front end's AST:     *)
(* CollectSymbolsFromAST fills the symbol table and the two string tables, *)
(* the labels of the literals are entered in the symbol table, the .data   *)
(* section is written from all three, and a second walk over the AST       *)
(* writes the .code section, looking up and allocating again as it goes.   *)
(*                                                                         *)
(* The AST is a sequence of items in the order the walks visit them; it is *)
(* extended while the first walk goes on, by any item that the front end's *)
(* checks let pass (Frontend!BackEndContract).  Registers of expressions   *)
(* are the subject of TempRegisters.  initialized_vars is written and      *)
(* never read, and is left out.                                            *)
(***************************************************************************)
EXTENDS SymbolTable, FiniteSets

CONSTANTS
  Ident,        \* the identifiers of the source language
  Literal,      \* string literals, as the lexer passes them on
  Unescape,     \* Unescape[l]: GetStringLabel resolves escape sequences (again)
  SizeOf,       \* SizeOf[l]: strlen + 1
  StrLabel,     \* StrLabel[i]: the label "str<i-1>" of the i-th literal
  MAX_STRINGS,  \* capacity of string_table and of string_vars
  MaxItems      \* bound: items of a program

ASSUME AssemblyAssumption ==
  /\ Ident \subseteq Name
  /\ Unescape \in [Literal -> Literal]
  /\ SizeOf \in [Literal -> LabelSizes]
  /\ MAX_STRINGS \in Nat \ {0} /\ MaxItems \in Nat
  /\ StrLabel \in [1 .. MAX_STRINGS -> Name]

(* sprintf "str%d": labels are distinct and not cut; 27 registers, 100     *)
(* symbols.                                                                *)
ASSUME LabelAssumption ==
  /\ \A i \in 1 .. MAX_STRINGS : Short(StrLabel[i])
  /\ \A i, j \in 1 .. MAX_STRINGS : StrLabel[i] = StrLabel[j] => i = j
ASSUME RegisterAssumption == REG_MAX - FirstReg < MAX_SYMBOLS

VARIABLES
  phase,         \* "collect", "labels", "data", "code", "done"
  pc,            \* next literal, symbol or item of the phase
  program,       \* the AST
  string_table,  \* literals, unescaped; StrLabel[i] is the label of the i-th
  string_vars,   \* string variables that were given a value
  data,          \* the .data section
  code           \* the .code section: what each item became

vars == <<phase, pc, program, symtab, string_table, string_vars, data, code>>

-----------------------------------------------------------------------------
(* Items.  An initialised declaration or an assignment of an expression is *)
(* its target, the identifiers of the expression, and a store.             *)

Bare(n, type)   == [kind |-> "bare", name |-> n, type |-> type]
DeclInit(n)     == [kind |-> "decl_init", name |-> n, type |-> "int"]
DeclStr(n, l)   == [kind |-> "decl_str", name |-> n, type |-> "ch", lit |-> l]
Target(n)       == [kind |-> "target", name |-> n]
Ref(n)          == [kind |-> "ref", name |-> n]
Store(n)        == [kind |-> "store", name |-> n]
AssignStr(n, l) == [kind |-> "assign_str", name |-> n, lit |-> l]
PrintLit(l)     == [kind |-> "print_lit", lit |-> l]
PrintVar(n)     == [kind |-> "print_var", name |-> n]

Declaration(n) == {Bare(n, "int"), Bare(n, "ch"), DeclInit(n)}
                    \cup {DeclStr(n, l) : l \in Literal}

Declarations == UNION {Declaration(n) : n \in Ident}
Uses == {Target(n) : n \in Ident} \cup {Ref(n) : n \in Ident}
        \cup {Store(n) : n \in Ident} \cup {PrintVar(n) : n \in Ident}
StringAssignments == {AssignStr(n, l) : n \in Ident, l \in Literal}
LiteralPrints == {PrintLit(l) : l \in Literal}

Item == Declarations \cup Uses \cup StringAssignments \cup LiteralPrints

IsDecl(item) == item.kind \in {"bare", "decl_init", "decl_str"}

DeclaredAs(n, types) ==
  \E i \in DOMAIN program : IsDecl(program[i]) /\ program[i].name = n
                            /\ program[i].type \in types

(* The declaration or assignment whose expression is being read.           *)
OpenItem ==
  LET others == {i \in DOMAIN program : program[i].kind # "ref"} IN
    {program[i] : i \in {j \in others : \A k \in others : k <= j}}
      \cap ({DeclInit(n) : n \in Ident} \cup {Target(n) : n \in Ident})

(* What the front end lets through.                                        *)
Legal(item) ==
  \/ /\ item.kind = "store"
     /\ \E open \in OpenItem : open.name = item.name
  \/ /\ item.kind = "ref"
     /\ DeclaredAs(item.name, IF OpenItem = {} THEN {"int"} ELSE {"int", "ch"})
     /\ DeclInit(item.name) \notin OpenItem
  \/ /\ OpenItem = {}
     /\ \/ item.kind = "print_lit"
        \/ IsDecl(item) /\ ~DeclaredAs(item.name, {"int", "ch"})
        \/ item.kind = "print_var" /\ DeclaredAs(item.name, {"int", "ch"})
        \/ item.kind = "target" /\ DeclaredAs(item.name, {"int"})
        \/ item.kind = "assign_str" /\ DeclaredAs(item.name, {"ch"})

-----------------------------------------------------------------------------
(* The string tables.                                                      *)

Positions(table, l) == {i \in DOMAIN table : table[i] = Unescape[l]}

(* string_table after GetStringLabel; the label it returns is StrLabel[i]  *)
(* with i in Positions of that table, and NULL when there is none.         *)
GetStringLabel(table, l) ==
  IF Positions(table, l) # {} \/ Len(table) >= MAX_STRINGS
  THEN table
  ELSE Append(table, Unescape[l])

(* Bug: no test against the capacity.                                      *)
AddStringVariableUnbounded(n, l) ==
  LET known == {i \in DOMAIN string_vars : string_vars[i].name = n}
      v == [name |-> n, value |-> l]
  IN string_vars' = IF known # {}
                    THEN [i \in DOMAIN string_vars |->
                            IF i \in known THEN v ELSE string_vars[i]]
                    ELSE Append(string_vars, v)

(* Bug: a variable that is known keeps its first value.                    *)
AddStringVariableOnce(n, l) ==
  string_vars' =
    IF \/ \E i \in DOMAIN string_vars : string_vars[i].name = n
       \/ Len(string_vars) >= MAX_STRINGS
    THEN string_vars
    ELSE Append(string_vars, [name |-> n, value |-> l])

AddStringVariable(n, l) ==
  LET known == {i \in DOMAIN string_vars : string_vars[i].name = n}
      v == [name |-> n, value |-> l]
  IN string_vars' = IF known # {}
                    THEN [i \in DOMAIN string_vars |->
                            IF i \in known THEN v ELSE string_vars[i]]
                    ELSE IF Len(string_vars) >= MAX_STRINGS THEN string_vars
                    ELSE Append(string_vars, v)

-----------------------------------------------------------------------------
Init ==
  /\ phase = "collect" /\ pc = 1
  /\ program = << >>
  /\ SymbolInit
  /\ string_table = << >> /\ string_vars = << >>
  /\ data = << >> /\ code = << >>

(* Bug: initialised declarations are left to the second walk.              *)
CollectedWithoutInitialized(item) ==
  /\ IF item.kind \in {"bare", "target", "ref", "print_var"}
     THEN symtab' = AllocateRegisterForTheSymbol(symtab, item.name)
     ELSE IF item.kind = "decl_str"
     THEN symtab' = AllocateStringVariable(symtab, item.name)
     ELSE UNCHANGED symtab
  /\ IF item.kind \in {"decl_str", "assign_str"}
     THEN AddStringVariable(item.name, item.lit)
     ELSE UNCHANGED string_vars
  /\ string_table' = IF item.kind = "print_lit"
                     THEN GetStringLabel(string_table, item.lit) ELSE string_table

(* Bug: a string assignment turns an entry of the symbol table into a      *)
(* string variable, behind the table's back.                               *)
CollectedInPlace(item) ==
  /\ item.kind \in {"bare", "assign_str"}
  /\ symtab' = IF item.kind = "bare"
               THEN AllocateRegisterForTheSymbol(symtab, item.name)
               ELSE [symtab EXCEPT !.table = [i \in DOMAIN @ |->
                      [@[i] EXCEPT !.is_string_var = @ \/ symtab.table[i].name = item.name]]]
  /\ UNCHANGED <<string_table, string_vars>>

(* CollectSymbolsFromAST, one item.  A bare declaration is allocated as an *)
(* integer whatever its type.                                              *)
Collected(item) ==
  \/ /\ item.kind \in {"bare", "decl_init", "target", "ref", "print_var"}
     /\ symtab' = AllocateRegisterForTheSymbol(symtab, item.name)
     /\ UNCHANGED <<string_table, string_vars>>
  \/ /\ item.kind = "decl_str"
     /\ symtab' = AllocateStringVariable(symtab, item.name)
     /\ AddStringVariable(item.name, item.lit)
     /\ UNCHANGED string_table
  \/ /\ item.kind = "assign_str"
     /\ AddStringVariable(item.name, item.lit)
     /\ UNCHANGED <<symtab, string_table>>
  \/ /\ item.kind = "print_lit"
     /\ string_table' = GetStringLabel(string_table, item.lit)
     /\ UNCHANGED <<symtab, string_vars>>
  \/ /\ item.kind = "store"
     /\ UNCHANGED <<symtab, string_table, string_vars>>

(* The bound leaves room for the store that ends the statement.            *)
Room(item) ==
  LET opens == \/ item.kind \in {"decl_init", "target"}
               \/ item.kind = "ref" /\ OpenItem # {}
  IN Len(program) + (IF opens THEN 2 ELSE 1) <= MaxItems

Collect(item) ==
  /\ phase = "collect"
  /\ Room(item)
  /\ Legal(item)
  /\ program' = Append(program, item)
  /\ Collected(item)
  /\ UNCHANGED <<phase, pc, data, code>>

(* GenerateAssemblyProgram returns at once when there is no AST.           *)
EndOfProgram ==
  /\ phase = "collect" /\ program # << >> /\ OpenItem = {}
  /\ phase' = "labels"
  /\ UNCHANGED <<pc, program, symtab, string_table, string_vars, data, code>>

RegisterLabel ==
  /\ phase = "labels"
  /\ pc <= Len(string_table)
  /\ symtab' = WithLabel(symtab, StrLabel[pc], SizeOf[string_table[pc]])
  /\ pc' = pc + 1
  /\ UNCHANGED <<phase, program, string_table, string_vars, data, code>>

EndOfLabels ==
  /\ phase = "labels" /\ pc > Len(string_table)
  /\ phase' = "data" /\ pc' = 1
  /\ UNCHANGED <<program, symtab, string_table, string_vars, data, code>>

Space(n)     == [label |-> n, kind |-> "space"]
Asciiz(n, l) == [label |-> n, kind |-> "asciiz", value |-> l]

(* Bug: string variables are given space too.                              *)
IsIntegerOrString(e) == IsVariable(e)

IsInteger(e) == IsVariable(e) /\ ~e.is_string_var

(* PrintDataSection, one symbol: the integer variables, in the table's     *)
(* order.                                                                  *)
PrintData ==
  /\ phase = "data"
  /\ pc <= Len(symtab.table)
  /\ LET e == symtab.table[pc] IN
       data' = IF IsInteger(e) THEN Append(data, Space(e.name)) ELSE data
  /\ pc' = pc + 1
  /\ UNCHANGED <<phase, program, symtab, string_table, string_vars, code>>

LiteralSection == [i \in DOMAIN string_table |-> Asciiz(StrLabel[i], string_table[i])]

StringSection == [i \in DOMAIN string_vars |->
                    Asciiz(string_vars[i].name, string_vars[i].value)]

(* Bug: the literals come before the variables.                            *)
PrintStringsFirst ==
  /\ phase = "data" /\ pc > Len(symtab.table)
  /\ data' = LiteralSection \o data \o StringSection
  /\ phase' = "code" /\ pc' = 1
  /\ UNCHANGED <<program, symtab, string_table, string_vars, code>>

(* PrintStringLiteralsSection and PrintStringVariablesSection.             *)
PrintStrings ==
  /\ phase = "data" /\ pc > Len(symtab.table)
  /\ data' = data \o LiteralSection \o StringSection
  /\ phase' = "code" /\ pc' = 1
  /\ UNCHANGED <<program, symtab, string_table, string_vars, code>>

(* An instruction that refers to a symbol, or none.                        *)
Op(op, label) == [op |-> op, label |-> label]
NoOp == [op |-> "nothing"]

(* GenerateAssemblyNode, one item.                                         *)
Generated(item) ==
  \/ /\ item.kind \in {"bare", "decl_init"}
     /\ symtab' = AllocateRegisterForTheSymbol(symtab, item.name)
     /\ code' = Append(code, NoOp)
     /\ UNCHANGED string_table
  \/ /\ item.kind \in {"decl_str", "assign_str", "target"}
     /\ code' = Append(code, NoOp)
     /\ UNCHANGED <<symtab, string_table>>
  \/ /\ item.kind \in {"ref", "store"}
     /\ code' = Append(code, Op(IF item.kind = "ref" THEN "ld" ELSE "sd", item.name))
     /\ UNCHANGED <<symtab, string_table>>
  \/ /\ item.kind = "print_var"
     /\ code' = Append(code, Op(IF IsStringVariable(symtab, item.name)
                                THEN "print_str" ELSE "print_int", item.name))
     /\ UNCHANGED <<symtab, string_table>>
  \/ /\ item.kind = "print_lit"
     /\ string_table' = GetStringLabel(string_table, item.lit)
     /\ LET here == Positions(GetStringLabel(string_table, item.lit), item.lit) IN
        \/ \E i \in here : code' = Append(code, Op("print_str", StrLabel[i]))
        \/ here = {} /\ code' = Append(code, NoOp)
     /\ UNCHANGED symtab

Generate ==
  /\ phase = "code"
  /\ pc <= Len(program)
  /\ Generated(program[pc])
  /\ pc' = pc + 1
  /\ UNCHANGED <<phase, program, string_vars, data>>

Exit ==
  /\ phase = "code" /\ pc > Len(program)
  /\ phase' = "done"
  /\ UNCHANGED <<pc, program, symtab, string_table, string_vars, data, code>>

Finished == phase = "done" /\ UNCHANGED vars

Next ==
  \/ \E item \in Item : Collect(item)
  \/ EndOfProgram \/ RegisterLabel \/ EndOfLabels \/ PrintData \/ PrintStrings
  \/ Generate \/ Exit \/ Finished

Spec == Init /\ [][Next]_vars
-----------------------------------------------------------------------------
(* Properties.                                                             *)

Phase == {"collect", "labels", "data", "code", "done"}

TypeOK ==
  /\ phase \in Phase
  /\ pc \in 1 .. MaxItems + MAX_STRINGS + MAX_SYMBOLS + 1
  /\ program \in Seq(Item) /\ Len(program) <= MaxItems
  /\ SymbolTypeOK
  /\ string_table \in Seq(Literal) /\ Len(string_table) <= MAX_STRINGS
  /\ string_vars \in Seq([name : Ident, value : Literal])
  /\ Len(string_vars) <= MAX_STRINGS
  /\ Len(code) <= Len(program)

(* The circumstances the properties below depend on.                       *)
Declared == {n \in Ident : DeclaredAs(n, {"int", "ch"})}
Literals == {Unescape[item.lit] : item \in {program[i] : i \in
               {j \in DOMAIN program : program[j].kind = "print_lit"}}}
StringsGiven == {program[i].name : i \in
               {j \in DOMAIN program : program[j].kind \in {"decl_str", "assign_str"}}}

NamesAreShort == \A n \in Declared : Short(n)
NamesAreNotLabels == \A n \in Declared : \A i \in DOMAIN StrLabel : n # StrLabel[i]
VariablesFit == /\ Cardinality(Declared) <= REG_MAX - FirstReg + 1
                /\ Cardinality(StringsGiven) <= MAX_STRINGS
LiteralsFit == Cardinality(Literals) <= MAX_STRINGS
SymbolsFit == Cardinality(Declared) + Cardinality(Literals) <= MAX_SYMBOLS

IsDeclStr(n) == \E l \in Literal, i \in DOMAIN program : program[i] = DeclStr(n, l)

(* Whatever the code refers to is defined in .data, and the encoder finds  *)
(* its offset, as long as names are not cut and the registers, which no    *)
(* instruction uses, have not run out.                                     *)
ReferencesResolve ==
  /\ phase = "done"
  /\ NamesAreShort /\ VariablesFit /\ LiteralsFit /\ SymbolsFit
  => \A i \in DOMAIN code : code[i] # NoOp =>
       /\ \E j \in DOMAIN data : data[j].label = code[i].label
       /\ GetOffsetOfTheSymbol(symtab, code[i].label) # -1

(* A name means two things: a variable's that is a literal's label too, or *)
(* that of a bare "ch x" which is given a value later.                     *)
IsLabel(n) == \E i \in DOMAIN string_table : StrLabel[i] = n
IsLate(n) == n \in StringsGiven /\ ~IsDeclStr(n)

(* Three tables contribute to .data, and the only labels that it defines   *)
(* twice are the variables whose names mean two things.                    *)
LabelsDefinedOnce ==
  NamesAreShort =>
    \A i, j \in DOMAIN data :
      data[i].label = data[j].label /\ i # j =>
        /\ data[i].label \in Declared
        /\ IsLabel(data[i].label) \/ IsLate(data[i].label)

(* Only this line of .data has its label.                                  *)
DefinedOnce(line) ==
  \E j \in DOMAIN data :
    data[j] = line /\ \A k \in DOMAIN data : data[k].label = line.label => k = j

(* Items that give n a text; the last one of all; and the text that n has  *)
(* when the interpreter reaches item i.                                    *)
GivenAt(n) == {i \in DOMAIN program : /\ program[i].kind \in {"decl_str", "assign_str"}
                                      /\ program[i].name = n}
LastGiven(n) == program[CHOOSE i \in GivenAt(n) : \A j \in GivenAt(n) : j <= i].lit
Holds(n, i, l) ==
  \E j \in GivenAt(n) : /\ j < i /\ program[j].lit = l
                         /\ \A k \in GivenAt(n) : k <= j \/ i <= k

(* What the code prints beside what the interpreter prints.  A print of a  *)
(* literal finds the literal at its label exactly when unescaping it once  *)
(* more does not change it and no variable has that label.  A print of an  *)
(* initialised string finds what the variable holds at that point exactly  *)
(* when no later item gives it another text and its name is no label; any  *)
(* other variable is printed as an integer, out of space of its own unless *)
(* its name means two things.                                              *)
PrintsRightText ==
  /\ phase = "done"
  /\ NamesAreShort /\ VariablesFit /\ LiteralsFit
  => \A i \in DOMAIN program :
       LET item == program[i]
           n    == item.name
       IN
       /\ item.kind = "print_lit" =>
            /\ code[i].op = "print_str"
            /\ DefinedOnce(Asciiz(code[i].label, item.lit)) <=>
                 Unescape[item.lit] = item.lit /\ code[i].label \notin Declared
       /\ item.kind = "print_var" /\ IsDeclStr(n) =>
            /\ code[i] = Op("print_str", n)
            /\ \A l \in Literal : Holds(n, i, l) =>
                 (DefinedOnce(Asciiz(n, l)) <=> l = LastGiven(n) /\ ~IsLabel(n))
       /\ item.kind = "print_var" /\ ~IsDeclStr(n) =>
            /\ code[i] = Op("print_int", n)
            /\ DefinedOnce(Space(n)) <=> ~IsLabel(n) /\ ~IsLate(n)

(* ld and sd need addresses divisible by 8.  Labels, whose sizes are odd,  *)
(* are registered between the two walks: a variable allocated by the       *)
(* second one would be misaligned.                                         *)
VariablesAligned ==
  NamesAreShort =>
    \A i \in DOMAIN symtab.table :
      IsVariable(symtab.table[i]) => symtab.table[i].offset % 8 = 0

Bytes(d) == IF d.kind = "space" THEN 8 ELSE SizeOf[d.value]

(* The offsets that the encoder takes from the symbol table are those that *)
(* an assembler would give the labels of .data, one behind the other - in  *)
(* programs without string variables, whose order and sizes differ in the  *)
(* two.                                                                    *)
LayoutAgrees ==
  /\ NamesAreShort /\ NamesAreNotLabels /\ LiteralsFit /\ SymbolsFit
  /\ string_vars = << >>
  => \A j \in DOMAIN data :
       GetOffsetOfTheSymbol(symtab, data[j].label) =
         IF j = 1 THEN 0
         ELSE GetOffsetOfTheSymbol(symtab, data[j - 1].label) + Bytes(data[j - 1])

(* assembly.c:176-178: a bare declaration is allocated "as integer (will   *)
(* be updated if string)".                                                 *)
UpdatedIfString ==
  phase = "done" /\ NamesAreShort /\ VariablesFit =>
    \A n \in Declared :
      Bare(n, "ch") \in {program[i] : i \in DOMAIN program} /\ n \in StringsGiven
        => IsStringVariable(symtab, n)

=============================================================================
