--------------------------- MODULE AssemblyProofs ---------------------------
(***************************************************************************)
(* Proofs about Assembly for every set of identifiers and literals and     *)
(* every limit: the generator uses the symbol table through its interface  *)
(* only, so that the theorems of SymbolTableProofs hold of it; and its     *)
(* second walk allocates nothing that the first one has not allocated, so  *)
(* that every variable keeps an aligned address.  The second half follows  *)
(* the story that the tables, the data and the code tell of the program,   *)
(* and concludes what the output as a whole is good for: references        *)
(* resolve, labels are unique, prints print their text, offsets agree.     *)
(***************************************************************************)
EXTENDS Assembly, SymbolTableProofs, FiniteSetTheorems

Named == {"bare", "decl_init", "decl_str", "target", "ref", "store",
          "assign_str", "print_var"}

(* The fields of an item that the walks read.                              *)
LEMMA ItemFields ==
  ASSUME NEW item \in Item
  PROVE  /\ item.kind \in Named \cup {"print_lit"}
         /\ item.kind \in Named => item.name \in Ident /\ item.name \in Name
         /\ item.kind = "print_lit" => item.lit \in Literal
         /\ item.kind = "decl_init" => item.type = "int"
         /\ item.kind = "bare" => item.type \in {"int", "ch"}
<1>1. \/ \E n \in Ident : \/ item \in {Bare(n, "int"), Bare(n, "ch"), DeclInit(n)}
                            \/ item \in {Target(n), Ref(n), Store(n), PrintVar(n)}
      \/ \E n \in Ident, l \in Literal : item \in {DeclStr(n, l), AssignStr(n, l)}
      \/ \E l \in Literal : item = PrintLit(l)
  <2>1. CASE \E n \in Ident : item \in Declaration(n)
    BY <2>1 DEF Declaration
  <2>2. CASE item \in Declarations
    <3>1. PICK D \in {Declaration(n) : n \in Ident} : item \in D
      BY <2>2 DEF Declarations
    <3> QED
      BY <3>1, <2>1
  <2>3. CASE item \in Uses
    BY <2>3 DEF Uses
  <2>4. CASE item \in StringAssignments
    BY <2>4 DEF StringAssignments
  <2>5. CASE item \in LiteralPrints
    BY <2>5 DEF LiteralPrints
  <2> QED
    BY <2>2, <2>3, <2>4, <2>5 DEF Item
<1>2. Ident \subseteq Name
  BY AssemblyAssumption
<1>3. CASE \E n \in Ident : item \in {Bare(n, "int"), Bare(n, "ch"), DeclInit(n)}
  BY <1>2, <1>3 DEF Bare, DeclInit, Named
<1>4. CASE \E n \in Ident : item \in {Target(n), Ref(n), Store(n), PrintVar(n)}
  BY <1>2, <1>4 DEF Target, Ref, Store, PrintVar, Named
<1>5. CASE \E n \in Ident, l \in Literal : item \in {DeclStr(n, l), AssignStr(n, l)}
  BY <1>2, <1>5 DEF DeclStr, AssignStr, Named
<1>6. CASE \E l \in Literal : item = PrintLit(l)
  BY <1>6 DEF PrintLit, Named
<1> QED
  BY <1>1, <1>3, <1>4, <1>5, <1>6

LitTable(table) == table \in Seq(Literal) /\ Len(table) <= MAX_STRINGS

(* GetStringLabel keeps string_table within its capacity.                  *)
LEMMA GetStringLabelTable ==
  ASSUME NEW table, LitTable(table), NEW l \in Literal
  PROVE  LitTable(GetStringLabel(table, l))
<1>1. Unescape[l] \in Literal /\ MAX_STRINGS \in Nat
  BY AssemblyAssumption
<1>2. CASE GetStringLabel(table, l) = table
  BY <1>2
<1>3. CASE /\ Len(table) < MAX_STRINGS
           /\ GetStringLabel(table, l) = Append(table, Unescape[l])
  BY <1>1, <1>3 DEF LitTable
<1> QED
  BY <1>1, <1>2, <1>3 DEF GetStringLabel, LitTable

(* The steps that leave the tables alone and write .data.                  *)
Written == EndOfLabels \/ PrintData \/ PrintStrings

(* What of the type invariant the calls of the symbol table rest on.       *)
Shape ==
  /\ program \in Seq(Item)
  /\ pc \in Nat \ {0}
  /\ LitTable(string_table)

(* One item of the first walk: at most one allocation, of its own name.    *)
LEMMA CollectedShape ==
  ASSUME Shape, NEW item \in Item, Collected(item)
  PROVE  /\ \/ symtab' = symtab
            \/ /\ item.name \in Name
               /\ \/ symtab' = AllocateRegisterForTheSymbol(symtab, item.name)
                  \/ symtab' = AllocateStringVariable(symtab, item.name)
         /\ LitTable(string_table')
<1>1. LitTable(string_table)
  BY DEF Shape
<1>2. CASE item.kind = "print_lit"
  BY <1>1, <1>2, ItemFields, GetStringLabelTable DEF Collected
<1>3. CASE item.kind # "print_lit"
  BY <1>1, <1>3, ItemFields DEF Collected, Named
<1> QED
  BY <1>2, <1>3

(* One item of the second walk: an allocation only for a declaration.      *)
LEMMA GeneratedShape ==
  ASSUME Shape, NEW item \in Item, Generated(item)
  PROVE  /\ \/ symtab' = symtab
            \/ /\ item.kind \in {"bare", "decl_init"} /\ item.name \in Name
               /\ symtab' = AllocateRegisterForTheSymbol(symtab, item.name)
         /\ LitTable(string_table')
<1>1. LitTable(string_table)
  BY DEF Shape
<1>2. CASE item.kind = "print_lit"
  BY <1>1, <1>2, ItemFields, GetStringLabelTable DEF Generated
<1>3. CASE item.kind # "print_lit"
  BY <1>1, <1>3, ItemFields DEF Generated, Named
<1> QED
  BY <1>2, <1>3

(* The arguments with which labels are registered.                         *)
LEMMA RegisterLabelShape ==
  ASSUME Shape, RegisterLabel
  PROVE  \E n \in Name, size \in LabelSizes : symtab' = WithLabel(symtab, n, size)
<1>1. pc \in 1 .. Len(string_table) /\ pc \in 1 .. MAX_STRINGS
  BY AssemblyAssumption DEF Shape, LitTable, RegisterLabel
<1>2. StrLabel[pc] \in Name
  BY <1>1, AssemblyAssumption
<1>3. SizeOf[string_table[pc]] \in LabelSizes
  BY <1>1, AssemblyAssumption DEF Shape, LitTable
<1> QED
  BY <1>2, <1>3 DEF RegisterLabel

(* There is no item yet.                                                   *)
LEMMA InitShape == Init => Shape
  BY AssemblyAssumption DEF Init, Shape, LitTable

(* Every step of the generator keeps the shape.                            *)
LEMMA StepShapeKept == Shape /\ [Next]_vars => Shape'
<1> SUFFICES ASSUME Shape, [Next]_vars  PROVE Shape'
  OBVIOUS
<1>1. ASSUME NEW item \in Item, Collect(item)  PROVE Shape'
  <2>1. LitTable(string_table')
    BY <1>1, CollectedShape DEF Collect
  <2> QED
    BY <1>1, <2>1 DEF Collect, Shape
<1>2. CASE Generate
  <2>1. program[pc] \in Item
    BY <1>2 DEF Generate, Shape
  <2>2. LitTable(string_table')
    BY <1>2, <2>1, GeneratedShape DEF Generate
  <2> QED
    BY <1>2, <2>2 DEF Generate, Shape
<1>3. CASE EndOfProgram \/ RegisterLabel \/ Written \/ Exit \/ Finished
  BY <1>3 DEF EndOfProgram, RegisterLabel, Written, EndOfLabels, PrintData, PrintStrings, Exit,
         Finished, vars,
              Shape, LitTable
<1>4. CASE UNCHANGED vars
  BY <1>4 DEF vars, Shape, LitTable
<1> QED
  BY <1>1, <1>2, <1>3, <1>4 DEF Next, Written

(* The types on which the calls of the symbol table rest.                  *)
THEOREM ShapeInvariant == Spec => []Shape
  BY InitShape, StepShapeKept, PTL DEF Spec

-----------------------------------------------------------------------------
(* An item of the first walk is one allocation, of its own name, or none.  *)
LEMMA CollectedCall ==
  ASSUME NEW item \in Item, Collected(item)
  PROVE  \/ symtab' = symtab /\ item.kind \notin {"bare", "decl_init"}
         \/ /\ item.name \in Name
            /\ \E isString \in BOOLEAN : symtab' = Allocate(symtab, item.name, isString)
<1>1. CASE item.kind \in {"bare", "decl_init", "target", "ref", "print_var"}
  BY <1>1, ItemFields DEF Collected, AllocateRegisterForTheSymbol, Named
<1>2. CASE item.kind = "decl_str"
  BY <1>2, ItemFields DEF Collected, AllocateStringVariable, Named
<1>3. CASE item.kind \in {"assign_str", "print_lit", "store"}
  BY <1>3 DEF Collected
<1> QED
  BY <1>1, <1>2, <1>3 DEF Collected

(* A step is one call of an allocator or of AddLabel, or none.             *)
LEMMA StepIsCall ==
  ASSUME Shape, [Next]_vars
  PROVE  \/ symtab' = symtab
         \/ \E n \in Name, isString \in BOOLEAN : symtab' = Allocate(symtab, n, isString)
         \/ \E n \in Name, size \in LabelSizes : symtab' = WithLabel(symtab, n, size)
<1>1. ASSUME NEW item \in Item, Collect(item)
      PROVE  \/ symtab' = symtab
             \/ \E n \in Name, isString \in BOOLEAN : symtab' = Allocate(symtab, n, isString)
  BY <1>1, CollectedCall DEF Collect
<1>2. CASE Generate
  <2>1. program[pc] \in Item
    BY <1>2 DEF Generate, Shape
  <2> QED
    BY <1>2, <2>1, GeneratedShape DEF Generate, AllocateRegisterForTheSymbol
<1>3. CASE RegisterLabel
  BY <1>3, RegisterLabelShape
<1>4. CASE EndOfProgram \/ Written \/ Exit \/ Finished \/ UNCHANGED vars
  BY <1>4 DEF EndOfProgram, Written, EndOfLabels, PrintData, PrintStrings, Exit,
         Finished, vars
<1> QED
  BY <1>1, <1>2, <1>3, <1>4 DEF Next, Written

(* Each of these calls is an action of the symbol table.                   *)
LEMMA StepCallsTable == Shape /\ [Next]_vars => [SymbolNext]_symtab
  BY StepIsCall DEF SymbolNext, AddInteger, AddString, AddLabel,
                    AllocateRegisterForTheSymbol, AllocateStringVariable

(* GenerateAssemblyProgram implements the symbol table's specification: it *)
(* never changes an entry except through the table's own functions.        *)
THEOREM GeneratorUsesTheTable == Spec => SymbolSpec
<1>1. Init => SymbolInit
  BY DEF Init
<1> QED
  BY <1>1, StepCallsTable, ShapeInvariant, PTL DEF Spec, SymbolSpec

(* Whatever program is compiled, its variables and literals do not overlap.*)
THEOREM GeneratedStorageIsDisjoint == Spec => []StorageDisjoint
  BY GeneratorUsesTheTable, StorageIsDisjoint, PTL

-----------------------------------------------------------------------------
(***************************************************************************)
(* Alignment.  Variables of 8 and 64 bytes are allocated while no label    *)
(* has been registered; from then on, a declaration that the second walk   *)
(* allocates again is covered: its variable is there, or there is no room, *)
(* or there is no register, and each of these stays so.                    *)
(***************************************************************************)
Covered(s, n) ==
  \/ GetRegisterOfTheSymbol(s, n) # -1
  \/ Len(s.table) >= MAX_SYMBOLS
  \/ s.next_reg > REG_MAX

Idle(s, q) ==
  /\ q.table = s.table
  /\ q.next_offset = s.next_offset
  /\ q.next_reg >= s.next_reg

AddsVariable(s, q, n) ==
  /\ q.next_reg >= s.next_reg
  /\ \E e \in Entry : /\ q.table = Append(s.table, e)
                      /\ e.name = Cut[n] /\ IsVariable(e)
                      /\ e.reg >= s.next_reg
                      /\ e.offset = s.next_offset
                      /\ e.size \in {8, 64}
                      /\ q.next_offset = s.next_offset + e.size

AlignedTable(s) ==
  \A i \in 1 .. Len(s.table) :
    IsVariable(s.table[i]) => s.table[i].offset % 8 = 0

OnlyVariables(s) == \A i \in 1 .. Len(s.table) : IsVariable(s.table[i])

(* An allocation that adds nothing leaves its name covered.                *)
LEMMA AllocateEffect ==
  ASSUME NEW s, TableInv(s), NEW n \in Name, NEW isString \in BOOLEAN
  PROVE  \/ Idle(s, Allocate(s, n, isString)) /\ Covered(Allocate(s, n, isString), n)
         \/ AddsVariable(s, Allocate(s, n, isString), n)
<1> DEFINE e == VariableEntry(s, n, isString)
           r == SkipReserved(s.next_reg)
<1>1. /\ s.next_reg \in Nat /\ s.next_offset \in Nat /\ s.next_reg >= 1
      /\ Len(s.table) \in Nat /\ MAX_SYMBOLS \in Nat /\ REG_MAX \in Nat
  BY LimitAssumption DEF TableInv, SymbolTables, FirstReg
<1>2. r \in Nat /\ r >= s.next_reg /\ r >= FirstReg
  BY <1>1 DEF SkipReserved, FirstReg
<1>3. ASSUME r <= REG_MAX
      PROVE  AddsVariable(s, Appended(s, e, r + 1), n)
  <2>1. /\ e \in Entry
        /\ e.name = Cut[n] /\ IsVariable(e)
        /\ e.offset = s.next_offset /\ e.size \in {8, 64}
        /\ e.reg = r
    BY <1>1, <1>2, <1>3, NameAssumption, LimitAssumption
       DEF VariableEntry, Entry, FirstReg, IsVariable
  <2>2. /\ Appended(s, e, r + 1).table = Append(s.table, e)
        /\ Appended(s, e, r + 1).next_offset = s.next_offset + e.size
        /\ Appended(s, e, r + 1).next_reg = r + 1
    BY DEF Appended
  <2> HIDE DEF e, r
  <2> QED
    BY <1>1, <1>2, <2>1, <2>2 DEF AddsVariable
<1>4. CASE Allocate(s, n, isString) = s
           /\ (GetRegisterOfTheSymbol(s, n) # -1 \/ Len(s.table) >= MAX_SYMBOLS)
  BY <1>1, <1>4 DEF Idle, Covered
<1>5. CASE Allocate(s, n, isString) = [s EXCEPT !.next_reg = r] /\ r > REG_MAX
  <2>1. /\ [s EXCEPT !.next_reg = r].table = s.table
        /\ [s EXCEPT !.next_reg = r].next_offset = s.next_offset
        /\ [s EXCEPT !.next_reg = r].next_reg = r
    BY DEF TableInv, SymbolTables
  <2> QED
    BY <1>1, <1>2, <1>5, <2>1 DEF Idle, Covered
<1>6. CASE Allocate(s, n, isString) = Appended(s, e, r + 1) /\ r <= REG_MAX
  BY <1>3, <1>6
<1> QED
  BY <1>1, <1>2, <1>4, <1>5, <1>6 DEF Allocate

(* Allocating a covered name changes nothing in the array.                 *)
LEMMA CoveredIsIdle ==
  ASSUME NEW s, TableInv(s), NEW n \in Name, NEW isString \in BOOLEAN, Covered(s, n)
  PROVE  Idle(s, Allocate(s, n, isString))
<1>1. /\ s.next_reg \in Nat /\ s.next_offset \in Nat /\ s.next_reg >= 1
      /\ Len(s.table) \in Nat /\ MAX_SYMBOLS \in Nat /\ REG_MAX \in Nat
  BY LimitAssumption DEF TableInv, SymbolTables, FirstReg
<1>2. /\ SkipReserved(s.next_reg) \in Nat
      /\ SkipReserved(s.next_reg) >= s.next_reg
  BY <1>1 DEF SkipReserved, FirstReg
<1>3. /\ [s EXCEPT !.next_reg = SkipReserved(@)].table = s.table
      /\ [s EXCEPT !.next_reg = SkipReserved(@)].next_offset = s.next_offset
      /\ [s EXCEPT !.next_reg = SkipReserved(@)].next_reg = SkipReserved(s.next_reg)
  BY DEF TableInv, SymbolTables
<1> QED
  BY <1>1, <1>2, <1>3 DEF Covered, Idle, Allocate

(* What is covered stays covered.                                          *)
LEMMA CoveredKept ==
  ASSUME NEW s, TableInv(s), NEW q, q.next_reg \in Nat, q.next_reg >= s.next_reg,
         q.table = s.table \/ Extends(s, q),
         NEW n, Covered(s, n)
  PROVE  Covered(q, n)
<1>1. /\ s.next_reg \in Nat /\ s.table \in Seq(Entry)
      /\ MAX_SYMBOLS \in Nat /\ REG_MAX \in Nat
  BY LimitAssumption DEF TableInv, SymbolTables
<1>2. CASE s.next_reg > REG_MAX
  BY <1>1, <1>2 DEF Covered
<1>3. CASE Len(s.table) >= MAX_SYMBOLS
  <2>1. Len(q.table) >= Len(s.table) /\ Len(q.table) \in Nat
    BY <1>1 DEF Extends
  <2> QED
    BY <1>1, <1>3, <2>1 DEF Covered
<1>4. CASE GetRegisterOfTheSymbol(s, n) # -1
  <2>1. Matches(s, n) # {}
    BY <1>4 DEF GetRegisterOfTheSymbol
  <2>2. CASE q.table = s.table
    BY <1>4, <2>2 DEF Covered, GetRegisterOfTheSymbol, FirstMatch, Matches
  <2>3. CASE Extends(s, q)
    <3>1. /\ Matches(q, n) # {}
          /\ q.table[FirstMatch(q, n)] = s.table[FirstMatch(s, n)]
      BY <1>1, <2>1, <2>3, FirstMatchStable
    <3> QED
      BY <1>4, <2>1, <3>1 DEF Covered, GetRegisterOfTheSymbol
  <2> QED
    BY <2>2, <2>3
<1> QED
  BY <1>2, <1>3, <1>4 DEF Covered

(* A variable joins variables.                                             *)
LEMMA AddedIsVariable ==
  ASSUME NEW s, TableInv(s), OnlyVariables(s), NEW q, NEW n, AddsVariable(s, q, n)
  PROVE  OnlyVariables(q)
<1>1. PICK e \in Entry : q.table = Append(s.table, e) /\ IsVariable(e)
  BY DEF AddsVariable
<1> DEFINE m == Len(s.table)
<1>2. s.table \in Seq(Entry) /\ m \in Nat
  BY DEF TableInv, SymbolTables
<1>3. /\ Len(q.table) = m + 1
      /\ q.table[m + 1] = e
      /\ \A i \in 1 .. m : q.table[i] = s.table[i]
  BY <1>1, <1>2
<1> QED
  BY <1>1, <1>2, <1>3 DEF OnlyVariables

(* An added variable is found again when its name is short and no label is *)
(* in the table.                                                           *)
LEMMA AddedIsCovered ==
  ASSUME NEW s, TableInv(s), OnlyVariables(s), NEW q, NEW n \in Name, Short(n),
         AddsVariable(s, q, n)
  PROVE  Covered(q, n)
<1>1. PICK e \in Entry : q.table = Append(s.table, e) /\ e.name = n /\ IsVariable(e)
  BY DEF AddsVariable, Short
<1> DEFINE m == Len(s.table)
<1>2. s.table \in Seq(Entry) /\ m \in Nat
  BY DEF TableInv, SymbolTables
<1>3. /\ q.table \in Seq(Entry) /\ Len(q.table) = m + 1
      /\ q.table[m + 1] = e
      /\ \A i \in 1 .. m : q.table[i] = s.table[i]
  BY <1>1, <1>2
<1>4. OnlyVariables(q)
  BY AddedIsVariable
<1>5. m + 1 \in Matches(q, n)
  BY <1>1, <1>2, <1>3 DEF Matches
<1>6. FirstMatch(q, n) \in Matches(q, n)
  BY <1>3, <1>5, FirstMatchExists
<1>7. FirstMatch(q, n) \in 1 .. Len(q.table)
  BY <1>3, <1>6 DEF Matches
<1>8. GetRegisterOfTheSymbol(q, n) # -1
  BY <1>4, <1>5, <1>7 DEF OnlyVariables, IsVariable, GetRegisterOfTheSymbol
<1> QED
  BY <1>4, <1>8 DEF Covered

(* Sizes of variables keep next_offset divisible by 8.                     *)
LEMMA StepsOfEight ==
  ASSUME NEW x \in Nat, NEW d \in {8, 64}, x % 8 = 0
  PROVE  (x + d) % 8 = 0
OBVIOUS

(* A variable added at an aligned offset is aligned.                       *)
LEMMA AddedIsAligned ==
  ASSUME NEW s, TableInv(s), AlignedTable(s), s.next_offset % 8 = 0,
         NEW q, NEW n, AddsVariable(s, q, n)
  PROVE  AlignedTable(q) /\ q.next_offset % 8 = 0
<1>1. PICK e \in Entry : /\ q.table = Append(s.table, e)
                         /\ e.offset = s.next_offset /\ e.size \in {8, 64}
                         /\ q.next_offset = s.next_offset + e.size
  BY DEF AddsVariable
<1> DEFINE m == Len(s.table)
<1>2. s.table \in Seq(Entry) /\ m \in Nat /\ s.next_offset \in Nat
  BY DEF TableInv, SymbolTables
<1>3. /\ Len(q.table) = m + 1
      /\ q.table[m + 1] = e
      /\ \A i \in 1 .. m : q.table[i] = s.table[i]
  BY <1>1, <1>2
<1>4. AlignedTable(q)
  BY <1>1, <1>2, <1>3 DEF AlignedTable
<1>5. q.next_offset % 8 = 0
  BY <1>1, <1>2, StepsOfEight
<1> QED
  BY <1>4, <1>5

(* A label is no variable and hands out no register.                       *)
LEMMA WithLabelAligned ==
  ASSUME NEW s, TableInv(s), NEW n \in Name, NEW size \in Nat \ {0}
  PROVE  /\ AlignedTable(s) => AlignedTable(WithLabel(s, n, size))
         /\ WithLabel(s, n, size).next_reg = s.next_reg
<1> DEFINE e == LabelEntry(s, n, size)
           m == Len(s.table)
<1>1. s.table \in Seq(Entry) /\ m \in Nat /\ s.next_offset \in Nat
  BY DEF TableInv, SymbolTables
<1>2. e \in Entry /\ ~IsVariable(e)
  BY <1>1, NameAssumption DEF LabelEntry, Entry, IsVariable
<1>3. CASE WithLabel(s, n, size) = s
  BY <1>3
<1>4. CASE WithLabel(s, n, size) = Appended(s, e, s.next_reg)
  <2> HIDE DEF e
  <2>1. /\ WithLabel(s, n, size).table = Append(s.table, e)
        /\ WithLabel(s, n, size).next_reg = s.next_reg
    BY <1>4 DEF Appended
  <2>2. /\ Len(Append(s.table, e)) = m + 1
        /\ Append(s.table, e)[m + 1] = e
        /\ \A i \in 1 .. m : Append(s.table, e)[i] = s.table[i]
    BY <1>1, <1>2
  <2> QED
    BY <1>1, <1>2, <2>1, <2>2 DEF AlignedTable
<1> QED
  BY <1>3, <1>4 DEF WithLabel

-----------------------------------------------------------------------------
(* What the second walk needs of the first: every declaration that it will *)
(* allocate again is covered.  The first two phases know more: variables   *)
(* are aligned whatever their names, and until the labels come there is    *)
(* nothing but variables.                                                  *)
DeclarationsCovered(p, s) ==
  \A i \in 1 .. Len(p) :
    p[i].kind \in {"bare", "decl_init"} /\ Short(p[i].name) => Covered(s, p[i].name)

AlignInv ==
  /\ Shape
  /\ TableInv(symtab)
  /\ phase = "collect" => symtab.next_offset % 8 = 0 /\ OnlyVariables(symtab)
  /\ phase \in {"collect", "labels"} \/ NamesAreShort => AlignedTable(symtab)
  /\ DeclarationsCovered(program, symtab)

(* The names of declarations are among those that NamesAreShort speaks of. *)
LEMMA DeclaredIsShort ==
  ASSUME Shape, NamesAreShort, NEW i \in 1 .. Len(program),
         program[i].kind \in {"bare", "decl_init"}
  PROVE  Short(program[i].name)
<1>1. program[i] \in Item /\ i \in DOMAIN program
  BY DEF Shape
<1>2. program[i].name \in Ident /\ program[i].type \in {"int", "ch"}
  BY <1>1, ItemFields DEF Named
<1>3. IsDecl(program[i])
  BY DEF IsDecl
<1>4. program[i].name \in Declared
  BY <1>1, <1>2, <1>3 DEF Declared, DeclaredAs
<1> QED
  BY <1>4 DEF NamesAreShort

(* No step takes registers back, and the array is kept or extended.        *)
LEMMA StepGrows ==
  ASSUME Shape, TableInv(symtab), [Next]_vars
  PROVE  /\ TableInv(symtab')
         /\ symtab'.next_reg \in Nat /\ symtab'.next_reg >= symtab.next_reg
         /\ symtab'.table = symtab.table \/ Extends(symtab, symtab')
<1>1. symtab.next_reg \in Nat
  BY DEF TableInv, SymbolTables
<1>2. ASSUME NEW n \in Name, NEW isString \in BOOLEAN, symtab' = Allocate(symtab, n, isString)
      PROVE  /\ TableInv(symtab')
             /\ symtab'.next_reg >= symtab.next_reg
             /\ symtab'.table = symtab.table \/ Extends(symtab, symtab')
  <2>1. symtab'.next_reg >= symtab.next_reg
    BY <1>2, AllocateEffect DEF Idle, AddsVariable
  <2> QED
    BY <1>2, <2>1, AllocateInv, AllocateShape
<1>3. ASSUME NEW n \in Name, NEW size \in LabelSizes, symtab' = WithLabel(symtab, n, size)
      PROVE  /\ TableInv(symtab')
             /\ symtab'.next_reg >= symtab.next_reg
             /\ symtab'.table = symtab.table \/ Extends(symtab, symtab')
  <2>1. size \in Nat \ {0}
    BY LabelSizeAssumption
  <2> QED
    BY <1>1, <1>3, <2>1, WithLabelAligned, WithLabelInv, WithLabelShape
<1>4. \/ symtab' = symtab
      \/ \E n \in Name, isString \in BOOLEAN : symtab' = Allocate(symtab, n, isString)
      \/ \E n \in Name, size \in LabelSizes : symtab' = WithLabel(symtab, n, size)
  BY StepIsCall
<1>5. /\ TableInv(symtab')
      /\ symtab'.next_reg >= symtab.next_reg
      /\ symtab'.table = symtab.table \/ Extends(symtab, symtab')
  BY <1>1, <1>2, <1>3, <1>4
<1> QED
  BY <1>5 DEF TableInv, SymbolTables

(* Declarations stay covered while the program stands.                     *)
LEMMA CoverageKept ==
  ASSUME Shape, TableInv(symtab), [Next]_vars, NEW p, DeclarationsCovered(p, symtab)
  PROVE  DeclarationsCovered(p, symtab')
  BY StepGrows, CoveredKept DEF DeclarationsCovered

(* An item of the first walk keeps the offsets aligned, and a declaration  *)
(* it allocates is covered.                                                *)
LEMMA CollectAligned ==
  ASSUME Shape, TableInv(symtab), OnlyVariables(symtab), AlignedTable(symtab),
         symtab.next_offset % 8 = 0,
         NEW item \in Item, Collected(item)
  PROVE  /\ OnlyVariables(symtab') /\ AlignedTable(symtab')
         /\ symtab'.next_offset % 8 = 0
         /\ item.kind \in {"bare", "decl_init"} /\ Short(item.name) =>
              Covered(symtab', item.name)
<1>1. CASE symtab' = symtab /\ item.kind \notin {"bare", "decl_init"}
  BY <1>1
<1>2. ASSUME NEW n \in Name, NEW isString \in BOOLEAN,
             symtab' = Allocate(symtab, n, isString)
      PROVE  /\ OnlyVariables(symtab') /\ AlignedTable(symtab')
             /\ symtab'.next_offset % 8 = 0
             /\ Short(n) => Covered(symtab', n)
  <2>1. CASE Idle(symtab, symtab') /\ Covered(symtab', n)
    BY <2>1 DEF Idle, OnlyVariables, AlignedTable
  <2>2. CASE AddsVariable(symtab, symtab', n)
    BY <2>2, AddedIsAligned, AddedIsCovered, AddedIsVariable
  <2> QED
    BY <1>2, <2>1, <2>2, AllocateEffect
<1>3. \/ symtab' = symtab /\ item.kind \notin {"bare", "decl_init"}
      \/ /\ item.name \in Name
         /\ \E isString \in BOOLEAN : symtab' = Allocate(symtab, item.name, isString)
  BY CollectedCall
<1> QED
  BY <1>1, <1>2, <1>3

(* The invariant holds initially.                                          *)
LEMMA AlignInit == Init => AlignInv
<1> SUFFICES ASSUME Init  PROVE AlignInv
  OBVIOUS
<1>1. Shape /\ TableInv(symtab)
  BY InitShape, EmptyTableInv DEF Init, SymbolInit
<1>2. Len(symtab.table) = 0 /\ symtab.next_offset = 0 /\ Len(program) = 0
  BY DEF Init, SymbolInit, EmptyTable
<1> QED
  BY <1>1, <1>2 DEF AlignInv, OnlyVariables, AlignedTable, DeclarationsCovered

(* Every step of the generator keeps it.                                   *)
LEMMA AlignStep == AlignInv /\ [Next]_vars => AlignInv'
<1> SUFFICES ASSUME AlignInv, [Next]_vars  PROVE AlignInv'
  OBVIOUS
<1>0. Shape /\ TableInv(symtab) /\ DeclarationsCovered(program, symtab)
  BY DEF AlignInv
<1>1. Shape' /\ TableInv(symtab')
  BY <1>0, StepShapeKept, StepGrows
<1>2. DeclarationsCovered(program, symtab')
  BY <1>0, CoverageKept
<1>3. ASSUME NEW item \in Item, Collect(item)  PROVE AlignInv'
  <2>1. phase = "collect" /\ phase' = phase /\ program' = Append(program, item)
        /\ Collected(item)
    BY <1>3 DEF Collect
  <2>2. /\ OnlyVariables(symtab') /\ AlignedTable(symtab')
        /\ symtab'.next_offset % 8 = 0
        /\ item.kind \in {"bare", "decl_init"} /\ Short(item.name) =>
             Covered(symtab', item.name)
    BY <1>0, <2>1, CollectAligned DEF AlignInv
  <2>3. DeclarationsCovered(program', symtab')
    <3>1. /\ Len(program) \in Nat /\ Len(program') = Len(program) + 1
          /\ program'[Len(program) + 1] = item
          /\ \A i \in 1 .. Len(program) : program'[i] = program[i]
      BY <1>0, <2>1 DEF Shape
    <3> QED
      BY <1>2, <2>2, <3>1 DEF DeclarationsCovered
  <2> QED
    BY <1>1, <2>1, <2>2, <2>3 DEF AlignInv
<1>4. CASE RegisterLabel
  <2>1. PICK n \in Name, size \in LabelSizes : symtab' = WithLabel(symtab, n, size)
    BY <1>0, <1>4, RegisterLabelShape
  <2>2. AlignedTable(symtab')
    BY <1>0, <1>4, <2>1, LabelSizeAssumption, WithLabelAligned DEF AlignInv, RegisterLabel
  <2> QED
    BY <1>1, <1>2, <1>4, <2>2 DEF AlignInv, RegisterLabel
<1>5. CASE Generate
  <2>1. /\ phase = "code" /\ phase' = phase /\ program' = program
        /\ pc \in 1 .. Len(program) /\ Generated(program[pc])
    BY <1>0, <1>5 DEF Generate, Shape
  <2>2. program[pc] \in Item
    BY <1>0, <2>1 DEF Shape
  <2>3. NamesAreShort' <=> NamesAreShort
    BY <2>1 DEF NamesAreShort, Declared, DeclaredAs
  <2>4. ASSUME NamesAreShort  PROVE AlignedTable(symtab')
    <3>1. AlignedTable(symtab)
      BY <2>4 DEF AlignInv
    <3>2. CASE symtab' = symtab
      BY <3>1, <3>2
    <3>3. CASE /\ program[pc].kind \in {"bare", "decl_init"} /\ program[pc].name \in Name
               /\ symtab' = AllocateRegisterForTheSymbol(symtab, program[pc].name)
      <4>1. Short(program[pc].name)
        BY <1>0, <2>1, <2>2, <2>4, <3>3, DeclaredIsShort
      <4>2. Covered(symtab, program[pc].name)
        BY <1>0, <2>1, <3>3, <4>1 DEF DeclarationsCovered
      <4>3. Idle(symtab, symtab')
        BY <1>0, <3>3, <4>2, CoveredIsIdle DEF AllocateRegisterForTheSymbol
      <4> QED
        BY <3>1, <4>3 DEF Idle, AlignedTable
    <3> QED
      BY <1>0, <2>1, <2>2, <3>2, <3>3, GeneratedShape
  <2> QED
    BY <1>1, <1>2, <2>1, <2>3, <2>4 DEF AlignInv
<1>6. CASE EndOfProgram \/ Written \/ Exit \/ Finished \/ UNCHANGED vars
  <2>1. /\ symtab' = symtab /\ program' = program
        /\ phase' = "collect" => phase = "collect"
        /\ phase' \in {"collect", "labels"} => phase \in {"collect", "labels"}
    BY <1>6 DEF EndOfProgram, Written, EndOfLabels, PrintData, PrintStrings, Exit,
         Finished, vars
  <2>2. NamesAreShort' <=> NamesAreShort
    BY <2>1 DEF NamesAreShort, Declared, DeclaredAs
  <2> QED
    BY <1>1, <1>2, <2>1, <2>2 DEF AlignInv
<1> QED
  BY <1>3, <1>4, <1>5, <1>6 DEF Next, Written

(* Every variable has an address that ld and sd accept, although labels of *)
(* odd sizes come between the two walks: the second one allocates none.    *)
THEOREM VariablesStayAligned == Spec => []VariablesAligned
<1>1. AlignInv => VariablesAligned
  <2> SUFFICES ASSUME AlignInv, NamesAreShort, NEW i \in DOMAIN symtab.table,
                      IsVariable(symtab.table[i])
               PROVE  symtab.table[i].offset % 8 = 0
    BY DEF VariablesAligned
  <2>1. i \in 1 .. Len(symtab.table)
    BY DEF AlignInv, TableInv, SymbolTables
  <2> QED
    BY <2>1 DEF AlignInv, AlignedTable
<1> QED
  BY <1>1, AlignInit, AlignStep, PTL DEF Spec

-----------------------------------------------------------------------------
(***************************************************************************)
(* Types.  The bounds of pc and the length of the code depend on the phase.*)
(***************************************************************************)
Variables == [name : Ident, value : Literal]

Instruction == {NoOp} \cup {Op(op, label) : op \in {"ld", "sd", "print_str", "print_int"},
                                            label \in Name}

VarTable(table) == table \in Seq(Variables) /\ Len(table) <= MAX_STRINGS

Progress ==
  \/ phase = "collect" /\ pc = 1 /\ Len(code) = 0
  \/ phase = "labels" /\ pc <= Len(string_table) + 1 /\ Len(code) = 0
  \/ phase = "data" /\ pc <= Len(symtab.table) + 1 /\ Len(code) = 0
  \/ phase = "code" /\ pc <= Len(program) + 1 /\ Len(code) = pc - 1
  \/ phase = "done" /\ pc = Len(program) + 1 /\ Len(code) = Len(program)

GeneratorTypes ==
  /\ Shape /\ TableInv(symtab)
  /\ Len(program) <= MaxItems
  /\ VarTable(string_vars)
  /\ code \in Seq(Instruction)
  /\ Progress

(* Items that give a string or print one have it.                          *)
LEMMA ItemLiterals ==
  ASSUME NEW item \in Item, item.kind \in {"decl_str", "assign_str", "print_lit"}
  PROVE  item.lit \in Literal
<1>1. CASE item \in Declarations
  <2>1. PICK n \in Ident : item \in Declaration(n)
    BY <1>1 DEF Declarations
  <2>2. CASE \E l \in Literal : item = DeclStr(n, l)
    BY <2>2 DEF DeclStr
  <2>3. CASE item \in {Bare(n, "int"), Bare(n, "ch"), DeclInit(n)}
    BY <2>3 DEF Bare, DeclInit
  <2> QED BY <2>1, <2>2, <2>3 DEF Declaration
<1>2. CASE item \in Uses
  BY <1>2 DEF Uses, Target, Ref, Store, PrintVar
<1>3. CASE item \in StringAssignments
  BY <1>3 DEF StringAssignments, AssignStr
<1>4. CASE item \in LiteralPrints
  BY <1>4 DEF LiteralPrints, PrintLit
<1> QED BY <1>1, <1>2, <1>3, <1>4 DEF Item

(* AddStringVariable keeps the table within its capacity.                  *)
LEMMA AddStringVariableTable ==
  ASSUME VarTable(string_vars), NEW n \in Ident, NEW l \in Literal, AddStringVariable(n, l)
  PROVE  VarTable(string_vars')
<1> DEFINE v == [name |-> n, value |-> l]
           known == {i \in DOMAIN string_vars : string_vars[i].name = n}
           m == Len(string_vars)
<1>1. v \in Variables /\ MAX_STRINGS \in Nat
  BY AssemblyAssumption DEF Variables
<1>2. string_vars \in Seq(Variables) /\ m \in Nat /\ m <= MAX_STRINGS /\ DOMAIN string_vars = 1 .. m
  BY DEF VarTable
<1> HIDE DEF v, m
<1>3. CASE string_vars' = [i \in DOMAIN string_vars |-> IF i \in known THEN v ELSE string_vars[i]]
  <2>1. \A i \in 1 .. m : (IF i \in known THEN v ELSE string_vars[i]) \in Variables
    BY <1>1, <1>2
  <2> HIDE DEF known
  <2>2. string_vars' \in [1 .. m -> Variables]
    BY <1>2, <1>3, <2>1
  <2>3. string_vars' \in Seq(Variables) /\ Len(string_vars') = m
    BY <1>2, <2>2
  <2> QED BY <1>2, <2>3 DEF VarTable
<1>4. CASE m < MAX_STRINGS /\ string_vars' = Append(string_vars, v)
  <2>1. string_vars' \in Seq(Variables) /\ Len(string_vars') = m + 1
    BY <1>1, <1>2, <1>4 DEF m
  <2> QED BY <1>1, <1>2, <1>4, <2>1 DEF VarTable
<1>5. CASE string_vars' = string_vars
  BY <1>5 DEF VarTable
<1>6. \/ string_vars' = [i \in DOMAIN string_vars |-> IF i \in known THEN v ELSE string_vars[i]]
      \/ ~(m >= MAX_STRINGS) /\ string_vars' = Append(string_vars, v)
      \/ string_vars' = string_vars
  BY Zenon DEF AddStringVariable, v, m
<1>7. ~(m >= MAX_STRINGS) => m < MAX_STRINGS
  BY <1>1, <1>2
<1> QED BY <1>3, <1>4, <1>5, <1>6, <1>7

(* The first walk keeps the types, ...                                     *)
LEMMA CollectTypes ==
  ASSUME GeneratorTypes, NEW item \in Item, Collect(item)
  PROVE  /\ Len(program') <= MaxItems /\ VarTable(string_vars')
         /\ code' \in Seq(Instruction) /\ Progress'
<1>1. Len(program') <= MaxItems
  BY AssemblyAssumption DEF Collect, Room, GeneratorTypes, Shape
<1>2. VarTable(string_vars')
  <2>1. CASE item.kind \in {"decl_str", "assign_str"}
    <3>1. AddStringVariable(item.name, item.lit)
      BY <2>1 DEF Collect, Collected
    <3>2. item.name \in Ident /\ item.lit \in Literal
      BY <2>1, ItemFields, ItemLiterals DEF Named
    <3> QED BY <3>1, <3>2, AddStringVariableTable DEF GeneratorTypes
  <2>2. CASE item.kind \notin {"decl_str", "assign_str"}
    BY <2>2 DEF Collect, Collected, GeneratorTypes, VarTable
  <2> QED BY <2>1, <2>2
<1>3. code' \in Seq(Instruction)
  BY DEF Collect, GeneratorTypes
<1>4. Progress'
  BY DEF Collect, GeneratorTypes, Progress
<1> QED BY <1>1, <1>2, <1>3, <1>4

(* ... so does the second, ...                                             *)
LEMMA GenerateTypes ==
  ASSUME GeneratorTypes, Generate
  PROVE  code' \in Seq(Instruction) /\ Progress'
<1> DEFINE item == program[pc]
<1>1. phase = "code" /\ pc \in 1 .. Len(program) /\ item \in Item
  BY DEF Generate, GeneratorTypes, Shape
<1>2. PICK op \in Instruction : code' = Append(code, op)
  <2>1. CASE item.kind \in {"bare", "decl_init", "decl_str", "assign_str", "target"}
    BY <2>1 DEF Generate, Generated, Instruction
  <2>2. CASE item.kind \in {"ref", "store", "print_var"}
    <3>1. item.name \in Name
      BY <1>1, <2>2, ItemFields DEF Named
    <3> HIDE DEF item
    <3>2. \A op \in {"ld", "sd", "print_str", "print_int"} : Op(op, item.name) \in Instruction
      BY <3>1 DEF Instruction
    <3> QED BY <2>2, <3>2 DEF Generate, Generated, item
  <2>3. CASE item.kind = "print_lit"
    <3> DEFINE table == GetStringLabel(string_table, item.lit)
    <3>1. item.lit \in Literal
      BY <1>1, <2>3, ItemLiterals
    <3>2. LitTable(table)
      BY <3>1, GetStringLabelTable DEF GeneratorTypes, Shape
    <3> HIDE DEF table
    <3>3. \A i \in Positions(table, item.lit) : StrLabel[i] \in Name
      BY <3>2, AssemblyAssumption DEF LitTable, Positions
    <3>4. \A i \in Positions(table, item.lit) : Op("print_str", StrLabel[i]) \in Instruction
      BY <3>3 DEF Instruction
    <3>5. NoOp \in Instruction
      BY DEF Instruction
    <3>6. \/ \E i \in Positions(table, item.lit) : code' = Append(code, Op("print_str", StrLabel[i]))
          \/ code' = Append(code, NoOp)
      BY <2>3 DEF Generate, Generated, table
    <3> QED BY <3>4, <3>5, <3>6
  <2> QED BY <1>1, <2>1, <2>2, <2>3, ItemFields DEF Named
<1>3. code \in Seq(Instruction) /\ Len(code) = pc - 1 /\ pc \in Nat /\ Len(program) \in Nat
  BY <1>1 DEF GeneratorTypes, Progress, Shape
<1>4. code' \in Seq(Instruction) /\ Len(code') = pc
  BY <1>2, <1>3
<1>5. phase' = "code" /\ pc' = pc + 1 /\ program' = program
  BY <1>1 DEF Generate
<1>6. Progress'
  BY <1>1, <1>3, <1>4, <1>5 DEF Progress
<1> QED BY <1>4, <1>6

(* ... and so does every step.                                             *)
LEMMA GeneratorTypesStep == GeneratorTypes /\ [Next]_vars => GeneratorTypes'
<1> SUFFICES ASSUME GeneratorTypes, [Next]_vars PROVE GeneratorTypes'
  OBVIOUS
<1>0. Shape' /\ TableInv(symtab')
  BY StepShapeKept, StepGrows DEF GeneratorTypes
<1>1. ASSUME NEW item \in Item, Collect(item) PROVE GeneratorTypes'
  BY <1>0, <1>1, CollectTypes DEF GeneratorTypes
<1>2. CASE Generate
  BY <1>0, <1>2, GenerateTypes DEF GeneratorTypes, Generate, VarTable
<1>3. CASE EndOfProgram \/ RegisterLabel \/ Written \/ Exit \/ Finished \/ UNCHANGED vars
  <2>1. /\ UNCHANGED <<program, string_vars, code, string_table>>
        /\ RegisterLabel \/ symtab' = symtab
    BY <1>3 DEF EndOfProgram, RegisterLabel, Written, EndOfLabels, PrintData, PrintStrings, Exit,
         Finished, vars
  <2>2. pc \in Nat \ {0} /\ Len(string_table) \in Nat /\ Len(program) \in Nat
        /\ Len(symtab.table) \in Nat
    BY DEF GeneratorTypes, Shape, LitTable, TableInv, SymbolTables
  <2>3. Progress'
    <3>1. CASE EndOfProgram
      BY <2>1, <2>2, <3>1 DEF EndOfProgram, GeneratorTypes, Progress
    <3>2. CASE RegisterLabel
      BY <2>1, <2>2, <3>2 DEF RegisterLabel, GeneratorTypes, Progress
    <3>3. CASE Written
      BY <2>1, <2>2, <3>3 DEF Written, EndOfLabels, PrintData, PrintStrings,
                              GeneratorTypes, Progress
    <3>4. CASE Exit
      BY <2>1, <2>2, <3>4 DEF Exit, GeneratorTypes, Progress
    <3>5. CASE UNCHANGED vars
      BY <3>5 DEF vars, GeneratorTypes, Progress
    <3> QED BY <1>3, <3>1, <3>2, <3>3, <3>4, <3>5 DEF Finished
  <2> QED BY <1>0, <2>1, <2>3 DEF GeneratorTypes, VarTable
<1> QED BY <1>1, <1>2, <1>3 DEF Next, Written

(* The types hold at the start.                                            *)
LEMMA GeneratorTypesInit == Init => GeneratorTypes
<1> SUFFICES ASSUME Init PROVE GeneratorTypes
  OBVIOUS
<1>1. Shape /\ TableInv(symtab)
  BY AlignInit DEF AlignInv
<1>2. VarTable(string_vars) /\ Len(program) <= MaxItems /\ code \in Seq(Instruction)
  BY AssemblyAssumption DEF Init, VarTable
<1>3. Progress
  BY DEF Init, Progress
<1> QED BY <1>1, <1>2, <1>3 DEF GeneratorTypes

(* The two string tables and the code stay within their bounds, whatever   *)
(* the program and the capacities.                                         *)
THEOREM GeneratorTypeCorrect == Spec => []TypeOK
<1>1. Init => GeneratorTypes
  BY GeneratorTypesInit
<1>2. GeneratorTypes => TypeOK
  <2> SUFFICES ASSUME GeneratorTypes PROVE TypeOK
    OBVIOUS
  <2>1. SymbolTypeOK
    BY DEF GeneratorTypes, TableInv, SymbolTypeOK
  <2>2. /\ program \in Seq(Item) /\ Len(program) <= MaxItems /\ Len(program) \in Nat
        /\ string_table \in Seq(Literal) /\ Len(string_table) <= MAX_STRINGS
        /\ Len(string_table) \in Nat /\ pc \in Nat \ {0} /\ MAX_STRINGS \in Nat /\ MaxItems \in Nat
        /\ Len(symtab.table) \in Nat /\ Len(symtab.table) <= MAX_SYMBOLS /\ MAX_SYMBOLS \in Nat
    BY AssemblyAssumption, LimitAssumption
       DEF GeneratorTypes, Shape, LitTable, TableInv, SymbolTables
  <2>3. /\ phase \in Phase /\ Len(code) <= Len(program) /\ pc \in 1 .. MaxItems + MAX_STRINGS + MAX_SYMBOLS + 1
    BY <2>2 DEF GeneratorTypes, Progress, Phase
  <2>4. string_vars \in Seq([name : Ident, value : Literal]) /\ Len(string_vars) <= MAX_STRINGS
    BY DEF GeneratorTypes, VarTable, Variables
  <2> QED BY <2>1, <2>2, <2>3, <2>4 DEF TypeOK
<1> QED BY <1>1, <1>2, GeneratorTypesStep, PTL DEF Spec

-----------------------------------------------------------------------------
(***************************************************************************)
(* The story that the tables, the data and the code tell of the program.   *)
(* First what is legal: a use of a name comes after its declaration, and   *)
(* no name is declared with both types.                                    *)
(***************************************************************************)
ProgramInv ==
  /\ \A i \in 1 .. Len(program) :
       program[i].kind \in {"target", "ref", "store", "print_var", "assign_str"}
         => program[i].name \in Declared
  /\ \A n \in Ident : DeclaredAs(n, {"int"}) => ~IsDeclStr(n)

(* string_table: each literal once, none but those printed, and all of     *)
(* them while there is room; so the second walk finds every literal there. *)
LiteralTable ==
  /\ \A i, j \in 1 .. Len(string_table) : string_table[i] = string_table[j] => i = j
  /\ \A i \in 1 .. Len(string_table) : string_table[i] \in Literals
  /\ \A x \in Literals : \/ \E i \in 1 .. Len(string_table) : string_table[i] = x
                         \/ Len(string_table) >= MAX_STRINGS

(* string_vars: each string variable once, with its last value.            *)
StringTable ==
  /\ \A i, j \in 1 .. Len(string_vars) : string_vars[i].name = string_vars[j].name => i = j
  /\ \A i \in 1 .. Len(string_vars) : string_vars[i].name \in StringsGiven
  /\ \A i \in 1 .. Len(string_vars), n \in StringsGiven :
       string_vars[i].name = n => string_vars[i].value = LastGiven(n)
  /\ \A n \in StringsGiven : \/ \E i \in 1 .. Len(string_vars) : string_vars[i].name = n
                             \/ Len(string_vars) >= MAX_STRINGS

(* The symbol table: entries have different names, variables are declared  *)
(* ones of the right type, and the others are labels.                      *)
TableStory(tab) ==
  /\ \A i, j \in 1 .. Len(tab) : tab[i].name = tab[j].name => i = j
  /\ \A i \in 1 .. Len(tab) : IsVariable(tab[i]) => tab[i].name \in Declared
  /\ \A i \in 1 .. Len(tab), n \in Declared :
       IsVariable(tab[i]) /\ tab[i].name = n => (tab[i].is_string_var <=> IsDeclStr(n))
  /\ \A i \in 1 .. Len(tab) : ~IsVariable(tab[i]) => ~tab[i].is_string_var

AllCovered == \A n \in Declared : Covered(symtab, n)

(* No register is lost while variables are allocated.                      *)
RegistersSpent == phase = "collect" => symtab.next_reg <= FirstReg + Len(symtab.table)

(* Enough registers: every declared variable has an entry.                 *)
HasEntry(tab, n) == \E i \in 1 .. Len(tab) : IsVariable(tab[i]) /\ tab[i].name = n

AllEntered ==
  phase # "collect" /\ VariablesFit => \A n \in Declared : HasEntry(symtab.table, n)

(* The labels that the symbol table has been given so far.                 *)
Registered ==
  CASE phase = "collect" -> 0
    [] phase = "labels"  -> pc - 1
    [] OTHER             -> Len(string_table)

SymbolsCounted ==
  phase = "labels" =>
    Len(symtab.table) <= Cardinality(Declared) + Registered

LabelsFound ==
  SymbolsFit => \A h \in 1 .. Registered :
    \E i \in 1 .. Len(symtab.table) : symtab.table[i].name = StrLabel[h]

(* The labels come last and in order, with the sizes of their literals.    *)
LabelsAtEnd(tab, r) ==
  /\ r <= Len(tab)
  /\ \A i \in 1 .. Len(tab) - r : IsVariable(tab[i])
  /\ \A h \in 1 .. r : /\ ~IsVariable(tab[Len(tab) - r + h])
                      /\ tab[Len(tab) - r + h].name = StrLabel[h]
                      /\ tab[Len(tab) - r + h].size = SizeOf[string_table[h]]

LabelsLast ==
  phase # "collect" /\ SymbolsFit /\ NamesAreNotLabels =>
    LabelsAtEnd(symtab.table, Registered)

(* Symbols lie one behind the other.                                       *)
Contiguous(s) ==
  /\ \A i \in 1 .. Len(s.table) :
       /\ s.table[i].offset = IF i = 1 THEN 0
                              ELSE s.table[i - 1].offset + s.table[i - 1].size
       /\ IsVariable(s.table[i]) =>
            s.table[i].size = IF s.table[i].is_string_var THEN 64 ELSE 8
  /\ s.next_offset = IF Len(s.table) = 0 THEN 0
                     ELSE s.table[Len(s.table)].offset + s.table[Len(s.table)].size

TablesAgree ==
  /\ TableStory(symtab.table) /\ AllCovered /\ RegistersSpent /\ AllEntered
  /\ SymbolsCounted /\ LabelsFound /\ LabelsLast

TableInvs == NamesAreShort => TablesAgree

(* .data: d has a line for each integer among the first m symbols, in the  *)
(* table's order, and no other line.                                       *)
Line == {Space(n) : n \in Name} \cup {Asciiz(n, l) : n \in Name, l \in Literal}

IntegerLines(d, tab, m) ==
  /\ d \in Seq(Line)
  /\ \A j \in 1 .. Len(d) : \E i \in 1 .. m : IsInteger(tab[i]) /\ d[j] = Space(tab[i].name)
  /\ \A i \in 1 .. m : IsInteger(tab[i]) =>
       \E j \in 1 .. Len(d) : d[j] = Space(tab[i].name)
  /\ \A j, k \in 1 .. Len(d) : d[j].label = d[k].label => j = k
  /\ \A v \in 0 .. Len(tab) :
       (\A i \in 1 .. Len(tab) : IsInteger(tab[i]) <=> i <= v) =>
         /\ Len(d) = IF m <= v THEN m ELSE v
         /\ \A j \in 1 .. Len(d) : d[j] = Space(tab[j].name)

DataInv ==
  NamesAreShort =>
    /\ phase \in {"collect", "labels"} => data = << >>
    /\ phase = "data" => IntegerLines(data, symtab.table, pc - 1)
    /\ phase \in {"code", "done"} =>
         \E d \in Seq(Line) : /\ IntegerLines(d, symtab.table, Len(symtab.table))
                              /\ data = d \o LiteralSection \o StringSection

(* .code: what an item becomes when the tables are s and table.            *)
BecameCode(item, op, s, table) ==
  /\ item.kind = "ref" => op = Op("ld", item.name)
  /\ item.kind = "store" => op = Op("sd", item.name)
  /\ item.kind = "print_var" =>
       op = Op(IF IsStringVariable(s, item.name) THEN "print_str" ELSE "print_int", item.name)
  /\ item.kind = "print_lit" =>
       \/ \E i \in Positions(table, item.lit) : op = Op("print_str", StrLabel[i])
       \/ Positions(table, item.lit) = {} /\ op = NoOp
  /\ item.kind \in Named \ {"ref", "store", "print_var"} => op = NoOp

CodeInv ==
  NamesAreShort =>
    \A i \in 1 .. Len(code) : BecameCode(program[i], code[i], symtab, string_table)

StoryInv ==
  /\ ProgramInv /\ LiteralTable /\ StringTable
  /\ Contiguous(symtab) /\ TableInvs
  /\ DataInv /\ CodeInv

-----------------------------------------------------------------------------
(* Counting.                                                               *)

(* What a sequence of length m takes up is finite.                         *)
LEMMA FiniteImage ==
  ASSUME NEW S, NEW m \in Nat, NEW f,
         \A x \in S : \E i \in 1 .. m : f[i] = x
  PROVE  IsFiniteSet(S)
<1> DEFINE g == [x \in S |-> CHOOSE i \in 1 .. m : f[i] = x]
<1>1. \A x \in S : g[x] \in 1 .. m /\ f[g[x]] = x
  OBVIOUS
<1>2. g \in [S -> 1 .. m]
  BY <1>1
<1> HIDE DEF g
<1>3. g \in Injection(S, 1 .. m)
  BY <1>1, <1>2 DEF Injection, IsInjective
<1>4. IsFiniteSet(1 .. m)
  BY FS_Interval
<1> QED
  BY <1>3, <1>4, FS_Injection

(* m different elements of S are no more than S has.                       *)
LEMMA DistinctElements ==
  ASSUME NEW S, IsFiniteSet(S), NEW m \in Nat, NEW f,
         \A i \in 1 .. m : f[i] \in S,
         \A i, j \in 1 .. m : f[i] = f[j] => i = j
  PROVE  m <= Cardinality(S)
<1> DEFINE g == [i \in 1 .. m |-> f[i]]
<1>1. \A i \in 1 .. m : g[i] = f[i]
  OBVIOUS
<1>2. g \in [1 .. m -> S]
  OBVIOUS
<1> HIDE DEF g
<1>3. g \in Injection(1 .. m, S)
  BY <1>1, <1>2 DEF Injection, IsInjective
<1>4. Cardinality(1 .. m) <= Cardinality(S)
  BY <1>3, FS_Injection
<1>5. Cardinality(1 .. m) = m
  BY FS_Interval
<1> QED
  BY <1>4, <1>5

(* They are fewer when they leave one out.                                 *)
LEMMA DistinctButOne ==
  ASSUME NEW S, IsFiniteSet(S), NEW m \in Nat, NEW f, NEW x \in S,
         \A i \in 1 .. m : f[i] \in S /\ f[i] # x,
         \A i, j \in 1 .. m : f[i] = f[j] => i = j
  PROVE  m <= Cardinality(S) - 1
<1>1. IsFiniteSet(S \ {x}) /\ Cardinality(S \ {x}) = Cardinality(S) - 1
  BY FS_RemoveElement
<1>2. \A i \in 1 .. m : f[i] \in S \ {x}
  OBVIOUS
<1>3. m <= Cardinality(S \ {x})
  BY <1>1, <1>2, DistinctElements
<1> QED
  BY <1>1, <1>3

-----------------------------------------------------------------------------
(* The program grows by one item.                                          *)

(* The items of a program are numbered from 1.                             *)
LEMMA ProgramDomain == Shape => Len(program) \in Nat /\ DOMAIN program = 1 .. Len(program)
  BY DEF Shape

(* The program after one more item.                                        *)
LEMMA AppendedItem ==
  ASSUME Shape, NEW item \in Item, program' = Append(program, item)
  PROVE  /\ Len(program) \in Nat /\ Len(program') = Len(program) + 1
         /\ DOMAIN program = 1 .. Len(program) /\ DOMAIN program' = 1 .. Len(program) + 1
         /\ program'[Len(program) + 1] = item
         /\ \A i \in 1 .. Len(program) : program'[i] = program[i]
  BY DEF Shape

(* A declaration with a string is that of its name and literal.            *)
LEMMA StringDeclaration ==
  ASSUME NEW item \in Item, item.kind = "decl_str"
  PROVE  /\ item.name \in Ident /\ item.lit \in Literal /\ item.type = "ch"
         /\ item = DeclStr(item.name, item.lit)
<1>1. item \in Declarations
  BY DEF Item, Uses, StringAssignments, LiteralPrints, Target, Ref, Store, PrintVar,
         AssignStr, PrintLit
<1>2. PICK n \in Ident : item \in Declaration(n)
  BY <1>1 DEF Declarations
<1>3. PICK l \in Literal : item = DeclStr(n, l)
  BY <1>2 DEF Declaration, Bare, DeclInit
<1> QED
  BY <1>3 DEF DeclStr

(* A declared name is an identifier with a declaration.                    *)
LEMMA DeclaredMembers ==
  ASSUME NEW n
  PROVE  n \in Declared <=> n \in Ident /\ DeclaredAs(n, {"int", "ch"})
  BY DEF Declared

(* One more item: what is declared as which type, ...                      *)
LEMMA DeclaredAsGrows ==
  ASSUME Shape, NEW item \in Item, program' = Append(program, item), NEW n, NEW types
  PROVE  DeclaredAs(n, types)' <=>
           DeclaredAs(n, types) \/ (IsDecl(item) /\ item.name = n /\ item.type \in types)
<1>1. DeclaredAs(n, types)' <=>
        \E i \in 1 .. Len(program) + 1 : /\ IsDecl(program'[i]) /\ program'[i].name = n
                                        /\ program'[i].type \in types
  BY AppendedItem DEF DeclaredAs, IsDecl
<1>2. DeclaredAs(n, types) <=>
        \E i \in 1 .. Len(program) : /\ IsDecl(program[i]) /\ program[i].name = n
                                    /\ program[i].type \in types
  BY AppendedItem DEF DeclaredAs
<1>3. \A i : i \in 1 .. Len(program) + 1 <=> i \in 1 .. Len(program) \/ i = Len(program) + 1
  BY AppendedItem
<1> QED
  BY <1>1, <1>2, <1>3, AppendedItem DEF IsDecl

(* ... which names are initialised strings, ...                            *)
LEMMA IsDeclStrGrows ==
  ASSUME Shape, NEW item \in Item, program' = Append(program, item), NEW n
  PROVE  IsDeclStr(n)' <=> IsDeclStr(n) \/ \E l \in Literal : item = DeclStr(n, l)
<1>1. IsDeclStr(n)' <=> \E l \in Literal, i \in 1 .. Len(program) + 1 : program'[i] = DeclStr(n, l)
  BY AppendedItem DEF IsDeclStr, DeclStr
<1>2. IsDeclStr(n) <=> \E l \in Literal, i \in 1 .. Len(program) : program[i] = DeclStr(n, l)
  BY AppendedItem DEF IsDeclStr
<1>3. \A i : i \in 1 .. Len(program) + 1 <=> i \in 1 .. Len(program) \/ i = Len(program) + 1
  BY AppendedItem
<1> QED
  BY <1>1, <1>2, <1>3, AppendedItem

(* The literals are those of the prints, unescaped.                        *)
LEMMA LiteralMembers ==
  ASSUME Shape, NEW x
  PROVE  x \in Literals <=> \E i \in 1 .. Len(program) : /\ program[i].kind = "print_lit"
                                                     /\ x = Unescape[program[i].lit]
  BY ProgramDomain DEF Literals

(* The names given a string are those of the items that give one.          *)
LEMMA GivenMembers ==
  ASSUME Shape, NEW n
  PROVE  n \in StringsGiven <=> \E i \in 1 .. Len(program) :
                                 /\ program[i].kind \in {"decl_str", "assign_str"}
                                 /\ n = program[i].name
  BY ProgramDomain DEF StringsGiven

(* ... which literals are printed, ...                                     *)
LEMMA LiteralsGrow ==
  ASSUME Shape, Shape', NEW item \in Item, program' = Append(program, item), NEW x
  PROVE  x \in Literals' <=> x \in Literals \/ (item.kind = "print_lit" /\ x = Unescape[item.lit])
<1>1. x \in Literals' <=> \E i \in 1 .. Len(program) + 1 : /\ program'[i].kind = "print_lit"
                                                        /\ x = Unescape[program'[i].lit]
  BY AppendedItem DEF Literals
<1>2. \A i : i \in 1 .. Len(program) + 1 <=> i \in 1 .. Len(program) \/ i = Len(program) + 1
  BY AppendedItem
<1> QED
  BY <1>1, <1>2, AppendedItem, LiteralMembers

(* ... and which names are given a string.                                 *)
LEMMA GivenGrow ==
  ASSUME Shape, NEW item \in Item, program' = Append(program, item), NEW n
  PROVE  n \in StringsGiven' <=>
           n \in StringsGiven \/ (item.kind \in {"decl_str", "assign_str"} /\ n = item.name)
<1>1. n \in StringsGiven' <=> \E i \in 1 .. Len(program) + 1 :
                                 /\ program'[i].kind \in {"decl_str", "assign_str"}
                                 /\ n = program'[i].name
  BY AppendedItem DEF StringsGiven
<1>2. \A i : i \in 1 .. Len(program) + 1 <=> i \in 1 .. Len(program) \/ i = Len(program) + 1
  BY AppendedItem
<1> QED
  BY <1>1, <1>2, AppendedItem, GivenMembers

(* What is said of the program does not change while it stands.            *)
LEMMA ProgramStands ==
  ASSUME program' = program
  PROVE  /\ Declared' = Declared /\ Literals' = Literals /\ StringsGiven' = StringsGiven
         /\ NamesAreShort' = NamesAreShort /\ NamesAreNotLabels' = NamesAreNotLabels
         /\ VariablesFit' = VariablesFit /\ SymbolsFit' = SymbolsFit
         /\ \A n, types : DeclaredAs(n, types)' = DeclaredAs(n, types)
         /\ \A n : IsDeclStr(n)' = IsDeclStr(n) /\ LastGiven(n)' = LastGiven(n)
<1>1. /\ \A n, types : DeclaredAs(n, types)' = DeclaredAs(n, types)
      /\ \A n : IsDeclStr(n)' = IsDeclStr(n) /\ LastGiven(n)' = LastGiven(n)
  BY DEF DeclaredAs, IsDeclStr, LastGiven, GivenAt
<1>2. Declared' = Declared /\ Literals' = Literals /\ StringsGiven' = StringsGiven
  BY DEF Declared, DeclaredAs, Literals, StringsGiven
<1> QED
  BY <1>1, <1>2 DEF NamesAreShort, NamesAreNotLabels, VariablesFit, SymbolsFit

(* The program speaks of finitely many names and literals.                 *)
LEMMA FiniteProgram ==
  ASSUME Shape
  PROVE  IsFiniteSet(Declared) /\ IsFiniteSet(Literals) /\ IsFiniteSet(StringsGiven)
<1> DEFINE m == Len(program)
           names == [i \in 1 .. m |-> program[i].name]
           texts == [i \in 1 .. m |-> Unescape[program[i].lit]]
<1>1. m \in Nat /\ DOMAIN program = 1 .. m
  BY ProgramDomain
<1>2. \A x \in Declared : \E i \in 1 .. m : names[i] = x
  BY <1>1 DEF Declared, DeclaredAs
<1>3. \A x \in StringsGiven : \E i \in 1 .. m : names[i] = x
  BY GivenMembers
<1>4. \A x \in Literals : \E i \in 1 .. m : texts[i] = x
  BY LiteralMembers
<1> HIDE DEF m, names, texts
<1>5. IsFiniteSet(Declared)
  BY <1>1, <1>2, FiniteImage
<1>6. IsFiniteSet(StringsGiven)
  BY <1>1, <1>3, FiniteImage
<1>7. IsFiniteSet(Literals)
  BY <1>1, <1>4, FiniteImage
<1> QED
  BY <1>5, <1>6, <1>7


-----------------------------------------------------------------------------
(* The program: uses follow declarations.                                  *)

(* The statement whose expression is being read has a declared target.     *)
LEMMA OpenIsDeclared ==
  ASSUME Shape, ProgramInv, NEW open \in OpenItem
  PROVE  open.name \in Declared
<1>1. PICK i \in 1 .. Len(program) : open = program[i]
  BY ProgramDomain DEF OpenItem
<1>2. program[i] \in Item
  BY <1>1 DEF Shape
<1>3. open \in {DeclInit(n) : n \in Ident} \cup {Target(n) : n \in Ident}
  BY DEF OpenItem
<1>4. CASE open.kind = "target"
  BY <1>1, <1>4 DEF ProgramInv
<1>5. CASE open \in {DeclInit(n) : n \in Ident}
  <2>1. IsDecl(open) /\ open.type = "int" /\ open.name \in Ident
    BY <1>5 DEF DeclInit, IsDecl
  <2> QED
    BY <1>1, <2>1, ProgramDomain, DeclaredMembers DEF DeclaredAs
<1> QED
  BY <1>3, <1>4, <1>5 DEF Target

(* What the front end lets through uses declared names only, ...           *)
LEMMA LegalUse ==
  ASSUME Shape, ProgramInv, NEW item \in Item, Legal(item),
         item.kind \in {"target", "ref", "store", "print_var", "assign_str"}
  PROVE  item.name \in Declared
<1>1. item.name \in Ident
  BY ItemFields DEF Named
<1>2. CASE item.kind = "store"
  BY <1>2, OpenIsDeclared DEF Legal, IsDecl
<1>3. CASE item.kind = "ref"
  <2>1. DeclaredAs(item.name, IF OpenItem = {} THEN {"int"} ELSE {"int", "ch"})
    BY <1>3 DEF Legal, IsDecl
  <2> QED
    BY <1>1, <2>1, DeclaredMembers DEF DeclaredAs
<1>4. CASE item.kind \in {"target", "print_var", "assign_str"}
  <2>1. \E types \in SUBSET {"int", "ch"} : DeclaredAs(item.name, types)
    BY <1>4 DEF Legal, IsDecl
  <2> QED
    BY <1>1, <2>1, DeclaredMembers DEF DeclaredAs
<1> QED
  BY <1>2, <1>3, <1>4

(* ... and declares no name twice.                                         *)
LEMMA LegalDeclaration ==
  ASSUME NEW item \in Item, Legal(item), IsDecl(item)
  PROVE  item.name \notin Declared /\ ~DeclaredAs(item.name, {"int", "ch"})
<1>1. ~DeclaredAs(item.name, {"int", "ch"})
  BY DEF Legal, IsDecl
<1> QED
  BY <1>1, DeclaredMembers

(* An initialised string is a declared name.                               *)
LEMMA StringIsDeclared ==
  ASSUME Shape, NEW n, IsDeclStr(n)
  PROVE  /\ DeclaredAs(n, {"int", "ch"})
         /\ n \in Ident => n \in Declared
<1>1. PICK l \in Literal, i \in DOMAIN program : program[i] = DeclStr(n, l)
  BY DEF IsDeclStr
<1>2. DeclaredAs(n, {"int", "ch"})
  BY <1>1 DEF DeclStr, DeclaredAs, IsDecl
<1> QED
  BY <1>2, DeclaredMembers

(* One more item leaves the program legal.                                 *)
LEMMA CollectProgram ==
  ASSUME Shape, ProgramInv, NEW item \in Item, Collect(item)
  PROVE  ProgramInv'
<1>1. program' = Append(program, item) /\ Legal(item)
  BY DEF Collect
<1>2. \A n : n \in Declared => n \in Declared'
  BY <1>1, DeclaredAsGrows DEF Declared
<1>3. ASSUME NEW i \in 1 .. Len(program'),
             program'[i].kind \in {"target", "ref", "store", "print_var", "assign_str"}
      PROVE  program'[i].name \in Declared'
  <2>1. CASE i = Len(program) + 1
    BY <1>1, <1>2, <1>3, <2>1, AppendedItem, LegalUse
  <2>2. CASE i \in 1 .. Len(program)
    BY <1>1, <1>2, <1>3, <2>2, AppendedItem DEF ProgramInv
  <2> QED
    BY <1>1, <2>1, <2>2, AppendedItem
<1>4. ASSUME NEW n \in Ident, DeclaredAs(n, {"int"})', IsDeclStr(n)'
      PROVE  FALSE
  <2>1. DeclaredAs(n, {"int"}) \/ (IsDecl(item) /\ item.name = n /\ item.type \in {"int"})
    BY <1>1, <1>4, DeclaredAsGrows
  <2>2. IsDeclStr(n) \/ \E l \in Literal : item = DeclStr(n, l)
    BY <1>1, <1>4, IsDeclStrGrows
  <2>3. CASE \E l \in Literal : item = DeclStr(n, l)
    <3>1. IsDecl(item) /\ item.name = n /\ item.type = "ch"
      BY <2>3 DEF DeclStr, IsDecl
    <3>2. ~DeclaredAs(n, {"int", "ch"})
      BY <1>1, <3>1, LegalDeclaration
    <3> QED
      BY <2>1, <3>1, <3>2 DEF DeclaredAs
  <2>4. CASE IsDeclStr(n)
    <3>1. DeclaredAs(n, {"int", "ch"})
      BY <2>4, StringIsDeclared
    <3>2. ~(IsDecl(item) /\ item.name = n)
      BY <1>1, <3>1, LegalDeclaration
    <3> QED
      BY <2>1, <2>4, <3>2 DEF ProgramInv
  <2> QED
    BY <2>2, <2>3, <2>4
<1> QED
  BY <1>3, <1>4 DEF ProgramInv

(* Whatever is given a string has been declared.                           *)
LEMMA GivenIsDeclared ==
  ASSUME Shape, ProgramInv
  PROVE  StringsGiven \subseteq Declared
<1> SUFFICES ASSUME NEW n \in StringsGiven  PROVE n \in Declared
  OBVIOUS
<1>1. PICK i \in 1 .. Len(program) : /\ program[i].kind \in {"decl_str", "assign_str"}
                                     /\ n = program[i].name
  BY GivenMembers
<1>2. program[i] \in Item /\ i \in DOMAIN program
  BY <1>1 DEF Shape
<1>3. CASE program[i].kind = "assign_str"
  BY <1>1, <1>3 DEF ProgramInv
<1>4. CASE program[i].kind = "decl_str"
  <2>1. n \in Ident /\ IsDecl(program[i])
    BY <1>1, <1>2, <1>4, ItemFields DEF Named, IsDecl
  <2>2. program[i].type = "ch"
    BY <1>2, <1>4, StringDeclaration
  <2> QED
    BY <1>1, <1>2, <2>1, <2>2, DeclaredMembers DEF DeclaredAs
<1> QED
  BY <1>1, <1>3, <1>4

-----------------------------------------------------------------------------
(* The table of literals.                                                  *)

(* The first walk stores each literal when it is printed.                  *)
LEMMA CollectLiterals ==
  ASSUME Shape, Shape', LiteralTable, NEW item \in Item, Collect(item)
  PROVE  LiteralTable'
<1> DEFINE m == Len(string_table)
<1>1. program' = Append(program, item) /\ Collected(item)
  BY DEF Collect
<1>2. \A x : x \in Literals' <=>
               x \in Literals \/ (item.kind = "print_lit" /\ x = Unescape[item.lit])
  BY <1>1, LiteralsGrow
<1>3. m \in Nat /\ DOMAIN string_table = 1 .. m
  BY DEF Shape, LitTable
<1>4. CASE item.kind # "print_lit"
  <2>1. string_table' = string_table
    BY <1>1, <1>4 DEF Collected
  <2> QED
    BY <1>2, <1>4, <2>1 DEF LiteralTable
<1>5. CASE item.kind = "print_lit"
  <2> DEFINE x == Unescape[item.lit]
  <2>1. string_table' = GetStringLabel(string_table, item.lit)
    BY <1>1, <1>5 DEF Collected
  <2>2. CASE string_table' = string_table /\ \E i \in 1 .. m : string_table[i] = x
    BY <1>2, <1>5, <2>2 DEF LiteralTable
  <2>3. CASE string_table' = string_table /\ m >= MAX_STRINGS
    BY <1>2, <1>5, <2>3 DEF LiteralTable
  <2>4. CASE /\ string_table' = Append(string_table, x)
             /\ \A i \in 1 .. m : string_table[i] # x
    <3> HIDE DEF x
    <3>1. /\ Len(string_table') = m + 1 /\ string_table'[m + 1] = x
          /\ \A i \in 1 .. m : string_table'[i] = string_table[i]
      BY <1>3, <2>4 DEF Shape, LitTable
    <3>2. \A i \in 1 .. m + 1 : i \in 1 .. m \/ i = m + 1
      BY <1>3
    <3>3. m + 1 \in 1 .. m + 1 /\ \A i \in 1 .. m : i \in 1 .. m + 1
      BY <1>3
    <3>4. \A i, j \in 1 .. Len(string_table') : string_table'[i] = string_table'[j] => i = j
      BY <2>4, <3>1, <3>2 DEF LiteralTable
    <3>5. \A i \in 1 .. Len(string_table') : string_table'[i] \in Literals'
      BY <1>2, <1>5, <3>1, <3>2 DEF LiteralTable, x
    <3>6. ASSUME NEW y \in Literals'
          PROVE  \/ \E i \in 1 .. Len(string_table') : string_table'[i] = y
                 \/ Len(string_table') >= MAX_STRINGS
      <4>1. CASE y = x
        BY <3>1, <3>3, <4>1
      <4>2. CASE y \in Literals /\ \E i \in 1 .. m : string_table[i] = y
        BY <3>1, <3>3, <4>2
      <4>3. CASE m >= MAX_STRINGS
        BY <1>3, <3>1, <4>3, AssemblyAssumption
      <4> QED
        BY <1>2, <3>6, <4>1, <4>2, <4>3 DEF LiteralTable, x
    <3> QED
      BY <3>4, <3>5, <3>6 DEF LiteralTable
  <2> QED
    BY <1>3, <2>1, <2>2, <2>3, <2>4 DEF GetStringLabel, Positions
<1> QED
  BY <1>4, <1>5

(* The second walk meets no literal that the first did not enter, unless   *)
(* the table is full.                                                      *)
LEMMA GeneratedLiteral ==
  ASSUME Shape, LiteralTable, Generate
  PROVE  string_table' = string_table
<1>1. pc \in 1 .. Len(program) /\ Generated(program[pc])
  BY DEF Generate, Shape
<1>2. CASE program[pc].kind # "print_lit"
  BY <1>1, <1>2 DEF Generated
<1>3. CASE program[pc].kind = "print_lit"
  <2>1. Unescape[program[pc].lit] \in Literals
    BY <1>1, <1>3, LiteralMembers
  <2>2. \/ \E i \in DOMAIN string_table : string_table[i] = Unescape[program[pc].lit]
        \/ Len(string_table) >= MAX_STRINGS
    BY <2>1 DEF LiteralTable, Shape, LitTable
  <2> QED
    BY <1>1, <1>3, <2>2 DEF Generated, GetStringLabel, Positions
<1> QED
  BY <1>2, <1>3

(* Nothing else changes what string_table says.                            *)
LEMMA LiteralsStand ==
  ASSUME LiteralTable, program' = program, string_table' = string_table
  PROVE  LiteralTable'
  BY ProgramStands DEF LiteralTable


-----------------------------------------------------------------------------
(* The last value that a string variable is given.                         *)

Gives(item, n) == item.kind \in {"decl_str", "assign_str"} /\ item.name = n

LastAt(n) == CHOOSE i \in GivenAt(n) : \A j \in GivenAt(n) : j <= i

(* A set of positions has a greatest one.                                  *)
LEMMA GreatestElement ==
  ASSUME NEW m \in Nat, NEW S \in SUBSET (1 .. m), S # {}
  PROVE  \E i \in S : \A j \in S : j <= i
<1> DEFINE T == {m - i : i \in S}
<1>1. T \in SUBSET Nat /\ T # {}
  <2>1. \A i \in S : m - i \in Nat
    OBVIOUS
  <2> QED
    BY <2>1
<1>2. PICK k \in T : \A l \in T : k <= l
  BY <1>1, LeastElement
<1>3. PICK i \in S : k = m - i
  BY <1>2
<1>4. \A j \in S : m - j \in T
  OBVIOUS
<1> HIDE DEF T
<1>5. \A j \in S : j <= i
  BY <1>2, <1>3, <1>4
<1> QED
  BY <1>5

(* The last value of a name is that of the new item, if it gives one.      *)
LEMMA LastGivenGrows ==
  ASSUME Shape, NEW item \in Item, program' = Append(program, item), NEW n
  PROVE  /\ Gives(item, n) => LastGiven(n)' = item.lit
         /\ ~Gives(item, n) /\ n \in StringsGiven => LastGiven(n)' = LastGiven(n)
<1> DEFINE m == Len(program)
<1>0. /\ m \in Nat /\ DOMAIN program = 1 .. m /\ DOMAIN program' = 1 .. m + 1
      /\ program'[m + 1] = item
      /\ \A i \in 1 .. m : program'[i] = program[i]
  BY AppendedItem
<1>1. LastGiven(n) = program[LastAt(n)].lit
  BY DEF LastGiven, LastAt, GivenAt, Gives
<1>2. LastGiven(n)' = program'[LastAt(n)'].lit
  BY DEF LastGiven, LastAt, GivenAt, Gives
<1>3. \A i \in 1 .. m + 1 : Gives(program[i], n)' <=> Gives(program'[i], n)
  BY DEF Gives
<1>4. \A i : i \in GivenAt(n)' <=> i \in 1 .. m + 1 /\ Gives(program'[i], n)
  BY <1>0, <1>3 DEF GivenAt, Gives
<1>5. \A i : i \in GivenAt(n) <=> i \in 1 .. m /\ Gives(program[i], n)
  BY <1>0 DEF GivenAt, Gives
<1> HIDE DEF m
<1>6. ASSUME Gives(item, n)  PROVE LastGiven(n)' = item.lit
  <2>1. m + 1 \in GivenAt(n)' /\ \A j \in GivenAt(n)' : j <= m + 1
    BY <1>0, <1>4, <1>6
  <2>2. LastAt(n)' \in GivenAt(n)' /\ m + 1 <= LastAt(n)'
    BY <2>1 DEF LastAt
  <2>3. LastAt(n)' = m + 1
    BY <1>0, <1>4, <2>2
  <2> QED
    BY <1>0, <1>2, <2>3
<1>7. ASSUME ~Gives(item, n), n \in StringsGiven  PROVE LastGiven(n)' = LastGiven(n)
  <2>0. \A i : i \in 1 .. m + 1 <=> i \in 1 .. m \/ i = m + 1
    BY <1>0
  <2>1. GivenAt(n)' = GivenAt(n)
    <3>1. \A i : i \in GivenAt(n)' <=> i \in GivenAt(n)
      BY <1>0, <1>4, <1>5, <1>7, <2>0
    <3> QED
      BY <3>1
  <2>2. LastAt(n)' = LastAt(n)
    BY <2>1 DEF LastAt
  <2>3. GivenAt(n) # {} /\ GivenAt(n) \in SUBSET (1 .. m)
    BY <1>5, <1>7, GivenMembers DEF Gives, m
  <2>4. \E i \in GivenAt(n) : \A j \in GivenAt(n) : j <= i
    BY <1>0, <2>3, GreatestElement
  <2>5. LastAt(n) \in 1 .. m
    BY <2>3, <2>4 DEF LastAt
  <2> QED
    BY <1>0, <1>1, <1>2, <2>2, <2>5
<1> QED
  BY <1>6, <1>7

(* The table of string variables.                                          *)
LEMMA CollectStrings ==
  ASSUME Shape, VarTable(string_vars), StringTable, NEW item \in Item, Collect(item)
  PROVE  StringTable'
<1> DEFINE m == Len(string_vars)
<1>1. program' = Append(program, item) /\ Collected(item)
  BY DEF Collect
<1>2. \A n : n \in StringsGiven' <=> n \in StringsGiven \/ Gives(item, n)
  BY <1>1, GivenGrow DEF Gives
<1>3. \A n : /\ Gives(item, n) => LastGiven(n)' = item.lit
             /\ ~Gives(item, n) /\ n \in StringsGiven => LastGiven(n)' = LastGiven(n)
  BY <1>1, LastGivenGrows
<1>4. m \in Nat /\ DOMAIN string_vars = 1 .. m
  BY DEF VarTable
<1>5. CASE item.kind \notin {"decl_str", "assign_str"}
  <2>1. string_vars' = string_vars /\ \A n : ~Gives(item, n)
    BY <1>1, <1>5 DEF Collected, Gives
  <2> QED
    BY <1>2, <1>3, <2>1 DEF StringTable
<1>6. CASE item.kind \in {"decl_str", "assign_str"}
  <2> DEFINE n == item.name
             v == [name |-> n, value |-> item.lit]
             known == {i \in DOMAIN string_vars : string_vars[i].name = n}
             update == [i \in DOMAIN string_vars |-> IF i \in known THEN v ELSE string_vars[i]]
  <2>1. \A k : Gives(item, k) <=> k = n
    BY <1>6 DEF Gives
  <2>2. AddStringVariable(n, item.lit)
    BY <1>1, <1>6 DEF Collected
  <2>3. v.name = n /\ v.value = item.lit
    OBVIOUS
  <2>4. \A i \in 1 .. m : i \in known <=> string_vars[i].name = n
    BY <1>4
  <2>5. \A i \in 1 .. m : update[i] = IF i \in known THEN v ELSE string_vars[i]
    BY <1>4
  <2>6. Len(update) = m
    BY <1>4
  <2>7. known # {} <=> \E i \in 1 .. m : string_vars[i].name = n
    BY <1>4
  <2>8. CASE string_vars' = update /\ known # {}
    <3> HIDE DEF update, known, v, n, m
    <3>1. \A i \in 1 .. m : string_vars'[i].name = string_vars[i].name
      BY <2>3, <2>4, <2>5, <2>8
    <3>2. \A i \in 1 .. m :
            string_vars'[i].value = IF string_vars[i].name = n THEN item.lit
                                    ELSE string_vars[i].value
      BY <2>3, <2>4, <2>5, <2>8
    <3>3. Len(string_vars') = m
      BY <2>6, <2>8
    <3>4. \A i, j \in 1 .. m : string_vars'[i].name = string_vars'[j].name => i = j
      BY <3>1 DEF StringTable, m
    <3>5. \A i \in 1 .. m : string_vars'[i].name \in StringsGiven'
      BY <1>2, <3>1 DEF StringTable, m
    <3>7. ASSUME NEW i \in 1 .. m, NEW k \in StringsGiven', string_vars'[i].name = k
          PROVE  string_vars'[i].value = LastGiven(k)'
      <4>1. CASE k = n
        BY <1>3, <2>1, <3>1, <3>2, <3>7, <4>1
      <4>2. CASE k # n
        <5>1. k \in StringsGiven /\ LastGiven(k)' = LastGiven(k)
          BY <1>2, <1>3, <2>1, <4>2
        <5> QED
          BY <3>1, <3>2, <3>7, <4>2, <5>1 DEF StringTable, m
      <4> QED
        BY <4>1, <4>2
    <3>6. \A k \in StringsGiven' : \/ \E i \in 1 .. m : string_vars'[i].name = k
                                   \/ m >= MAX_STRINGS
      BY <1>2, <2>1, <2>7, <2>8, <3>1 DEF StringTable, m
    <3> QED
      BY <3>3, <3>4, <3>5, <3>6, <3>7 DEF StringTable
  <2>9. CASE string_vars' = string_vars /\ m >= MAX_STRINGS /\ known = {}
    <3>1. \A i \in 1 .. m : string_vars[i].name # n
      BY <2>7, <2>9
    <3> HIDE DEF n, known
    <3>2. \A i, j \in 1 .. m : string_vars'[i].name = string_vars'[j].name => i = j
      BY <2>9 DEF StringTable
    <3>3. \A i \in 1 .. m : string_vars'[i].name \in StringsGiven'
      BY <1>2, <2>9 DEF StringTable
    <3>4. ASSUME NEW i \in 1 .. m, NEW k \in StringsGiven', string_vars'[i].name = k
          PROVE  string_vars'[i].value = LastGiven(k)'
      <4>1. string_vars[i].name = k /\ k # n
        BY <2>9, <3>1, <3>4
      <4>2. k \in StringsGiven /\ LastGiven(k)' = LastGiven(k)
        BY <1>2, <1>3, <2>1, <4>1
      <4> QED
        BY <2>9, <4>1, <4>2 DEF StringTable
    <3> QED
      BY <2>9, <3>2, <3>3, <3>4 DEF StringTable
  <2>10. CASE string_vars' = Append(string_vars, v) /\ known = {}
    <3>0. v \in Variables
      BY <1>6, ItemFields, ItemLiterals DEF Named, Variables
    <3>1. \A i \in 1 .. m : string_vars[i].name # n
      BY <2>7, <2>10
    <3> HIDE DEF v, known, n
    <3>2. /\ Len(string_vars') = m + 1 /\ string_vars'[m + 1] = v
          /\ \A i \in 1 .. m : string_vars'[i] = string_vars[i]
      BY <1>4, <2>10, <3>0 DEF VarTable
    <3>3. \A i \in 1 .. m + 1 : i \in 1 .. m \/ i = m + 1
      BY <1>4
    <3>4. m + 1 \in 1 .. m + 1 /\ \A i \in 1 .. m : i \in 1 .. m + 1
      BY <1>4
    <3>5. \A i, j \in 1 .. m + 1 : string_vars'[i].name = string_vars'[j].name => i = j
      BY <2>3, <3>1, <3>2, <3>3 DEF StringTable
    <3>6. \A i \in 1 .. m + 1 : string_vars'[i].name \in StringsGiven'
      BY <1>2, <2>1, <2>3, <3>2, <3>3 DEF StringTable
    <3>8. ASSUME NEW i \in 1 .. m + 1, NEW k \in StringsGiven', string_vars'[i].name = k
          PROVE  string_vars'[i].value = LastGiven(k)'
      <4>1. CASE i = m + 1
        BY <1>3, <2>1, <2>3, <3>2, <3>8, <4>1
      <4>2. CASE i \in 1 .. m
        <5>1. string_vars'[i] = string_vars[i] /\ string_vars[i].name = k /\ k # n
          BY <3>1, <3>2, <3>8, <4>2
        <5>2. k \in StringsGiven /\ LastGiven(k)' = LastGiven(k)
          BY <1>2, <1>3, <2>1, <5>1
        <5> QED
          BY <4>2, <5>1, <5>2 DEF StringTable
      <4> QED
        BY <3>3, <4>1, <4>2
    <3>7. ASSUME NEW k \in StringsGiven'
          PROVE  \/ \E i \in 1 .. m + 1 : string_vars'[i].name = k
                 \/ m + 1 >= MAX_STRINGS
      <4>1. CASE k = n
        BY <2>3, <3>2, <3>4, <4>1
      <4>2. CASE \E i \in 1 .. m : string_vars[i].name = k
        BY <3>2, <3>4, <4>2
      <4>3. CASE m >= MAX_STRINGS
        BY <1>4, <4>3, AssemblyAssumption
      <4> QED
        BY <1>2, <2>1, <3>7, <4>1, <4>2, <4>3 DEF StringTable
    <3> QED
      BY <3>2, <3>5, <3>6, <3>7, <3>8 DEF StringTable
  <2>11. \/ string_vars' = update /\ known # {}
         \/ string_vars' = string_vars /\ m >= MAX_STRINGS /\ known = {}
         \/ string_vars' = Append(string_vars, v) /\ known = {}
    BY <2>2, Zenon DEF AddStringVariable
  <2> QED
    BY <2>8, <2>9, <2>10, <2>11
<1> QED
  BY <1>5, <1>6

(* Nothing else changes what string_vars says.                             *)
LEMMA StringsStand ==
  ASSUME StringTable, program' = program, string_vars' = string_vars
  PROVE  StringTable'
  BY ProgramStands DEF StringTable

-----------------------------------------------------------------------------
(* What the calls of the symbol table do, in full.                         *)

AddsEntry(s, q, e) ==
  /\ q.table = Append(s.table, e)
  /\ e.offset = s.next_offset
  /\ q.next_offset = s.next_offset + e.size

NewVariable(s, e, n, isString) ==
  /\ IsVariable(e) /\ e.name = Cut[n]
  /\ e.is_string_var = isString
  /\ e.size = IF isString THEN 64 ELSE 8

NewLabel(s, e, n, size) ==
  /\ ~IsVariable(e) /\ e.name = Cut[n] /\ ~e.is_string_var /\ e.size = size

(* Allocate either changes no entry, and the name is covered, or adds one. *)
LEMMA AllocateResult ==
  ASSUME NEW s, TableInv(s), NEW n \in Name, NEW isString \in BOOLEAN,
         NEW q, q = Allocate(s, n, isString)
  PROVE  \/ /\ Idle(s, q) /\ Covered(q, n)
            /\ q.next_reg \in {s.next_reg, SkipReserved(s.next_reg)}
         \/ /\ GetRegisterOfTheSymbol(s, n) = -1
            /\ q.next_reg = SkipReserved(s.next_reg) + 1
            /\ \E e \in Entry : AddsEntry(s, q, e) /\ NewVariable(s, e, n, isString)
<1> DEFINE e == VariableEntry(s, n, isString)
           r == SkipReserved(s.next_reg)
<1>1. /\ s.next_reg \in Nat /\ s.next_offset \in Nat /\ s.next_reg >= 1
      /\ Len(s.table) \in Nat /\ MAX_SYMBOLS \in Nat /\ REG_MAX \in Nat
  BY LimitAssumption DEF TableInv, SymbolTables, FirstReg
<1>2. r \in Nat /\ r >= s.next_reg /\ r >= FirstReg
  BY <1>1 DEF SkipReserved, FirstReg
<1>3. CASE q = s /\ (GetRegisterOfTheSymbol(s, n) # -1 \/ Len(s.table) >= MAX_SYMBOLS)
  BY <1>1, <1>3 DEF Idle, Covered
<1>4. CASE q = [s EXCEPT !.next_reg = r] /\ r > REG_MAX
  <2>1. q.table = s.table /\ q.next_offset = s.next_offset /\ q.next_reg = r
    BY <1>4 DEF TableInv, SymbolTables
  <2> QED
    BY <1>1, <1>2, <1>4, <2>1 DEF Idle, Covered
<1>5. CASE /\ q = Appended(s, e, r + 1) /\ r <= REG_MAX
           /\ GetRegisterOfTheSymbol(s, n) = -1
  <2>1. /\ e \in Entry /\ e.offset = s.next_offset
        /\ NewVariable(s, e, n, isString)
    BY <1>1, <1>2, <1>5, NameAssumption, LimitAssumption
       DEF VariableEntry, Entry, FirstReg, IsVariable, NewVariable
  <2>2. /\ q.table = Append(s.table, e) /\ q.next_reg = r + 1
        /\ q.next_offset = s.next_offset + e.size
    BY <1>5 DEF Appended
  <2> HIDE DEF e, r
  <2> QED
    BY <1>5, <2>1, <2>2 DEF AddsEntry, r
<1> QED
  BY <1>1, <1>2, <1>3, <1>4, <1>5 DEF Allocate

(* WithLabel adds a label, unless the name is there or the table is full.  *)
LEMMA WithLabelResult ==
  ASSUME NEW s, TableInv(s), NEW n \in Name, NEW size \in Nat \ {0},
         NEW q, q = WithLabel(s, n, size)
  PROVE  \/ q = s /\ (Matches(s, n) # {} \/ Len(s.table) >= MAX_SYMBOLS)
         \/ /\ Matches(s, n) = {} /\ q.next_reg = s.next_reg
            /\ \E e \in Entry : AddsEntry(s, q, e) /\ NewLabel(s, e, n, size)
<1> DEFINE e == LabelEntry(s, n, size)
<1>1. s.next_offset \in Nat
  BY DEF TableInv, SymbolTables
<1>2. e \in Entry /\ e.offset = s.next_offset /\ NewLabel(s, e, n, size)
  BY <1>1, NameAssumption DEF LabelEntry, Entry, IsVariable, NewLabel
<1>3. CASE q = Appended(s, e, s.next_reg) /\ Matches(s, n) = {}
  <2> HIDE DEF e
  <2> QED
    BY <1>2, <1>3 DEF Appended, AddsEntry
<1> QED
  BY <1>3 DEF WithLabel

(* The table after one more entry.                                         *)
LEMMA AddedEntry ==
  ASSUME NEW s, s.table \in Seq(Entry), NEW q, NEW e \in Entry, AddsEntry(s, q, e)
  PROVE  /\ Len(s.table) \in Nat /\ Len(q.table) = Len(s.table) + 1
         /\ q.table[Len(s.table) + 1] = e
         /\ \A i \in 1 .. Len(s.table) : q.table[i] = s.table[i]
         /\ \A i \in 1 .. Len(q.table) : i \in 1 .. Len(s.table) \/ i = Len(s.table) + 1
         /\ \A i \in 1 .. Len(s.table) : i \in 1 .. Len(q.table)
         /\ Len(s.table) + 1 \in 1 .. Len(q.table)
  BY DEF AddsEntry

(* The names of the entries are what the lookups look at.                  *)
LEMMA MatchMembers ==
  ASSUME NEW s, s.table \in Seq(Entry), NEW n
  PROVE  /\ Matches(s, n) # {} <=> \E i \in 1 .. Len(s.table) : s.table[i].name = n
         /\ Matches(s, n) = {} <=> \A i \in 1 .. Len(s.table) : s.table[i].name # n
  BY DEF Matches

(* With different names, a lookup finds the entry of that name.            *)
LEMMA OneMatch ==
  ASSUME NEW s, s.table \in Seq(Entry),
         \A i, j \in 1 .. Len(s.table) : s.table[i].name = s.table[j].name => i = j,
         NEW i \in 1 .. Len(s.table)
  PROVE  /\ GetOffsetOfTheSymbol(s, s.table[i].name) = s.table[i].offset
         /\ GetRegisterOfTheSymbol(s, s.table[i].name) = s.table[i].reg
         /\ IsStringVariable(s, s.table[i].name) = s.table[i].is_string_var
<1>1. Matches(s, s.table[i].name) = {i}
  BY DEF Matches
<1>2. FirstMatch(s, s.table[i].name) = i
  BY <1>1, FirstMatchExists
<1>3. s.table[i].is_string_var \in BOOLEAN
  <2>1. s.table[i] \in Entry
    OBVIOUS
  <2> QED
    BY <2>1 DEF Entry
<1> QED
  BY <1>1, <1>2, <1>3 DEF GetOffsetOfTheSymbol, GetRegisterOfTheSymbol, IsStringVariable


-----------------------------------------------------------------------------
(* Symbols lie one behind the other.                                       *)

(* One more entry lies behind the last one.                                *)
LEMMA AddedContiguous ==
  ASSUME NEW s, TableInv(s), Contiguous(s), NEW q, NEW e \in Entry, AddsEntry(s, q, e),
         IsVariable(e) => e.size = IF e.is_string_var THEN 64 ELSE 8
  PROVE  Contiguous(q)
<1> DEFINE m == Len(s.table)
<1>1. /\ m \in Nat /\ Len(q.table) = m + 1 /\ q.table[m + 1] = e
      /\ \A i \in 1 .. m : q.table[i] = s.table[i]
      /\ \A i \in 1 .. m + 1 : i \in 1 .. m \/ i = m + 1
  BY AddedEntry DEF TableInv, SymbolTables
<1>2. e.offset = s.next_offset /\ q.next_offset = s.next_offset + e.size
  BY DEF AddsEntry
<1> HIDE DEF m
<1>3. e.offset = IF m = 0 THEN 0 ELSE s.table[m].offset + s.table[m].size
  BY <1>2 DEF Contiguous, m
<1>4. ASSUME NEW i \in 1 .. m + 1
      PROVE  q.table[i].offset = IF i = 1 THEN 0
                                 ELSE q.table[i - 1].offset + q.table[i - 1].size
  <2>1. CASE i \in 1 .. m
    <3>1. i = 1 \/ i - 1 \in 1 .. m
      BY <1>1, <2>1
    <3> QED
      BY <1>1, <2>1, <3>1 DEF Contiguous, m
  <2>2. CASE i = m + 1 /\ m = 0
    BY <1>1, <1>3, <2>2
  <2>3. CASE i = m + 1 /\ m # 0
    <3>1. i # 1 /\ i - 1 = m /\ m \in 1 .. m
      BY <1>1, <2>3
    <3> QED
      BY <1>1, <1>3, <2>3, <3>1
  <2> QED
    BY <1>1, <2>1, <2>2, <2>3
<1>5. \A i \in 1 .. m + 1 : IsVariable(q.table[i]) =>
        q.table[i].size = IF q.table[i].is_string_var THEN 64 ELSE 8
  BY <1>1 DEF Contiguous, m
<1>6. q.next_offset = q.table[m + 1].offset + q.table[m + 1].size /\ m + 1 # 0
  BY <1>1, <1>2
<1> QED
  BY <1>1, <1>4, <1>5, <1>6 DEF Contiguous

(* No step leaves a gap between the symbols.                               *)
LEMMA ContiguousStep ==
  ASSUME Shape, TableInv(symtab), Contiguous(symtab), [Next]_vars
  PROVE  Contiguous(symtab')
<1>1. ASSUME NEW n \in Name, NEW isString \in BOOLEAN, symtab' = Allocate(symtab, n, isString)
      PROVE  Contiguous(symtab')
  <2>1. CASE Idle(symtab, symtab')
    BY <2>1 DEF Idle, Contiguous
  <2>2. CASE \E e \in Entry : AddsEntry(symtab, symtab', e) /\ NewVariable(symtab, e, n, isString)
    <3>1. PICK e \in Entry : AddsEntry(symtab, symtab', e) /\ NewVariable(symtab, e, n, isString)
      BY <2>2
    <3>2. e.size = IF e.is_string_var THEN 64 ELSE 8
      BY <3>1 DEF NewVariable
    <3> QED
      BY <3>1, <3>2, AddedContiguous
  <2> QED
    BY <1>1, <2>1, <2>2, AllocateResult
<1>2. ASSUME NEW n \in Name, NEW size \in LabelSizes, symtab' = WithLabel(symtab, n, size)
      PROVE  Contiguous(symtab')
  <2>1. size \in Nat \ {0}
    BY LabelSizeAssumption
  <2>2. CASE \E e \in Entry : AddsEntry(symtab, symtab', e) /\ NewLabel(symtab, e, n, size)
    BY <2>2, AddedContiguous DEF NewLabel
  <2> QED
    BY <1>2, <2>1, <2>2, WithLabelResult
<1>3. CASE symtab' = symtab
  BY <1>3 DEF Contiguous
<1> QED
  BY <1>1, <1>2, <1>3, StepIsCall

-----------------------------------------------------------------------------
(* The first walk.                                                         *)

(* The table is a sequence of entries.                                     *)
LEMMA TableLength == ASSUME NEW s, TableInv(s)
                     PROVE  s.table \in Seq(Entry) /\ Len(s.table) \in Nat
  BY DEF TableInv, SymbolTables

(* While there are variables only, an entry covers its name.               *)
LEMMA EntryCovers ==
  ASSUME NEW s, s.table \in Seq(Entry), OnlyVariables(s), NEW n,
         NEW i \in 1 .. Len(s.table), s.table[i].name = n
  PROVE  Covered(s, n)
<1>1. Matches(s, n) # {}
  BY MatchMembers
<1>2. FirstMatch(s, n) \in 1 .. Len(s.table)
  BY <1>1, FirstMatchExists DEF Matches
<1> QED
  BY <1>1, <1>2 DEF OnlyVariables, IsVariable, GetRegisterOfTheSymbol, Covered

(* What an item of the first walk allocates.                               *)
LEMMA CollectAllocates ==
  ASSUME NEW item \in Item, Collected(item)
  PROVE  \/ symtab' = symtab /\ ~IsDecl(item)
         \/ /\ item.name \in Ident /\ item.name \in Name
            /\ symtab' = Allocate(symtab, item.name, item.kind = "decl_str")
            /\ IsDecl(item) \/ item.kind \in {"target", "ref", "print_var"}
<1>1. CASE item.kind \in {"bare", "decl_init", "target", "ref", "print_var"}
  <2>1. (item.kind = "decl_str") = FALSE
    BY <1>1
  <2> QED
    BY <1>1, <2>1, ItemFields DEF Collected, AllocateRegisterForTheSymbol, Named, IsDecl
<1>2. CASE item.kind = "decl_str"
  <2>1. (item.kind = "decl_str") = TRUE
    BY <1>2
  <2> QED
    BY <1>2, <2>1, ItemFields DEF Collected, AllocateStringVariable, Named, IsDecl
<1>3. CASE item.kind \in {"assign_str", "print_lit", "store"}
  BY <1>3 DEF Collected, IsDecl
<1> QED
  BY <1>1, <1>2, <1>3 DEF Collected

(* ... and which names are declared.                                       *)
LEMMA DeclaredGrows ==
  ASSUME Shape, NEW item \in Item, program' = Append(program, item), NEW n
  PROVE  n \in Declared' <=> n \in Declared \/ (IsDecl(item) /\ n = item.name)
<1>1. n \in Declared' <=> n \in Ident /\ DeclaredAs(n, {"int", "ch"})'
  BY DEF Declared
<1>2. IsDecl(item) => item.name \in Ident /\ item.type \in {"int", "ch"}
  BY ItemFields, StringDeclaration DEF IsDecl, Named
<1> QED
  BY <1>1, <1>2, DeclaredMembers, DeclaredAsGrows

(* An item that declares nothing.                                          *)
LEMMA CollectUse ==
  ASSUME Shape, TableInv(symtab), ProgramInv, AllCovered,
         NEW item \in Item, Collect(item), ~IsDecl(item)
  PROVE  /\ Idle(symtab, symtab')
         /\ symtab'.next_reg \in {symtab.next_reg, SkipReserved(symtab.next_reg)}
         /\ \A n : n \in Declared' <=> n \in Declared
         /\ \A n : IsDeclStr(n)' <=> IsDeclStr(n)
<1>1. program' = Append(program, item) /\ Collected(item) /\ Legal(item)
  BY DEF Collect
<1>2. \A n : n \in Declared' <=> n \in Declared
  BY <1>1, DeclaredGrows
<1>3. \A n : IsDeclStr(n)' <=> IsDeclStr(n)
  BY <1>1, IsDeclStrGrows DEF IsDecl, DeclStr
<1>4. ASSUME symtab' = symtab
      PROVE  /\ Idle(symtab, symtab')
             /\ symtab'.next_reg \in {symtab.next_reg, SkipReserved(symtab.next_reg)}
  BY <1>4 DEF Idle, TableInv, SymbolTables
<1>5. ASSUME item.name \in Name, item.kind \in {"target", "ref", "print_var"},
             symtab' = Allocate(symtab, item.name, item.kind = "decl_str")
      PROVE  /\ Idle(symtab, symtab')
             /\ symtab'.next_reg \in {symtab.next_reg, SkipReserved(symtab.next_reg)}
  <2>1. item.name \in Declared
    BY <1>1, <1>5, LegalUse
  <2>2. Covered(symtab, item.name)
    BY <2>1 DEF AllCovered
  <2>3. Idle(symtab, symtab')
    BY <1>5, <2>2, CoveredIsIdle
  <2>4. symtab'.next_reg \in {symtab.next_reg, SkipReserved(symtab.next_reg)}
    <3>1. ~(\E e \in Entry : AddsEntry(symtab, symtab', e))
      <4>1. symtab'.table = symtab.table
        BY <2>3 DEF Idle
      <4> QED
        BY <4>1, TableLength, AddedEntry
    <3> QED
      BY <1>5, <3>1, AllocateResult
  <2> QED
    BY <2>3, <2>4
<1>6. \/ symtab' = symtab
      \/ /\ item.name \in Name /\ item.kind \in {"target", "ref", "print_var"}
         /\ symtab' = Allocate(symtab, item.name, item.kind = "decl_str")
  BY <1>1, CollectAllocates
<1>7. /\ Idle(symtab, symtab')
      /\ symtab'.next_reg \in {symtab.next_reg, SkipReserved(symtab.next_reg)}
  BY <1>4, <1>5, <1>6
<1> QED
  BY <1>2, <1>3, <1>7

(* A declaration.                                                          *)
LEMMA CollectDeclaration ==
  ASSUME Shape, TableInv(symtab), NEW item \in Item, Collect(item), IsDecl(item),
         NamesAreShort'
  PROVE  /\ \/ /\ Idle(symtab, symtab') /\ Covered(symtab', item.name)
               /\ symtab'.next_reg \in {symtab.next_reg, SkipReserved(symtab.next_reg)}
            \/ /\ symtab'.next_reg = SkipReserved(symtab.next_reg) + 1
               /\ \E e \in Entry : /\ AddsEntry(symtab, symtab', e)
                                   /\ IsVariable(e) /\ e.name = item.name
                                   /\ e.is_string_var <=> item.kind = "decl_str"
         /\ item.name \in Ident /\ item.name \notin Declared
         /\ \A n : n \in Declared' <=> n \in Declared \/ n = item.name
         /\ \A n : n # item.name => (IsDeclStr(n)' <=> IsDeclStr(n))
         /\ IsDeclStr(item.name)' <=> item.kind = "decl_str"
<1>1. program' = Append(program, item) /\ Collected(item) /\ Legal(item)
  BY DEF Collect
<1>2. \A n : n \in Declared' <=> n \in Declared \/ n = item.name
  BY <1>1, DeclaredGrows
<1>3. item.name \notin Declared /\ ~DeclaredAs(item.name, {"int", "ch"})
  BY <1>1, LegalDeclaration
<1>4. \A n : IsDeclStr(n)' <=> IsDeclStr(n) \/ \E l \in Literal : item = DeclStr(n, l)
  BY <1>1, IsDeclStrGrows
<1>5. \A n : n # item.name => (IsDeclStr(n)' <=> IsDeclStr(n))
  BY <1>4 DEF DeclStr
<1>6. IsDeclStr(item.name)' <=> item.kind = "decl_str"
  <2>1. ~IsDeclStr(item.name)
    BY <1>3, StringIsDeclared
  <2>2. (\E l \in Literal : item = DeclStr(item.name, l)) <=> item.kind = "decl_str"
    <3>1. item.kind = "decl_str" => \E l \in Literal : item = DeclStr(item.name, l)
      BY StringDeclaration
    <3>2. (\E l \in Literal : item = DeclStr(item.name, l)) => item.kind = "decl_str"
      BY DEF DeclStr
    <3> QED
      BY <3>1, <3>2
  <2> QED
    BY <1>4, <2>1, <2>2
<1>7. /\ item.name \in Ident /\ item.name \in Name
      /\ symtab' = Allocate(symtab, item.name, item.kind = "decl_str")
  BY <1>1, CollectAllocates
<1>8. Cut[item.name] = item.name
  BY <1>2, <1>7 DEF NamesAreShort, Short
<1>9. (item.kind = "decl_str") \in BOOLEAN
  OBVIOUS
<1>10. \/ /\ Idle(symtab, symtab') /\ Covered(symtab', item.name)
          /\ symtab'.next_reg \in {symtab.next_reg, SkipReserved(symtab.next_reg)}
       \/ /\ symtab'.next_reg = SkipReserved(symtab.next_reg) + 1
          /\ \E e \in Entry : /\ AddsEntry(symtab, symtab', e)
                              /\ NewVariable(symtab, e, item.name, item.kind = "decl_str")
  BY <1>7, <1>9, AllocateResult
<1>11. \A e : NewVariable(symtab, e, item.name, item.kind = "decl_str") =>
         /\ IsVariable(e) /\ e.name = item.name
         /\ e.is_string_var <=> item.kind = "decl_str"
  BY <1>8 DEF NewVariable
<1> QED
  BY <1>2, <1>3, <1>5, <1>6, <1>7, <1>10, <1>11


-----------------------------------------------------------------------------
(* The tables agree with the program: the first walk.                      *)

(* No step uncovers a name.                                                *)
LEMMA CoveredStep ==
  ASSUME Shape, TableInv(symtab), [Next]_vars, NEW n, Covered(symtab, n)
  PROVE  Covered(symtab', n)
  BY StepGrows, CoveredKept

(* A use in the first walk enters nothing: its name is covered.            *)
LEMMA UseStory ==
  ASSUME Shape, TableInv(symtab), ProgramInv, TablesAgree,
         NEW item \in Item, Collect(item), ~IsDecl(item)
  PROVE  TableStory(symtab.table)' /\ AllCovered' /\ RegistersSpent'
<1>1. /\ symtab'.table = symtab.table /\ symtab'.next_reg >= symtab.next_reg
      /\ symtab'.next_reg \in {symtab.next_reg, SkipReserved(symtab.next_reg)}
      /\ \A n : n \in Declared' <=> n \in Declared
      /\ \A n : IsDeclStr(n)' <=> IsDeclStr(n)
  BY CollectUse DEF TablesAgree, Idle
<1>2. TableStory(symtab.table)'
  BY <1>1 DEF TablesAgree, TableStory
<1>3. symtab.next_reg \in Nat /\ Len(symtab.table) \in Nat
  BY DEF TableInv, SymbolTables
<1>5. AllCovered'
  <2>1. [Next]_vars
    BY DEF Next
  <2> QED
    BY <1>1, <2>1, CoveredStep DEF TablesAgree, AllCovered
<1>6. phase = "collect" /\ phase' = phase
  BY DEF Collect
<1>7. RegistersSpent'
  BY <1>1, <1>3, <1>6 DEF TablesAgree, RegistersSpent, SkipReserved, FirstReg
<1> QED
  BY <1>2, <1>5, <1>7

(* A declaration enters its name, with its type, while registers last.     *)
LEMMA DeclarationStory ==
  ASSUME Shape, TableInv(symtab), TableInv(symtab'), OnlyVariables(symtab),
         OnlyVariables(symtab'), TablesAgree, NEW item \in Item, Collect(item),
         IsDecl(item), NamesAreShort'
  PROVE  TableStory(symtab.table)' /\ AllCovered' /\ RegistersSpent'
<1> DEFINE m == Len(symtab.table)
           n == item.name
<1>1. /\ n \notin Declared
      /\ \A k : k \in Declared' <=> k \in Declared \/ k = n
      /\ \A k : k # n => (IsDeclStr(k)' <=> IsDeclStr(k))
      /\ IsDeclStr(n)' <=> item.kind = "decl_str"
  BY CollectDeclaration
<1>2. /\ symtab.table \in Seq(Entry) /\ m \in Nat /\ symtab.next_reg \in Nat
      /\ symtab'.table \in Seq(Entry) /\ symtab'.next_reg \in Nat
  BY DEF TableInv, SymbolTables
<1>3. \A i \in 1 .. m : symtab.table[i].name \in Declared
  BY DEF TablesAgree, TableStory, OnlyVariables
<1>4. phase = "collect" /\ phase' = phase
  BY DEF Collect
<1>5. \A k \in Declared : Covered(symtab', k)
  <2>1. [Next]_vars
    BY DEF Next
  <2> QED
    BY <2>1, CoveredStep DEF TablesAgree, AllCovered
<1>6. symtab.next_reg <= FirstReg + m
  BY <1>4 DEF TablesAgree, RegistersSpent
<1> HIDE DEF m, n
<1>7. ASSUME Idle(symtab, symtab'), Covered(symtab', n),
             symtab'.next_reg \in {symtab.next_reg, SkipReserved(symtab.next_reg)}
      PROVE  TableStory(symtab.table)' /\ AllCovered' /\ RegistersSpent'
  <2>1. symtab'.table = symtab.table
    BY <1>7 DEF Idle
  <2>2. TableStory(symtab.table)'
    BY <1>1, <1>3, <2>1 DEF TablesAgree, TableStory, m
  <2>4. AllCovered'
    BY <1>1, <1>5, <1>7 DEF AllCovered
  <2>5. RegistersSpent'
    BY <1>2, <1>4, <1>6, <1>7, <2>1 DEF RegistersSpent, SkipReserved, FirstReg, m
  <2> QED
    BY <2>2, <2>4, <2>5
<1>8. ASSUME NEW e \in Entry, AddsEntry(symtab, symtab', e),
             IsVariable(e), e.name = n, e.is_string_var <=> item.kind = "decl_str",
             symtab'.next_reg = SkipReserved(symtab.next_reg) + 1
      PROVE  TableStory(symtab.table)' /\ AllCovered' /\ RegistersSpent'
  <2>1. /\ Len(symtab'.table) = m + 1
        /\ symtab'.table[m + 1] = e
        /\ \A i \in 1 .. m : symtab'.table[i] = symtab.table[i]
        /\ \A i \in 1 .. m + 1 : i \in 1 .. m \/ i = m + 1
        /\ m + 1 \in 1 .. m + 1
    BY <1>2, <1>8, AddedEntry DEF m
  <2>2. \A i, j \in 1 .. m + 1 : symtab'.table[i].name = symtab'.table[j].name => i = j
    BY <1>1, <1>3, <1>8, <2>1 DEF TablesAgree, TableStory, m
  <2>3. \A i \in 1 .. m + 1 : symtab'.table[i].name \in Declared'
    BY <1>1, <1>3, <1>8, <2>1
  <2>4. ASSUME NEW i \in 1 .. m + 1, NEW k \in Declared', symtab'.table[i].name = k
        PROVE  symtab'.table[i].is_string_var <=> IsDeclStr(k)'
    <3>1. CASE i = m + 1
      BY <1>1, <1>8, <2>1, <2>4, <3>1
    <3>2. CASE i \in 1 .. m
      <4>1. k \in Declared /\ k # n /\ IsVariable(symtab.table[i])
        BY <1>1, <1>3, <2>1, <2>4, <3>2 DEF OnlyVariables, m
      <4>2. symtab.table[i].is_string_var <=> IsDeclStr(k)
        BY <2>1, <2>4, <3>2, <4>1 DEF TablesAgree, TableStory, m
      <4> QED
        BY <1>1, <2>1, <3>2, <4>1, <4>2
    <3> QED
      BY <2>1, <3>1, <3>2
  <2>5. \A i \in 1 .. m + 1 : IsVariable(symtab'.table[i])
    BY <2>1 DEF OnlyVariables
  <2>6. TableStory(symtab.table)'
    BY <2>1, <2>2, <2>3, <2>4, <2>5 DEF TableStory, IsVariable
  <2>7. AllCovered'
    <3>1. Covered(symtab', n)
      BY <1>2, <1>8, <2>1, EntryCovers
    <3> QED
      BY <1>1, <1>5, <3>1 DEF AllCovered
  <2>8. RegistersSpent'
    BY <1>2, <1>4, <1>6, <1>8, <2>1 DEF RegistersSpent, SkipReserved, FirstReg
  <2> QED
    BY <2>6, <2>7, <2>8
<1> QED
  BY <1>7, <1>8, CollectDeclaration DEF n

(* Names that are short have been short all along.                         *)
LEMMA ShortBefore ==
  ASSUME Shape, NEW item \in Item, Collect(item), NamesAreShort'
  PROVE  NamesAreShort
<1>1. \A n : n \in Declared => n \in Declared'
  BY DeclaredGrows DEF Collect
<1> QED
  BY <1>1 DEF NamesAreShort

(* The first walk keeps the story of the symbol table.                     *)
LEMMA CollectTables ==
  ASSUME Shape, TableInv(symtab), TableInv(symtab'), OnlyVariables(symtab),
         OnlyVariables(symtab'), ProgramInv, TableInvs, NEW item \in Item, Collect(item)
  PROVE  TableInvs'
<1> SUFFICES ASSUME NamesAreShort'  PROVE TablesAgree'
  BY DEF TableInvs
<1>1. TablesAgree
  BY ShortBefore DEF TableInvs
<1>2. TableStory(symtab.table)' /\ AllCovered' /\ RegistersSpent'
  BY <1>1, UseStory, DeclarationStory
<1>3. phase' = "collect"
  BY DEF Collect
<1>4. Registered' = 0
  BY <1>3 DEF Registered
<1>5. AllEntered' /\ SymbolsCounted' /\ LabelsLast'
  BY <1>3 DEF AllEntered, SymbolsCounted, LabelsLast
<1>6. LabelsFound'
  BY <1>4 DEF LabelsFound
<1> QED
  BY <1>2, <1>5, <1>6 DEF TablesAgree

-----------------------------------------------------------------------------
(* The end of the first walk: there is an entry for every declared name,   *)
(* unless the registers have run out.                                      *)

(* No more variables than declared names, and fewer if one has no entry.   *)
LEMMA VariablesCounted ==
  ASSUME Shape, TableInv(symtab), OnlyVariables(symtab), TableStory(symtab.table)
  PROVE  /\ Len(symtab.table) <= Cardinality(Declared)
         /\ \A n \in Declared : ~HasEntry(symtab.table, n) =>
              Len(symtab.table) <= Cardinality(Declared) - 1
<1> DEFINE m == Len(symtab.table)
           f == [i \in 1 .. m |-> symtab.table[i].name]
<1>1. m \in Nat /\ IsFiniteSet(Declared)
  BY TableLength, FiniteProgram
<1>2. /\ \A i \in 1 .. m : f[i] \in Declared /\ f[i] = symtab.table[i].name
      /\ \A i, j \in 1 .. m : f[i] = f[j] => i = j
  BY DEF TableStory, OnlyVariables
<1>3. \A n \in Declared : ~HasEntry(symtab.table, n) => \A i \in 1 .. m : f[i] # n
  BY <1>2 DEF HasEntry, OnlyVariables
<1> HIDE DEF f, m
<1>4. m <= Cardinality(Declared)
  BY <1>1, <1>2, DistinctElements
<1>5. \A n \in Declared : ~HasEntry(symtab.table, n) => m <= Cardinality(Declared) - 1
  BY <1>1, <1>2, <1>3, DistinctButOne
<1> QED
  BY <1>4, <1>5 DEF m

(* At the end of the first walk, all have entries if the registers last.   *)
LEMMA AllHaveEntries ==
  ASSUME Shape, TableInv(symtab), OnlyVariables(symtab), TablesAgree, phase = "collect",
         VariablesFit
  PROVE  \A n \in Declared : HasEntry(symtab.table, n)
<1> SUFFICES ASSUME NEW n \in Declared, ~HasEntry(symtab.table, n)  PROVE FALSE
  OBVIOUS
<1> DEFINE m == Len(symtab.table)
<1>1. /\ m \in Nat /\ symtab.next_reg \in Nat /\ symtab.table \in Seq(Entry)
      /\ Cardinality(Declared) \in Nat /\ REG_MAX \in Nat /\ MAX_SYMBOLS \in Nat
  BY FiniteProgram, FS_CardinalityType, LimitAssumption DEF TableInv, SymbolTables
<1>2. m <= Cardinality(Declared) - 1
  BY VariablesCounted DEF TablesAgree
<1>3. Cardinality(Declared) <= REG_MAX - FirstReg + 1
  BY DEF VariablesFit
<1>4. symtab.next_reg <= FirstReg + m
  BY DEF TablesAgree, RegistersSpent
<1>5. m < MAX_SYMBOLS /\ symtab.next_reg <= REG_MAX
  BY <1>1, <1>2, <1>3, <1>4, RegisterAssumption DEF FirstReg
<1>6. GetRegisterOfTheSymbol(symtab, n) # -1
  BY <1>1, <1>5 DEF TablesAgree, AllCovered, Covered
<1>7. PICK i \in 1 .. m : symtab.table[i].name = n
  BY <1>1, <1>6, MatchMembers DEF GetRegisterOfTheSymbol
<1> QED
  BY <1>7 DEF HasEntry, OnlyVariables

(* The labels begin behind the variables.                                  *)
LEMMA EndOfProgramTables ==
  ASSUME Shape, TableInv(symtab), OnlyVariables(symtab), Progress, TableInvs, EndOfProgram
  PROVE  TableInvs'
<1>1. /\ phase = "collect" /\ phase' = "labels" /\ pc = 1 /\ pc' = pc
      /\ program' = program /\ symtab' = symtab /\ string_table' = string_table
  BY DEF EndOfProgram, Progress
<1> SUFFICES ASSUME NamesAreShort  PROVE TablesAgree'
  BY <1>1, ProgramStands DEF TableInvs
<1>2. TablesAgree
  BY DEF TableInvs
<1>3. Registered' = 0
  BY <1>1 DEF Registered
<1>4. Len(symtab.table) \in Nat
  BY TableLength
<1>5. TableStory(symtab.table)' /\ AllCovered' /\ RegistersSpent'
  BY <1>1, <1>2, ProgramStands DEF TablesAgree, TableStory, AllCovered, RegistersSpent
<1>6. AllEntered'
  BY <1>1, <1>2, ProgramStands, AllHaveEntries DEF AllEntered
<1>7. SymbolsCounted'
  <2>1. Len(symtab.table) <= Cardinality(Declared) /\ Cardinality(Declared) \in Nat
    BY <1>2, VariablesCounted, FiniteProgram, FS_CardinalityType DEF TablesAgree
  <2> QED
    BY <1>1, <1>3, <2>1, ProgramStands DEF SymbolsCounted
<1>8. LabelsFound'
  BY <1>3 DEF LabelsFound
<1>9. LabelsLast'
  BY <1>1, <1>3, <1>4 DEF LabelsLast, LabelsAtEnd, OnlyVariables
<1> QED
  BY <1>5, <1>6, <1>7, <1>8, <1>9 DEF TablesAgree


-----------------------------------------------------------------------------
(* The labels.                                                             *)

(* No more literals in the table than in the program.                      *)
LEMMA LiteralsCounted ==
  ASSUME Shape, LiteralTable
  PROVE  Len(string_table) <= Cardinality(Literals)
<1>1. Len(string_table) \in Nat /\ IsFiniteSet(Literals)
  BY FiniteProgram DEF Shape, LitTable
<1> QED
  BY <1>1, DistinctElements DEF LiteralTable

(* The pc-th label is new or was there; and there is room for it when all  *)
(* the symbols fit.                                                        *)
LEMMA RegisterLabelResult ==
  ASSUME Shape, TableInv(symtab), LiteralTable, TablesAgree, RegisterLabel
  PROVE  /\ pc \in 1 .. Len(string_table) /\ pc \in 1 .. MAX_STRINGS
         /\ \/ /\ symtab' = symtab
               /\ \/ \E i \in 1 .. Len(symtab.table) : symtab.table[i].name = StrLabel[pc]
                  \/ ~SymbolsFit
            \/ /\ \A i \in 1 .. Len(symtab.table) : symtab.table[i].name # StrLabel[pc]
               /\ \E e \in Entry : /\ AddsEntry(symtab, symtab', e)
                                   /\ ~IsVariable(e) /\ ~e.is_string_var
                                   /\ e.name = StrLabel[pc]
                                   /\ e.size = SizeOf[string_table[pc]]
<1>1. pc \in 1 .. Len(string_table) /\ pc \in 1 .. MAX_STRINGS /\ Len(string_table) \in Nat
  BY AssemblyAssumption DEF Shape, LitTable, RegisterLabel
<1>2. StrLabel[pc] \in Name /\ Cut[StrLabel[pc]] = StrLabel[pc]
  BY <1>1, AssemblyAssumption, LabelAssumption DEF Short
<1>3. SizeOf[string_table[pc]] \in Nat \ {0}
  <2>1. string_table[pc] \in Literal
    BY <1>1 DEF Shape, LitTable
  <2> QED
    BY <2>1, AssemblyAssumption, LabelSizeAssumption
<1>4. /\ symtab.table \in Seq(Entry) /\ Len(symtab.table) \in Nat /\ MAX_SYMBOLS \in Nat
      /\ Cardinality(Declared) \in Nat /\ Cardinality(Literals) \in Nat
  BY FiniteProgram, FS_CardinalityType, LimitAssumption DEF TableInv, SymbolTables
<1>5. SymbolsFit => Len(symtab.table) < MAX_SYMBOLS
  <2>1. Registered = pc - 1 /\ phase = "labels"
    BY DEF RegisterLabel, Registered
  <2>2. Len(symtab.table) <= Cardinality(Declared) + (pc - 1)
    BY <2>1 DEF TablesAgree, SymbolsCounted
  <2>3. pc <= Cardinality(Literals)
    BY <1>1, <1>4, LiteralsCounted
  <2> QED
    BY <1>1, <1>4, <2>2, <2>3 DEF SymbolsFit
<1>6. symtab' = WithLabel(symtab, StrLabel[pc], SizeOf[string_table[pc]])
  BY DEF RegisterLabel
<1>7. \/ /\ symtab' = symtab
         /\ Matches(symtab, StrLabel[pc]) # {} \/ Len(symtab.table) >= MAX_SYMBOLS
      \/ /\ Matches(symtab, StrLabel[pc]) = {}
         /\ \E e \in Entry : /\ AddsEntry(symtab, symtab', e)
                             /\ NewLabel(symtab, e, StrLabel[pc], SizeOf[string_table[pc]])
  BY <1>2, <1>3, <1>6, WithLabelResult
<1>8. CASE /\ symtab' = symtab
           /\ Matches(symtab, StrLabel[pc]) # {} \/ Len(symtab.table) >= MAX_SYMBOLS
  BY <1>1, <1>4, <1>5, <1>8, MatchMembers
<1>9. CASE /\ Matches(symtab, StrLabel[pc]) = {}
           /\ \E e \in Entry : /\ AddsEntry(symtab, symtab', e)
                               /\ NewLabel(symtab, e, StrLabel[pc], SizeOf[string_table[pc]])
  BY <1>1, <1>2, <1>4, <1>9, MatchMembers DEF NewLabel
<1> QED
  BY <1>7, <1>8, <1>9

(* Each label is entered behind the ones before it.                        *)
LEMMA LabelTables ==
  ASSUME Shape, TableInv(symtab), LiteralTable, TableInvs, RegisterLabel
  PROVE  TableInvs'
<1>1. /\ phase = "labels" /\ phase' = phase /\ pc' = pc + 1
      /\ program' = program /\ string_table' = string_table
  BY DEF RegisterLabel
<1> SUFFICES ASSUME NamesAreShort  PROVE TablesAgree'
  BY <1>1, ProgramStands DEF TableInvs
<1>2. TablesAgree
  BY DEF TableInvs
<1> DEFINE m == Len(symtab.table)
<1>3. /\ symtab.table \in Seq(Entry) /\ m \in Nat
      /\ pc \in 1 .. Len(string_table) /\ pc \in 1 .. MAX_STRINGS /\ pc \in Nat \ {0}
  BY <1>2, TableLength, RegisterLabelResult DEF Shape
<1>4. Registered = pc - 1 /\ Registered' = pc
  <2>1. Registered = pc - 1
    BY <1>1 DEF Registered
  <2>2. Registered' = pc' - 1
    BY <1>1 DEF Registered
  <2> QED
    BY <1>1, <1>3, <2>1, <2>2
<1>5. AllCovered'
  <2>1. [Next]_vars
    BY DEF Next
  <2> QED
    BY <1>1, <1>2, <2>1, ProgramStands, CoveredStep DEF TablesAgree, AllCovered
<1>6. RegistersSpent'
  BY <1>1 DEF RegistersSpent
<1>7. Cardinality(Declared) \in Nat
  BY FiniteProgram, FS_CardinalityType
<1>8. /\ VariablesFit => \A n \in Declared : HasEntry(symtab.table, n)
      /\ m <= Cardinality(Declared) + (pc - 1)
      /\ SymbolsFit => \A h \in 1 .. pc - 1 : \E i \in 1 .. m : symtab.table[i].name = StrLabel[h]
      /\ SymbolsFit /\ NamesAreNotLabels => LabelsAtEnd(symtab.table, pc - 1)
  BY <1>1, <1>2, <1>4 DEF TablesAgree, AllEntered, SymbolsCounted, LabelsFound, LabelsLast
<1>9. \A h : h \in 1 .. pc => h \in 1 .. pc - 1 \/ h = pc
  BY <1>3
<1>10. ASSUME SymbolsFit, NamesAreNotLabels, NEW i \in 1 .. m
       PROVE  symtab.table[i].name # StrLabel[pc]
  <2>1. CASE IsVariable(symtab.table[i])
    <3>1. symtab.table[i].name \in Declared
      BY <1>2, <2>1 DEF TablesAgree, TableStory
    <3>2. pc \in DOMAIN StrLabel
      BY <1>3, AssemblyAssumption
    <3> QED
      BY <1>10, <3>1, <3>2 DEF NamesAreNotLabels
  <2>2. CASE ~IsVariable(symtab.table[i])
    <3>1. /\ pc - 1 <= m
          /\ \A k \in 1 .. m - (pc - 1) : IsVariable(symtab.table[k])
          /\ \A h \in 1 .. pc - 1 : symtab.table[m - (pc - 1) + h].name = StrLabel[h]
      BY <1>8, <1>10 DEF LabelsAtEnd
    <3>2. i > m - (pc - 1)
      BY <1>3, <2>2, <3>1
    <3>3. PICK h \in 1 .. pc - 1 : m - (pc - 1) + h = i
      <4>1. i - (m - (pc - 1)) \in 1 .. pc - 1
        BY <1>3, <3>1, <3>2
      <4>2. m - (pc - 1) + (i - (m - (pc - 1))) = i
        <5>1. i \in Int /\ m - (pc - 1) \in Int
          BY <1>3
        <5> QED
          BY <5>1
      <4> HIDE DEF m
      <4> QED
        BY <4>1, <4>2
    <3>4. h # pc /\ h \in 1 .. MAX_STRINGS
      BY <1>3, AssemblyAssumption
    <3>5. symtab.table[i].name = StrLabel[h]
      BY <3>1, <3>3
    <3> QED
      BY <1>3, <3>4, <3>5, LabelAssumption
  <2> QED
    BY <2>1, <2>2
<1>11. ASSUME symtab' = symtab,
              \/ \E i \in 1 .. m : symtab.table[i].name = StrLabel[pc]
              \/ ~SymbolsFit
       PROVE  TablesAgree'
  <2>1. TableStory(symtab.table)' /\ AllEntered'
    BY <1>1, <1>2, <1>11, ProgramStands DEF TablesAgree, TableStory, AllEntered
  <2>2. SymbolsCounted'
    BY <1>1, <1>3, <1>4, <1>7, <1>8, <1>11, ProgramStands DEF SymbolsCounted
  <2>3. LabelsFound'
    BY <1>1, <1>4, <1>8, <1>9, <1>11, ProgramStands DEF LabelsFound
  <2>4. LabelsLast'
    BY <1>1, <1>10, <1>11, ProgramStands DEF LabelsLast
  <2> QED
    BY <1>5, <1>6, <2>1, <2>2, <2>3, <2>4 DEF TablesAgree
<1>12. ASSUME NEW e \in Entry, AddsEntry(symtab, symtab', e),
              ~IsVariable(e), ~e.is_string_var, e.name = StrLabel[pc],
              e.size = SizeOf[string_table[pc]],
              \A i \in 1 .. m : symtab.table[i].name # StrLabel[pc]
       PROVE  TablesAgree'
  <2>1. /\ Len(symtab'.table) = m + 1
        /\ symtab'.table[m + 1] = e
        /\ \A i \in 1 .. m : symtab'.table[i] = symtab.table[i]
        /\ \A i \in 1 .. m + 1 : i \in 1 .. m \/ i = m + 1
        /\ m + 1 \in 1 .. m + 1
        /\ \A i \in 1 .. m : i \in 1 .. m + 1
    BY <1>3, <1>12, AddedEntry
  <2> HIDE DEF m
  <2>2. TableStory(symtab.table)'
    <3>1. \A i, j \in 1 .. m + 1 : symtab'.table[i].name = symtab'.table[j].name => i = j
      BY <1>2, <1>12, <2>1 DEF TablesAgree, TableStory, m
    <3>2. \A i \in 1 .. m + 1 : IsVariable(symtab'.table[i]) => symtab'.table[i].name \in Declared
      BY <1>2, <1>12, <2>1 DEF TablesAgree, TableStory, m
    <3>3. \A i \in 1 .. m + 1, n \in Declared :
            IsVariable(symtab'.table[i]) /\ symtab'.table[i].name = n =>
              (symtab'.table[i].is_string_var <=> IsDeclStr(n))
      BY <1>2, <1>12, <2>1 DEF TablesAgree, TableStory, m
    <3>4. \A i \in 1 .. m + 1 : ~IsVariable(symtab'.table[i]) => ~symtab'.table[i].is_string_var
      BY <1>2, <1>12, <2>1 DEF TablesAgree, TableStory, m
    <3> QED
      BY <1>1, <2>1, <3>1, <3>2, <3>3, <3>4, ProgramStands DEF TableStory, IsVariable
  <2>3. AllEntered'
    <3>1. \A n : HasEntry(symtab.table, n) => HasEntry(symtab'.table, n)
      BY <2>1 DEF HasEntry, m
    <3> QED
      BY <1>1, <1>8, <3>1, ProgramStands DEF AllEntered
  <2>4. SymbolsCounted'
    BY <1>1, <1>3, <1>4, <1>7, <1>8, <2>1, ProgramStands DEF SymbolsCounted, m
  <2>5. LabelsFound'
    <3>1. ASSUME SymbolsFit, NEW h \in 1 .. pc
          PROVE  \E i \in 1 .. m + 1 : symtab'.table[i].name = StrLabel[h]
      <4>1. CASE h = pc
        BY <1>12, <2>1, <4>1
      <4>2. CASE h \in 1 .. pc - 1
        <5>1. PICK i \in 1 .. m : symtab.table[i].name = StrLabel[h]
          BY <1>8, <3>1, <4>2 DEF m
        <5> QED
          BY <2>1, <5>1
      <4> QED
        BY <1>9, <4>1, <4>2
    <3> QED
      BY <1>1, <1>4, <2>1, <3>1, ProgramStands DEF LabelsFound
  <2>6. ASSUME SymbolsFit, NamesAreNotLabels  PROVE LabelsAtEnd(symtab.table, Registered)'
    <3>1. /\ pc - 1 <= m
          /\ \A k \in 1 .. m - (pc - 1) : IsVariable(symtab.table[k])
          /\ \A h \in 1 .. pc - 1 : /\ ~IsVariable(symtab.table[m - (pc - 1) + h])
                                    /\ symtab.table[m - (pc - 1) + h].name = StrLabel[h]
                                    /\ symtab.table[m - (pc - 1) + h].size = SizeOf[string_table[h]]
      BY <1>8, <2>6 DEF LabelsAtEnd, m
    <3>2. m + 1 - pc = m - (pc - 1) /\ pc <= m + 1
      BY <1>3, <3>1 DEF m
    <3>3. \A k \in 1 .. m - (pc - 1) : k \in 1 .. m
      BY <1>3, <3>1 DEF m
    <3>4. \A h \in 1 .. pc - 1 : m - (pc - 1) + h \in 1 .. m
      BY <1>3, <3>1 DEF m
    <3>5. m - (pc - 1) + pc = m + 1
      BY <1>3 DEF m
    <3>6. \A k \in 1 .. m - (pc - 1) : IsVariable(symtab'.table[k])
      BY <2>1, <3>1, <3>3
    <3>7. ASSUME NEW h \in 1 .. pc
          PROVE  /\ ~IsVariable(symtab'.table[m - (pc - 1) + h])
                 /\ symtab'.table[m - (pc - 1) + h].name = StrLabel[h]
                 /\ symtab'.table[m - (pc - 1) + h].size = SizeOf[string_table[h]]
      <4>1. CASE h = pc
        BY <1>12, <2>1, <3>5, <4>1
      <4>2. CASE h \in 1 .. pc - 1
        BY <2>1, <3>1, <3>4, <4>2
      <4> QED
        BY <1>9, <4>1, <4>2
    <3>8. Len(symtab'.table) - Registered' = m - (pc - 1) /\ Registered' <= Len(symtab'.table)
      <4>1. Registered' = pc /\ Len(symtab'.table) = m + 1
        BY <1>4, <2>1
      <4>2. m \in Nat /\ pc \in Nat
        BY <1>3 DEF m
      <4> QED
        BY <3>2, <4>1, <4>2
    <3> QED
      BY <1>1, <1>4, <3>6, <3>7, <3>8 DEF LabelsAtEnd, IsVariable
  <2>7. LabelsLast'
    BY <1>1, <1>4, <2>6, ProgramStands DEF LabelsLast
  <2> QED
    BY <1>5, <1>6, <2>2, <2>3, <2>4, <2>5, <2>7 DEF TablesAgree
<1> QED
  BY <1>2, <1>11, <1>12, RegisterLabelResult

-----------------------------------------------------------------------------
(* From then on the tables stand: what the second walk allocates is there. *)

(* The second walk allocates nothing.                                      *)
LEMMA GenerateIdle ==
  ASSUME Shape, TableInv(symtab), TablesAgree, Generate
  PROVE  Idle(symtab, symtab')
<1>1. pc \in 1 .. Len(program) /\ program[pc] \in Item /\ Generated(program[pc])
  BY DEF Generate, Shape
<1>2. CASE symtab' = symtab
  BY <1>2 DEF Idle, TableInv, SymbolTables
<1>3. CASE /\ program[pc].kind \in {"bare", "decl_init"} /\ program[pc].name \in Name
           /\ symtab' = AllocateRegisterForTheSymbol(symtab, program[pc].name)
  <2>1. program[pc].name \in Ident /\ IsDecl(program[pc])
        /\ program[pc].type \in {"int", "ch"}
    BY <1>1, <1>3, ItemFields DEF Named, IsDecl
  <2>2. program[pc].name \in Declared
    BY <1>1, <2>1, ProgramDomain, DeclaredMembers DEF DeclaredAs
  <2>3. Covered(symtab, program[pc].name)
    BY <2>2 DEF TablesAgree, AllCovered
  <2> QED
    BY <1>3, <2>3, CoveredIsIdle DEF AllocateRegisterForTheSymbol
<1> QED
  BY <1>1, <1>2, <1>3, GeneratedShape

(* The steps that neither collect nor register a label.                    *)
Quiet ==
  \/ phase = "labels" /\ phase' = "data" /\ pc > Len(string_table)
  \/ phase = "data" /\ phase' \in {"data", "code"}
  \/ phase = "code" /\ phase' \in {"code", "done"}
  \/ phase = "done" /\ phase' = "done"

(* After the labels no table changes any more, ...                         *)
LEMMA QuietStep ==
  ASSUME Shape, TableInv(symtab), LiteralTable, TablesAgree,
         EndOfLabels \/ PrintData \/ PrintStrings \/ Generate \/ Exit \/ Finished
  PROVE  /\ Quiet /\ Idle(symtab, symtab')
         /\ UNCHANGED <<program, string_table, string_vars>>
<1>1. CASE Generate
  BY <1>1, GenerateIdle, GeneratedLiteral DEF Generate, Quiet
<1>2. CASE EndOfLabels \/ PrintData \/ PrintStrings \/ Exit \/ Finished
  <2>1. symtab' = symtab => Idle(symtab, symtab')
    BY DEF Idle, TableInv, SymbolTables
  <2> QED
    BY <1>2, <2>1 DEF EndOfLabels, PrintData, PrintStrings, Exit, Finished, Quiet, vars
<1> QED
  BY <1>1, <1>2

(* ... so that the story of the symbol table goes on.                      *)
LEMMA QuietTables ==
  ASSUME Shape, TableInv(symtab), LiteralTable, Progress, TableInvs,
         EndOfLabels \/ PrintData \/ PrintStrings \/ Generate \/ Exit \/ Finished
  PROVE  TableInvs'
<1>0. program' = program
  BY DEF EndOfLabels, PrintData, PrintStrings, Generate, Exit, Finished, vars
<1> SUFFICES ASSUME NamesAreShort  PROVE TablesAgree'
  BY <1>0, ProgramStands DEF TableInvs
<1>1. TablesAgree
  BY DEF TableInvs
<1>2. /\ Quiet /\ symtab'.table = symtab.table
      /\ program' = program /\ string_table' = string_table
  BY <1>1, QuietStep DEF Idle
<1>3. phase # "collect" /\ phase' # "collect" /\ phase' # "labels"
  BY <1>2 DEF Quiet
<1>4. Registered' = Registered
  <2>1. Registered' = Len(string_table)
    BY <1>2, <1>3 DEF Registered
  <2>2. CASE phase = "labels"
    <3>1. pc > Len(string_table) /\ pc <= Len(string_table) + 1
      BY <1>2, <2>2 DEF Quiet, Progress
    <3>2. pc \in Nat /\ Len(string_table) \in Nat
      BY DEF Shape, LitTable
    <3> QED
      BY <2>1, <2>2, <3>1, <3>2 DEF Registered
  <2>3. CASE phase # "labels"
    BY <1>3, <2>1, <2>3 DEF Registered
  <2> QED
    BY <2>2, <2>3
<1>5. AllCovered'
  <2>1. [Next]_vars
    BY DEF Next
  <2> QED
    BY <1>1, <1>2, <2>1, ProgramStands, CoveredStep DEF TablesAgree, AllCovered
<1>6. TableStory(symtab.table)' /\ AllEntered'
  BY <1>1, <1>2, <1>3, ProgramStands DEF TablesAgree, TableStory, AllEntered
<1>7. RegistersSpent' /\ SymbolsCounted'
  BY <1>3 DEF RegistersSpent, SymbolsCounted
<1>8. LabelsFound'
  BY <1>1, <1>2, <1>4, ProgramStands DEF TablesAgree, LabelsFound
<1>9. LabelsLast'
  BY <1>1, <1>2, <1>3, <1>4, ProgramStands DEF TablesAgree, LabelsLast, LabelsAtEnd
<1> QED
  BY <1>5, <1>6, <1>7, <1>8, <1>9 DEF TablesAgree


-----------------------------------------------------------------------------
(* .data: one line after the other.                                        *)

(* The two kinds of lines.                                                 *)
LEMMA LineKinds ==
  /\ \A n \in Name : Space(n) \in Line /\ Space(n).label = n /\ Space(n).kind = "space"
  /\ \A n \in Name, l \in Literal :
       /\ Asciiz(n, l) \in Line /\ Asciiz(n, l).label = n
       /\ Asciiz(n, l).kind = "asciiz" /\ Asciiz(n, l).value = l
<1>1. \A n \in Name : Space(n) \in Line
  BY DEF Line
<1>2. \A n \in Name, l \in Literal : Asciiz(n, l) \in Line
  BY DEF Line
<1> QED
  BY <1>1, <1>2 DEF Space, Asciiz

(* PrintData prints a line for the next symbol, if it is an integer.       *)
LEMMA IntegerLinesNext ==
  ASSUME NEW tab \in Seq(Entry),
         \A i, j \in 1 .. Len(tab) : tab[i].name = tab[j].name => i = j,
         NEW m \in Nat, m + 1 <= Len(tab), NEW d, IntegerLines(d, tab, m),
         NEW q, q = IF IsInteger(tab[m + 1]) THEN Append(d, Space(tab[m + 1].name)) ELSE d
  PROVE  IntegerLines(q, tab, m + 1)
<1> DEFINE n == tab[m + 1].name
           k == Len(d)
<1>1. /\ d \in Seq(Line) /\ k \in Nat /\ Len(tab) \in Nat
      /\ m + 1 \in 1 .. Len(tab)
      /\ \A i \in 1 .. m : i \in 1 .. Len(tab) /\ i # m + 1
      /\ \A i \in 1 .. m + 1 : i \in 1 .. m \/ i = m + 1
      /\ \A i \in 1 .. m : i \in 1 .. m + 1
      /\ m + 1 \in 1 .. m + 1
  BY DEF IntegerLines
<1>2. n \in Name /\ \A i \in 1 .. Len(tab) : tab[i].name \in Name
  <2>1. \A i \in 1 .. Len(tab) : tab[i] \in Entry
    OBVIOUS
  <2> QED
    BY <1>1, <2>1 DEF Entry
<1>3. \A j \in 1 .. k : \E i \in 1 .. m : IsInteger(tab[i]) /\ d[j] = Space(tab[i].name)
  BY DEF IntegerLines
<1>4. \A i \in 1 .. m : IsInteger(tab[i]) => \E j \in 1 .. k : d[j] = Space(tab[i].name)
  BY DEF IntegerLines
<1>5. \A i, j \in 1 .. k : d[i].label = d[j].label => i = j
  BY DEF IntegerLines
<1>6. ASSUME NEW v \in 0 .. Len(tab), \A i \in 1 .. Len(tab) : IsInteger(tab[i]) <=> i <= v
      PROVE  /\ k = IF m <= v THEN m ELSE v
             /\ \A j \in 1 .. k : d[j] = Space(tab[j].name)
  BY <1>6 DEF IntegerLines
<1> HIDE DEF n, k
<1>7. CASE ~IsInteger(tab[m + 1])
  <2>1. q = d
    BY <1>7
  <2>2. \A j \in 1 .. k : \E i \in 1 .. m + 1 : IsInteger(tab[i]) /\ d[j] = Space(tab[i].name)
    BY <1>1, <1>3
  <2>3. \A i \in 1 .. m + 1 : IsInteger(tab[i]) => \E j \in 1 .. k : d[j] = Space(tab[i].name)
    BY <1>1, <1>4, <1>7
  <2>4. ASSUME NEW v \in 0 .. Len(tab), \A i \in 1 .. Len(tab) : IsInteger(tab[i]) <=> i <= v
        PROVE  /\ k = IF m + 1 <= v THEN m + 1 ELSE v
               /\ \A j \in 1 .. k : d[j] = Space(tab[j].name)
    <3>1. ~(m + 1 <= v)
      BY <1>1, <1>7, <2>4
    <3>2. /\ k = IF m <= v THEN m ELSE v
          /\ \A j \in 1 .. k : d[j] = Space(tab[j].name)
      BY <1>6, <2>4
    <3>3. m <= v => m = v
      BY <1>1, <3>1
    <3> QED
      BY <3>1, <3>2, <3>3
  <2> QED
    <3>1. d \in Seq(Line) /\ Len(d) = k
      BY <1>1 DEF k
    <3> QED
      BY <1>5, <2>1, <2>2, <2>3, <2>4, <3>1 DEF IntegerLines
<1>8. CASE IsInteger(tab[m + 1])
  <2>0. q = Append(d, Space(n)) /\ Space(n) \in Line /\ Space(n).label = n
    BY <1>2, <1>8, LineKinds DEF n
  <2>1. /\ q \in Seq(Line) /\ Len(q) = k + 1 /\ q[k + 1] = Space(n)
        /\ \A j \in 1 .. k : q[j] = d[j]
        /\ \A j \in 1 .. k + 1 : j \in 1 .. k \/ j = k + 1
        /\ \A j \in 1 .. k : j \in 1 .. k + 1
        /\ k + 1 \in 1 .. k + 1
    BY <1>1, <2>0 DEF k
  <2>2. \A j \in 1 .. k + 1 : \E i \in 1 .. m + 1 : IsInteger(tab[i]) /\ q[j] = Space(tab[i].name)
    <3> TAKE j \in 1 .. k + 1
    <3>1. CASE j = k + 1
      BY <1>1, <1>8, <2>1, <3>1 DEF n
    <3>2. CASE j \in 1 .. k
      BY <1>1, <1>3, <2>1, <3>2
    <3> QED
      BY <2>1, <3>1, <3>2
  <2>3. \A i \in 1 .. m + 1 : IsInteger(tab[i]) => \E j \in 1 .. k + 1 : q[j] = Space(tab[i].name)
    <3> TAKE i \in 1 .. m + 1
    <3>1. CASE i = m + 1
      BY <2>1, <3>1 DEF n
    <3>2. CASE i \in 1 .. m
      BY <1>4, <2>1, <3>2
    <3> QED
      BY <1>1, <3>1, <3>2
  <2>4. \A j \in 1 .. k : d[j].label # n
    <3> TAKE j \in 1 .. k
    <3>1. PICK i \in 1 .. m : d[j] = Space(tab[i].name)
      BY <1>3
    <3>2. i \in 1 .. Len(tab) /\ i # m + 1 /\ tab[i].name \in Name
      BY <1>1, <1>2
    <3>3. d[j].label = tab[i].name
      BY <3>1, <3>2, LineKinds
    <3> QED
      BY <1>1, <3>2, <3>3 DEF n
  <2>5. \A i, j \in 1 .. k + 1 : q[i].label = q[j].label => i = j
    BY <1>5, <2>0, <2>1, <2>4
  <2>6. ASSUME NEW v \in 0 .. Len(tab), \A i \in 1 .. Len(tab) : IsInteger(tab[i]) <=> i <= v
        PROVE  /\ k + 1 = IF m + 1 <= v THEN m + 1 ELSE v
               /\ \A j \in 1 .. k + 1 : q[j] = Space(tab[j].name)
    <3>1. m + 1 <= v
      BY <1>1, <1>8, <2>6
    <3>2. /\ k = IF m <= v THEN m ELSE v
          /\ \A j \in 1 .. k : d[j] = Space(tab[j].name)
      BY <1>6, <2>6
    <3>3. k = m
      BY <3>1, <3>2
    <3> QED
      BY <2>1, <3>1, <3>2, <3>3 DEF n
  <2> QED
    BY <2>1, <2>2, <2>3, <2>5, <2>6 DEF IntegerLines
<1> QED
  BY <1>7, <1>8

(* No symbol, no line.                                                     *)
LEMMA NoLines == ASSUME NEW tab \in Seq(Entry) PROVE IntegerLines(<< >>, tab, 0)
  BY DEF IntegerLines

(* The sections have a line for each literal and each string variable.     *)
LEMMA StringLines ==
  ASSUME LitTable(string_table), VarTable(string_vars)
  PROVE  /\ LiteralSection \in Seq(Line) /\ Len(LiteralSection) = Len(string_table)
         /\ \A i \in 1 .. Len(string_table) :
              LiteralSection[i] = Asciiz(StrLabel[i], string_table[i])
         /\ StringSection \in Seq(Line) /\ Len(StringSection) = Len(string_vars)
         /\ \A i \in 1 .. Len(string_vars) :
              StringSection[i] = Asciiz(string_vars[i].name, string_vars[i].value)
<1>1. /\ string_table \in Seq(Literal) /\ Len(string_table) \in Nat
      /\ DOMAIN string_table = 1 .. Len(string_table)
      /\ \A i \in 1 .. Len(string_table) : string_table[i] \in Literal /\ StrLabel[i] \in Name
  BY AssemblyAssumption DEF LitTable
<1>2. /\ string_vars \in Seq(Variables) /\ Len(string_vars) \in Nat
      /\ DOMAIN string_vars = 1 .. Len(string_vars)
      /\ \A i \in 1 .. Len(string_vars) : string_vars[i] \in Variables
  BY DEF VarTable
<1>3. \A i \in 1 .. Len(string_vars) : string_vars[i].name \in Name /\ string_vars[i].value \in Literal
  BY <1>2, AssemblyAssumption DEF Variables
<1>4. \A i \in 1 .. Len(string_table) : Asciiz(StrLabel[i], string_table[i]) \in Line
  BY <1>1, LineKinds
<1>5. \A i \in 1 .. Len(string_vars) : Asciiz(string_vars[i].name, string_vars[i].value) \in Line
  BY <1>3, LineKinds
<1>6. /\ LiteralSection \in Seq(Line) /\ Len(LiteralSection) = Len(string_table)
      /\ \A i \in 1 .. Len(string_table) :
           LiteralSection[i] = Asciiz(StrLabel[i], string_table[i])
  BY <1>1, <1>4 DEF LiteralSection
<1>7. /\ StringSection \in Seq(Line) /\ Len(StringSection) = Len(string_vars)
      /\ \A i \in 1 .. Len(string_vars) :
           StringSection[i] = Asciiz(string_vars[i].name, string_vars[i].value)
  BY <1>2, <1>5 DEF StringSection
<1> QED
  BY <1>6, <1>7

(* The elements of a concatenation.                                        *)
LEMMA Concatenated ==
  ASSUME NEW T, NEW s \in Seq(T), NEW t \in Seq(T)
  PROVE  /\ s \o t \in Seq(T) /\ Len(s \o t) = Len(s) + Len(t)
         /\ \A i \in 1 .. Len(s) : (s \o t)[i] = s[i]
         /\ \A i \in 1 .. Len(t) : (s \o t)[Len(s) + i] = t[i]
<1>1. s \o t \in Seq(T) /\ Len(s \o t) = Len(s) + Len(t)
  OBVIOUS
<1>2. \A i \in 1 .. Len(s) : (s \o t)[i] = s[i]
  OBVIOUS
<1>3. \A i \in 1 .. Len(t) : (s \o t)[Len(s) + i] = t[i]
  OBVIOUS
<1> QED
  BY <1>1, <1>2, <1>3

(* A line of .data is in one of three sections.                            *)
LEMMA Sections ==
  ASSUME LitTable(string_table), VarTable(string_vars), NEW d \in Seq(Line),
         data = d \o LiteralSection \o StringSection
  PROVE  LET a == Len(d)
             b == Len(string_table)
             c == Len(string_vars)
         IN /\ a \in Nat /\ b \in Nat /\ c \in Nat
            /\ DOMAIN data = 1 .. a + b + c
            /\ \A j \in 1 .. a : data[j] = d[j]
            /\ \A h \in 1 .. b : data[a + h] = Asciiz(StrLabel[h], string_table[h])
            /\ \A k \in 1 .. c : data[a + b + k] = Asciiz(string_vars[k].name, string_vars[k].value)
            /\ \A j \in 1 .. a + b + c : \/ j \in 1 .. a
                                         \/ \E h \in 1 .. b : j = a + h
                                         \/ \E k \in 1 .. c : j = a + b + k
<1> DEFINE a == Len(d)
           b == Len(string_table)
           c == Len(string_vars)
           L == LiteralSection
           S == StringSection
<1>1. /\ L \in Seq(Line) /\ S \in Seq(Line) /\ Len(L) = b /\ Len(S) = c
      /\ \A h \in 1 .. b : L[h] = Asciiz(StrLabel[h], string_table[h])
      /\ \A k \in 1 .. c : S[k] = Asciiz(string_vars[k].name, string_vars[k].value)
  BY StringLines
<1>2. a \in Nat /\ b \in Nat /\ c \in Nat
  BY DEF LitTable, VarTable
<1> DEFINE dl == d \o L
<1>4. data = dl \o S
  OBVIOUS
<1> HIDE DEF L, S
<1> HIDE DEF a, b, c
<1>3. /\ dl \in Seq(Line) /\ Len(dl) = a + b
      /\ \A j \in 1 .. a : dl[j] = d[j]
      /\ \A h \in 1 .. b : dl[a + h] = L[h]
  <2>1. /\ dl \in Seq(Line) /\ Len(dl) = Len(d) + Len(L)
        /\ \A j \in 1 .. Len(d) : dl[j] = d[j]
        /\ \A h \in 1 .. Len(L) : dl[Len(d) + h] = L[h]
    <3>1. L \in Seq(Line)
      BY <1>1
    <3> QED
      BY <3>1, Concatenated
  <2>2. Len(d) = a /\ Len(L) = b
    BY <1>1 DEF a
  <2> HIDE DEF dl
  <2> QED
    BY <2>1, <2>2
<1> HIDE DEF dl
<1>5. /\ data \in Seq(Line) /\ Len(data) = a + b + c
      /\ \A j \in 1 .. a + b : data[j] = dl[j]
      /\ \A k \in 1 .. c : data[a + b + k] = S[k]
  <2>1. /\ data \in Seq(Line) /\ Len(data) = Len(dl) + Len(S)
        /\ \A j \in 1 .. Len(dl) : data[j] = dl[j]
        /\ \A k \in 1 .. Len(S) : data[Len(dl) + k] = S[k]
    <3>1. S \in Seq(Line) /\ dl \in Seq(Line)
      BY <1>1, <1>3
    <3> QED
      BY <1>4, <3>1, Concatenated
  <2>2. Len(dl) = a + b /\ Len(S) = c
    BY <1>1, <1>3
  <2> QED
    BY <2>1, <2>2
<1>10. DOMAIN data = 1 .. a + b + c
  BY <1>5
<1>6. \A j \in 1 .. a : data[j] = d[j]
  BY <1>2, <1>3, <1>5
<1>7. \A h \in 1 .. b : data[a + h] = Asciiz(StrLabel[h], string_table[h])
  BY <1>1, <1>2, <1>3, <1>5
<1>8. \A k \in 1 .. c : data[a + b + k] = Asciiz(string_vars[k].name, string_vars[k].value)
  BY <1>1, <1>5
<1>9. ASSUME NEW j \in 1 .. a + b + c
      PROVE  \/ j \in 1 .. a
             \/ \E h \in 1 .. b : j = a + h
             \/ \E k \in 1 .. c : j = a + b + k
  <2>1. CASE j > a /\ j <= a + b
    <3>1. j - a \in 1 .. b /\ j = a + (j - a)
      BY <1>2, <2>1
    <3> QED
      BY <3>1
  <2>2. CASE j > a + b
    <3>1. j - (a + b) \in 1 .. c /\ j = a + b + (j - (a + b))
      BY <1>2, <2>2
    <3> QED
      BY <3>1
  <2> QED
    BY <1>2, <2>1, <2>2
<1> QED
  BY <1>2, <1>6, <1>7, <1>8, <1>9, <1>10 DEF a, b, c

(* Every step keeps the story of .data.                                    *)
LEMMA EarlyData ==
  ASSUME Shape, DataInv,
         EndOfProgram \/ RegisterLabel \/ \E item \in Item : Collect(item)
  PROVE  DataInv'
<1>1. /\ phase \in {"collect", "labels"} /\ phase' \in {"collect", "labels"}
      /\ data' = data
  BY DEF Collect, EndOfProgram, RegisterLabel
<1>2. NamesAreShort' => NamesAreShort
  BY ShortBefore, ProgramStands DEF EndOfProgram, RegisterLabel
<1> QED
  BY <1>1, <1>2 DEF DataInv

(* The steps after the labels print what DataInv says.                     *)
LEMMA LateData ==
  ASSUME Shape, TableInv(symtab), LiteralTable, Progress, TableInvs, DataInv,
         EndOfLabels \/ PrintData \/ PrintStrings \/ Generate \/ Exit \/ Finished
  PROVE  DataInv'
<1>0. program' = program
  BY DEF EndOfLabels, PrintData, PrintStrings, Generate, Exit, Finished, vars
<1> SUFFICES ASSUME NamesAreShort
             PROVE  /\ phase' \in {"collect", "labels"} => data' = << >>
                    /\ phase' = "data" => IntegerLines(data', symtab'.table, pc' - 1)
                    /\ phase' \in {"code", "done"} =>
                         \E d \in Seq(Line) :
                           /\ IntegerLines(d, symtab'.table, Len(symtab'.table))
                           /\ data' = d \o LiteralSection' \o StringSection'
  BY <1>0, ProgramStands DEF DataInv
<1>1. TablesAgree
  BY DEF TableInvs
<1>2. /\ symtab'.table = symtab.table
      /\ LiteralSection' = LiteralSection /\ StringSection' = StringSection
  <2>1. symtab'.table = symtab.table /\ string_table' = string_table /\ string_vars' = string_vars
    BY <1>1, QuietStep DEF Idle
  <2> QED
    BY <2>1 DEF LiteralSection, StringSection
<1>3. /\ symtab.table \in Seq(Entry) /\ Len(symtab.table) \in Nat /\ pc \in Nat \ {0}
  BY TableLength DEF Shape
<1>4. CASE EndOfLabels
  BY <1>2, <1>3, <1>4, NoLines DEF EndOfLabels, DataInv
<1>5. CASE PrintData
  <2>1. /\ phase = "data" /\ phase' = "data" /\ pc <= Len(symtab.table) /\ pc' = pc + 1
        /\ data' = IF IsInteger(symtab.table[pc])
                   THEN Append(data, Space(symtab.table[pc].name)) ELSE data
    BY <1>5 DEF PrintData
  <2>2. IntegerLines(data, symtab.table, pc - 1)
    BY <2>1 DEF DataInv
  <2>3. \A i, j \in 1 .. Len(symtab.table) :
          symtab.table[i].name = symtab.table[j].name => i = j
    BY <1>1 DEF TablesAgree, TableStory
  <2>4. pc - 1 \in Nat /\ (pc - 1) + 1 = pc /\ pc' - 1 = pc
    BY <1>3, <2>1
  <2>5. IntegerLines(data', symtab.table, (pc - 1) + 1)
    BY <1>3, <2>1, <2>2, <2>3, <2>4, IntegerLinesNext
  <2> QED
    BY <1>2, <2>1, <2>4, <2>5
<1>6. CASE PrintStrings
  <2>1. /\ phase = "data" /\ phase' = "code" /\ pc > Len(symtab.table)
        /\ data' = data \o LiteralSection \o StringSection
    BY <1>6 DEF PrintStrings
  <2>2. IntegerLines(data, symtab.table, pc - 1)
    BY <2>1 DEF DataInv
  <2>3. pc - 1 = Len(symtab.table)
    BY <1>3, <2>1 DEF Progress
  <2>4. data \in Seq(Line)
    BY <2>2 DEF IntegerLines
  <2> QED
    BY <1>2, <2>1, <2>2, <2>3, <2>4
<1>7. CASE Generate \/ Exit \/ Finished
  <2>1. phase \in {"code", "done"} /\ phase' \in {"code", "done"} /\ data' = data
    BY <1>7 DEF Generate, Exit, Finished, vars
  <2> QED
    BY <1>2, <2>1 DEF DataInv
<1> QED
  BY <1>4, <1>5, <1>6, <1>7


-----------------------------------------------------------------------------
(* .code.                                                                  *)

(* An item becomes the instruction that BecameCode says.                   *)
LEMMA GeneratedOp ==
  ASSUME NEW item \in Item, Generated(item), string_table' = string_table
  PROVE  \E op : /\ code' = Append(code, op)
                 /\ BecameCode(item, op, symtab, string_table)
<1>1. CASE item.kind \in {"bare", "decl_init", "decl_str", "assign_str", "target"}
  <2>1. code' = Append(code, NoOp)
    BY <1>1 DEF Generated
  <2>2. BecameCode(item, NoOp, symtab, string_table)
    BY <1>1 DEF BecameCode
  <2> QED
    BY <2>1, <2>2
<1>2. CASE item.kind \in {"ref", "store"}
  <2> DEFINE op == Op(IF item.kind = "ref" THEN "ld" ELSE "sd", item.name)
  <2>1. code' = Append(code, op)
    BY <1>2 DEF Generated
  <2>2. BecameCode(item, op, symtab, string_table)
    BY <1>2 DEF BecameCode, Named
  <2> QED
    BY <2>1, <2>2
<1>3. CASE item.kind = "print_var"
  <2> DEFINE op == Op(IF IsStringVariable(symtab, item.name) THEN "print_str" ELSE "print_int",
                      item.name)
  <2>1. code' = Append(code, op)
    BY <1>3 DEF Generated
  <2>2. BecameCode(item, op, symtab, string_table)
    BY <1>3 DEF BecameCode
  <2> QED
    BY <2>1, <2>2
<1>4. CASE item.kind = "print_lit"
  <2>1. GetStringLabel(string_table, item.lit) = string_table
    BY <1>4 DEF Generated
  <2>2. PICK op : /\ code' = Append(code, op)
                  /\ \/ \E i \in Positions(string_table, item.lit) : op = Op("print_str", StrLabel[i])
                     \/ Positions(string_table, item.lit) = {} /\ op = NoOp
    BY <1>4, <2>1 DEF Generated
  <2>3. BecameCode(item, op, symtab, string_table)
    BY <1>4, <2>2 DEF BecameCode, Named
  <2> QED
    BY <2>2, <2>3
<1> QED
  BY <1>1, <1>2, <1>3, <1>4, ItemFields DEF Named

(* What an item became depends on the array only, not on the counters.     *)
LEMMA SameTableSameCode ==
  ASSUME NEW s, NEW q, q.table = s.table, NEW item, NEW op, NEW table,
         BecameCode(item, op, s, table)
  PROVE  BecameCode(item, op, q, table)
<1>1. IsStringVariable(q, item.name) = IsStringVariable(s, item.name)
  BY DEF IsStringVariable, FirstMatch, Matches
<1> QED
  BY <1>1 DEF BecameCode

(* The second walk writes it behind those of the items before.             *)
LEMMA GenerateCode ==
  ASSUME GeneratorTypes, LiteralTable, TableInvs, CodeInv, Generate
  PROVE  CodeInv'
<1>1. /\ phase = "code" /\ pc \in 1 .. Len(program) /\ program[pc] \in Item
      /\ Generated(program[pc]) /\ program' = program
  BY DEF Generate, GeneratorTypes, Shape
<1> SUFFICES ASSUME NamesAreShort
             PROVE  \A i \in 1 .. Len(code') :
                      BecameCode(program[i], code'[i], symtab', string_table')
  BY <1>1, ProgramStands DEF CodeInv
<1>2. string_table' = string_table
  BY GeneratedLiteral DEF GeneratorTypes
<1>3. symtab'.table = symtab.table
  BY GenerateIdle DEF GeneratorTypes, TableInvs, Idle
<1>4. PICK op : /\ code' = Append(code, op)
                /\ BecameCode(program[pc], op, symtab, string_table)
  BY <1>1, <1>2, GeneratedOp
<1>5. code \in Seq(Instruction) /\ Len(code) = pc - 1 /\ pc \in Nat
  BY <1>1 DEF GeneratorTypes, Progress
<1>6. /\ Len(code') = pc /\ code'[pc] = op
      /\ \A i \in 1 .. pc - 1 : code'[i] = code[i]
      /\ \A i \in 1 .. pc : i \in 1 .. pc - 1 \/ i = pc
  BY <1>4, <1>5
<1>7. \A i \in 1 .. pc : BecameCode(program[i], code'[i], symtab, string_table)
  BY <1>4, <1>5, <1>6 DEF CodeInv
<1> QED
  BY <1>2, <1>3, <1>6, <1>7, SameTableSameCode

(* No step changes an instruction that was written.                        *)
LEMMA CodeStep ==
  ASSUME GeneratorTypes, LiteralTable, TableInvs, CodeInv, [Next]_vars
  PROVE  CodeInv'
<1>1. CASE Generate
  BY <1>1, GenerateCode
<1>2. CASE EndOfProgram \/ RegisterLabel \/ Written \/ \E item \in Item : Collect(item)
  <2>1. phase \in {"collect", "labels", "data"} /\ code' = code
    BY <1>2 DEF EndOfProgram, RegisterLabel, Written, EndOfLabels, PrintData, PrintStrings, Collect
  <2>2. Len(code') = 0
    BY <2>1 DEF GeneratorTypes, Progress
  <2> QED
    BY <2>2 DEF CodeInv
<1>3. CASE Exit \/ Finished \/ UNCHANGED vars
  <2>1. UNCHANGED <<program, symtab, string_table, code>>
    BY <1>3 DEF Exit, Finished, vars
  <2> QED
    BY <2>1, ProgramStands DEF CodeInv
<1> QED
  BY <1>1, <1>2, <1>3 DEF Next, Written

-----------------------------------------------------------------------------
(* All of it together.                                                     *)

Story == GeneratorTypes /\ AlignInv /\ StoryInv

(* The story begins, ...                                                   *)
LEMMA StoryInit == Init => StoryInv
<1> SUFFICES ASSUME Init  PROVE StoryInv
  OBVIOUS
<1>1. /\ Len(program) = 0 /\ DOMAIN program = {} /\ program = << >>
      /\ symtab = EmptyTable /\ Len(symtab.table) = 0
      /\ symtab.table = << >> /\ symtab.next_offset = 0 /\ symtab.next_reg = REG_MIN
      /\ Len(string_table) = 0 /\ Len(string_vars) = 0 /\ Len(code) = 0
      /\ phase = "collect" /\ data = << >>
  BY DEF Init, SymbolInit, EmptyTable
<1>2. Declared = {} /\ Literals = {} /\ StringsGiven = {}
  BY <1>1 DEF Declared, DeclaredAs, Literals, StringsGiven
<1>3. ProgramInv
  BY <1>1 DEF ProgramInv, DeclaredAs
<1>4. LiteralTable /\ StringTable
  BY <1>1, <1>2 DEF LiteralTable, StringTable
<1>5. Contiguous(symtab)
  BY <1>1 DEF Contiguous
<1>6. TablesAgree
  <2>1. TableStory(symtab.table) /\ AllCovered
    BY <1>1, <1>2 DEF TableStory, AllCovered
  <2>2. RegistersSpent
    BY <1>1, LimitAssumption DEF RegistersSpent, FirstReg
  <2>3. AllEntered /\ SymbolsCounted /\ LabelsLast
    BY <1>1 DEF AllEntered, SymbolsCounted, LabelsLast
  <2>4. LabelsFound
    BY <1>1 DEF LabelsFound, Registered
  <2> QED
    BY <2>1, <2>2, <2>3, <2>4 DEF TablesAgree
<1>7. DataInv /\ CodeInv
  BY <1>1 DEF DataInv, CodeInv
<1> QED
  BY <1>3, <1>4, <1>5, <1>6, <1>7 DEF StoryInv, TableInvs

(* ... and every step goes on with it.                                     *)
LEMMA StoryStep == Story /\ [Next]_vars => Story'
<1> SUFFICES ASSUME Story, [Next]_vars  PROVE Story'
  OBVIOUS
<1>1. /\ Shape /\ TableInv(symtab) /\ VarTable(string_vars) /\ Progress /\ GeneratorTypes
      /\ ProgramInv /\ LiteralTable /\ StringTable /\ Contiguous(symtab) /\ TableInvs
      /\ DataInv /\ CodeInv
  BY DEF Story, GeneratorTypes, StoryInv
<1>2. GeneratorTypes' /\ AlignInv'
  BY GeneratorTypesStep, AlignStep DEF Story
<1>3. Shape' /\ TableInv(symtab')
  BY <1>2 DEF AlignInv
<1>4. Contiguous(symtab')
  BY <1>1, ContiguousStep
<1>5. CodeInv'
  BY <1>1, CodeStep
<1>6. ASSUME NEW item \in Item, Collect(item)
      PROVE  ProgramInv' /\ LiteralTable' /\ StringTable' /\ TableInvs' /\ DataInv'
  <2>1. OnlyVariables(symtab) /\ OnlyVariables(symtab')
    BY <1>2, <1>6 DEF Story, AlignInv, Collect
  <2>2. ProgramInv'
    BY <1>1, <1>6, CollectProgram
  <2>3. LiteralTable'
    BY <1>1, <1>3, <1>6, CollectLiterals
  <2>4. StringTable'
    BY <1>1, <1>6, CollectStrings
  <2>5. TableInvs'
    BY <1>1, <1>3, <1>6, <2>1, CollectTables
  <2>6. DataInv'
    BY <1>1, <1>6, EarlyData
  <2> QED
    BY <2>2, <2>3, <2>4, <2>5, <2>6
<1>7. ASSUME UNCHANGED <<program, string_table, string_vars>>
      PROVE  ProgramInv' /\ LiteralTable' /\ StringTable'
  <2>1. ProgramInv'
    BY <1>1, <1>7, ProgramStands DEF ProgramInv
  <2>2. LiteralTable' /\ StringTable'
    BY <1>1, <1>7, LiteralsStand, StringsStand
  <2> QED
    BY <2>1, <2>2
<1>9. CASE EndOfProgram
  <2>1. OnlyVariables(symtab)
    BY <1>9 DEF Story, AlignInv, EndOfProgram
  <2>2. TableInvs' /\ DataInv'
    BY <1>1, <1>9, <2>1, EndOfProgramTables, EarlyData
  <2>3. UNCHANGED <<program, string_table, string_vars>>
    BY <1>9 DEF EndOfProgram
  <2> QED
    BY <1>2, <1>4, <1>5, <1>7, <2>2, <2>3 DEF Story, StoryInv
<1>10. CASE RegisterLabel
  <2>1. TableInvs' /\ DataInv'
    BY <1>1, <1>10, LabelTables, EarlyData
  <2>2. UNCHANGED <<program, string_table, string_vars>>
    BY <1>10 DEF RegisterLabel
  <2> QED
    BY <1>2, <1>4, <1>5, <1>7, <2>1, <2>2 DEF Story, StoryInv
<1>11. CASE EndOfLabels \/ PrintData \/ PrintStrings \/ Generate \/ Exit \/ Finished
  <2>1. TableInvs' /\ DataInv'
    BY <1>1, <1>11, QuietTables, LateData
  <2>2. UNCHANGED <<program, string_table, string_vars>>
    BY <1>1, <1>11, GeneratedLiteral
       DEF EndOfLabels, PrintData, PrintStrings, Generate, Exit, Finished, vars
  <2> QED
    BY <1>2, <1>4, <1>5, <1>7, <2>1, <2>2 DEF Story, StoryInv
<1>12. CASE UNCHANGED vars
  <2>1. /\ UNCHANGED <<program, string_table, string_vars, symtab, phase, pc, data>>
    BY <1>12 DEF vars
  <2>2. TableInvs'
    <3>1. Registered' = Registered
      BY <2>1 DEF Registered
    <3>2. TableStory(symtab.table)' = TableStory(symtab.table) /\ AllCovered' = AllCovered
      BY <2>1, ProgramStands DEF TableStory, AllCovered
    <3>3. /\ RegistersSpent' = RegistersSpent /\ AllEntered' = AllEntered
          /\ SymbolsCounted' = SymbolsCounted /\ LabelsFound' = LabelsFound
      BY <2>1, <3>1, ProgramStands DEF RegistersSpent, AllEntered, SymbolsCounted, LabelsFound
    <3>4. LabelsLast' = LabelsLast
      BY <2>1, <3>1, ProgramStands DEF LabelsLast, LabelsAtEnd
    <3>5. NamesAreShort' = NamesAreShort
      BY <2>1, ProgramStands
    <3> QED
      BY <1>1, <3>2, <3>3, <3>4, <3>5 DEF TableInvs, TablesAgree
  <2>3. DataInv'
    BY <1>1, <2>1, ProgramStands DEF DataInv, LiteralSection, StringSection
  <2> QED
    BY <1>2, <1>4, <1>5, <1>7, <2>1, <2>2, <2>3 DEF Story, StoryInv
<1> QED
  BY <1>2, <1>4, <1>5, <1>6, <1>9, <1>10, <1>11, <1>12 DEF Next, Story, StoryInv

(* The tables, the data and the code tell the story of the program.        *)
THEOREM StoryInvariant == Spec => []Story
<1>1. Init => Story
  <2> SUFFICES ASSUME Init  PROVE Story
    OBVIOUS
  <2> QED
    BY GeneratorTypesInit, AlignInit, StoryInit DEF Story
<1> QED
  BY <1>1, StoryStep, PTL DEF Spec


-----------------------------------------------------------------------------
(* What the code and the data can count on when the walks are over.        *)

(* The parts of the story, one by one.                                     *)
LEMMA StoryParts ==
  ASSUME Story
  PROVE  /\ Shape /\ TableInv(symtab) /\ GeneratorTypes /\ Progress
         /\ LitTable(string_table) /\ VarTable(string_vars)
         /\ ProgramInv /\ LiteralTable /\ StringTable /\ Contiguous(symtab)
         /\ NamesAreShort => TablesAgree
         /\ DataInv /\ CodeInv
  BY DEF Story, GeneratorTypes, StoryInv, Shape, TableInvs

(* When the literals fit, each printed one is in string_table.             *)
LEMMA LiteralIsStored ==
  ASSUME Story, LiteralsFit, NEW x \in Literals
  PROVE  \E h \in 1 .. Len(string_table) : string_table[h] = x
<1> SUFFICES ASSUME \A h \in 1 .. Len(string_table) : string_table[h] # x  PROVE FALSE
  OBVIOUS
<1>1. /\ Len(string_table) \in Nat /\ IsFiniteSet(Literals)
      /\ MAX_STRINGS \in Nat /\ Cardinality(Literals) \in Nat
  BY StoryParts, FiniteProgram, FS_CardinalityType, AssemblyAssumption DEF LitTable
<1>2. Len(string_table) >= MAX_STRINGS
  BY StoryParts DEF LiteralTable
<1>3. Len(string_table) <= Cardinality(Literals) - 1
  BY <1>1, StoryParts, DistinctButOne DEF LiteralTable
<1> QED
  BY <1>1, <1>2, <1>3 DEF LiteralsFit

(* When the string variables fit, each one is there with its last value.   *)
LEMMA StringIsStored ==
  ASSUME Story, VariablesFit, NEW n \in StringsGiven
  PROVE  \E k \in 1 .. Len(string_vars) :
           string_vars[k].name = n /\ string_vars[k].value = LastGiven(n)
<1> DEFINE m == Len(string_vars)
           f == [k \in 1 .. m |-> string_vars[k].name]
<1>1. /\ m \in Nat /\ IsFiniteSet(StringsGiven)
      /\ MAX_STRINGS \in Nat /\ Cardinality(StringsGiven) \in Nat
  BY StoryParts, FiniteProgram, FS_CardinalityType, AssemblyAssumption DEF VarTable
<1>2. /\ \A k \in 1 .. m : f[k] = string_vars[k].name /\ f[k] \in StringsGiven
      /\ \A k, l \in 1 .. m : f[k] = f[l] => k = l
  BY StoryParts DEF StringTable
<1> HIDE DEF f, m
<1>3. CASE \E k \in 1 .. m : string_vars[k].name = n
  BY <1>3, StoryParts DEF StringTable, m
<1>4. CASE \A k \in 1 .. m : string_vars[k].name # n
  <2>1. m >= MAX_STRINGS
    BY <1>4, StoryParts DEF StringTable, m
  <2>2. m <= Cardinality(StringsGiven) - 1
    BY <1>1, <1>2, <1>4, DistinctButOne
  <2> QED
    BY <1>1, <2>1, <2>2 DEF VariablesFit
<1> QED
  BY <1>3, <1>4

(* The encoder finds the offset of a name in the table.                    *)
LEMMA FoundOffset ==
  ASSUME NEW s, s.table \in Seq(Entry), NEW n,
         \E i \in 1 .. Len(s.table) : s.table[i].name = n
  PROVE  GetOffsetOfTheSymbol(s, n) # -1
<1>1. Matches(s, n) # {}
  BY MatchMembers
<1>2. FirstMatch(s, n) \in 1 .. Len(s.table)
  BY <1>1, FirstMatchExists DEF Matches
<1>3. s.table[FirstMatch(s, n)] \in Entry
  BY <1>2
<1>4. s.table[FirstMatch(s, n)].offset \in Nat
  BY <1>3 DEF Entry
<1> QED
  BY <1>1, <1>4 DEF GetOffsetOfTheSymbol

(* After the last PrintStrings .data has all three sections.               *)
LEMMA DataSections ==
  ASSUME Story, NamesAreShort, phase \in {"code", "done"}
  PROVE  \E d \in Seq(Line) : /\ IntegerLines(d, symtab.table, Len(symtab.table))
                              /\ data = d \o LiteralSection \o StringSection
  BY StoryParts DEF DataInv

(* The lines of the literals and of the strings.                           *)
LEMMA StringLinesPresent ==
  ASSUME Story, NamesAreShort, phase \in {"code", "done"}
  PROVE  /\ \A h \in 1 .. Len(string_table) :
              \E j \in DOMAIN data : data[j] = Asciiz(StrLabel[h], string_table[h])
         /\ \A k \in 1 .. Len(string_vars) :
              \E j \in DOMAIN data : data[j] = Asciiz(string_vars[k].name, string_vars[k].value)
<1>1. PICK d \in Seq(Line) : data = d \o LiteralSection \o StringSection
  BY DataSections
<1> DEFINE a == Len(d)
           b == Len(string_table)
           c == Len(string_vars)
<1>2. /\ a \in Nat /\ b \in Nat /\ c \in Nat
      /\ DOMAIN data = 1 .. a + b + c
      /\ \A h \in 1 .. b : data[a + h] = Asciiz(StrLabel[h], string_table[h])
      /\ \A k \in 1 .. c : data[a + b + k] = Asciiz(string_vars[k].name, string_vars[k].value)
  BY <1>1, StoryParts, Sections
<1> HIDE DEF a, b, c
<1>3. \A h \in 1 .. b : a + h \in 1 .. a + b + c
  BY <1>2
<1>4. \A k \in 1 .. c : a + b + k \in 1 .. a + b + c
  BY <1>2
<1> QED
  BY <1>2, <1>3, <1>4 DEF b, c

(* A declared variable is in the symbol table and in .data, as what it is. *)
LEMMA VariableIsDefined ==
  ASSUME Story, NamesAreShort, VariablesFit, phase \in {"code", "done"}, NEW n \in Declared
  PROVE  /\ GetOffsetOfTheSymbol(symtab, n) # -1
         /\ IsStringVariable(symtab, n) <=> IsDeclStr(n)
         /\ \E j \in DOMAIN data : data[j].label = n
         /\ IsDeclStr(n) => \E j \in DOMAIN data : data[j] = Asciiz(n, LastGiven(n))
<1>1. symtab.table \in Seq(Entry) /\ Len(symtab.table) \in Nat
  BY StoryParts, TableLength
<1>2. PICK i \in 1 .. Len(symtab.table) : IsVariable(symtab.table[i]) /\ symtab.table[i].name = n
  BY StoryParts DEF TablesAgree, AllEntered, HasEntry
<1>3. \A p, q \in 1 .. Len(symtab.table) : symtab.table[p].name = symtab.table[q].name => p = q
  BY StoryParts DEF TablesAgree, TableStory
<1>4. symtab.table[i].is_string_var <=> IsDeclStr(n)
  BY <1>2, StoryParts DEF TablesAgree, TableStory
<1>5. IsStringVariable(symtab, n) = symtab.table[i].is_string_var
  BY <1>1, <1>2, <1>3, OneMatch
<1>6. GetOffsetOfTheSymbol(symtab, n) # -1
  BY <1>1, <1>2, FoundOffset
<1>7. n \in Ident /\ n \in Name
  BY AssemblyAssumption DEF Declared
<1>8. ASSUME IsDeclStr(n)
      PROVE  \E j \in DOMAIN data : data[j] = Asciiz(n, LastGiven(n)) /\ data[j].label = n
  <2>1. n \in StringsGiven
    <3>1. PICK l \in Literal, p \in DOMAIN program : program[p] = DeclStr(n, l)
      BY <1>8 DEF IsDeclStr
    <3> QED
      BY <3>1, GivenMembers, StoryParts, ProgramDomain DEF DeclStr
  <2>2. PICK k \in 1 .. Len(string_vars) :
          string_vars[k].name = n /\ string_vars[k].value = LastGiven(n)
    BY <2>1, StringIsStored
  <2>3. \E j \in DOMAIN data : data[j] = Asciiz(string_vars[k].name, string_vars[k].value)
    BY StringLinesPresent
  <2> QED
    BY <2>2, <2>3 DEF Asciiz
<1>9. ASSUME ~IsDeclStr(n)
      PROVE  \E j \in DOMAIN data : data[j].label = n
  <2>1. PICK d \in Seq(Line) : /\ IntegerLines(d, symtab.table, Len(symtab.table))
                               /\ data = d \o LiteralSection \o StringSection
    BY DataSections
  <2>2. IsInteger(symtab.table[i])
    BY <1>2, <1>4, <1>9 DEF IsInteger
  <2>3. PICK j \in 1 .. Len(d) : d[j] = Space(n)
    BY <1>2, <2>1, <2>2 DEF IntegerLines
  <2>4. j \in DOMAIN data /\ data[j] = d[j]
    <3> DEFINE a == Len(d)
               b == Len(string_table)
               c == Len(string_vars)
    <3>1. /\ a \in Nat /\ b \in Nat /\ c \in Nat
          /\ DOMAIN data = 1 .. a + b + c
          /\ \A k \in 1 .. a : data[k] = d[k]
      BY <2>1, StoryParts, Sections
    <3> HIDE DEF b, c
    <3>2. j \in 1 .. a + b + c
      BY <3>1
    <3> QED
      BY <3>1, <3>2
  <2> QED
    BY <2>3, <2>4 DEF Space
<1> QED
  BY <1>4, <1>5, <1>6, <1>8, <1>9

(* An item of the finished code.                                           *)
LEMMA FinishedItem ==
  ASSUME Story, NamesAreShort, phase = "done", NEW i \in DOMAIN program
  PROVE  /\ program[i] \in Item
         /\ BecameCode(program[i], code[i], symtab, string_table)
<1>1. i \in 1 .. Len(program) /\ program[i] \in Item
  BY StoryParts DEF Shape
<1>2. Len(code) = Len(program)
  BY StoryParts DEF Progress
<1> QED
  BY <1>1, <1>2, StoryParts DEF CodeInv

(* At the end each item has become one instruction or none.                *)
LEMMA FinishedDomain ==
  ASSUME Story, phase = "done"
  PROVE  DOMAIN code = DOMAIN program
<1>1. Len(code) = Len(program) /\ code \in Seq(Instruction) /\ program \in Seq(Item)
  BY StoryParts DEF Progress, GeneratorTypes, Shape
<1> QED
  BY <1>1

(* The references of the finished code.                                    *)
LEMMA StoryResolves == Story => ReferencesResolve
<1> SUFFICES ASSUME Story, phase = "done", NamesAreShort, VariablesFit, LiteralsFit, SymbolsFit,
                    NEW i \in DOMAIN code, code[i] # NoOp
             PROVE  /\ \E j \in DOMAIN data : data[j].label = code[i].label
                    /\ GetOffsetOfTheSymbol(symtab, code[i].label) # -1
  BY DEF ReferencesResolve
<1> DEFINE item == program[i]
<1>1. /\ item \in Item /\ i \in 1 .. Len(program)
      /\ BecameCode(item, code[i], symtab, string_table)
  BY FinishedDomain, FinishedItem, StoryParts, ProgramDomain
<1>2. CASE item.kind \in {"ref", "store", "print_var"}
  <2>1. code[i].label = item.name
    BY <1>1, <1>2 DEF BecameCode, Op
  <2>2. item.name \in Declared
    BY <1>1, <1>2, StoryParts DEF ProgramInv
  <2> HIDE DEF item
  <2> QED
    BY <2>1, <2>2, VariableIsDefined
<1>3. CASE item.kind = "print_lit"
  <2>1. PICK h \in Positions(string_table, item.lit) : code[i] = Op("print_str", StrLabel[h])
    BY <1>1, <1>3 DEF BecameCode
  <2>2. h \in 1 .. Len(string_table) /\ code[i].label = StrLabel[h]
    BY <2>1, StoryParts DEF Positions, Op, LitTable
  <2>3. \E j \in DOMAIN data : data[j] = Asciiz(StrLabel[h], string_table[h])
    BY <2>2, StringLinesPresent
  <2>4. Registered = Len(string_table)
    BY DEF Registered
  <2>5. \E k \in 1 .. Len(symtab.table) : symtab.table[k].name = StrLabel[h]
    BY <2>2, <2>4, StoryParts DEF TablesAgree, LabelsFound
  <2>6. GetOffsetOfTheSymbol(symtab, StrLabel[h]) # -1
    BY <2>5, StoryParts, TableLength, FoundOffset
  <2> QED
    BY <2>2, <2>3, <2>6 DEF Asciiz
<1>4. CASE item.kind \in Named \ {"ref", "store", "print_var"}
  BY <1>1, <1>4 DEF BecameCode
<1> QED
  BY <1>1, <1>2, <1>3, <1>4, ItemFields DEF Named

(* The three sections of .data, line by line.                              *)
SectionsFrom(a, b, c) ==
  /\ a \in Nat /\ b \in Nat /\ c \in Nat
  /\ DOMAIN data = 1 .. a + b + c
  /\ \A j \in 1 .. a : \E n \in Declared : ~IsDeclStr(n) /\ data[j] = Space(n)
  /\ \A i, j \in 1 .. a : data[i].label = data[j].label => i = j
  /\ VariablesFit => \A n \in Declared : ~IsDeclStr(n) => \E j \in 1 .. a : data[j] = Space(n)
  /\ \A h \in 1 .. b : data[a + h] = Asciiz(StrLabel[h], string_table[h])
  /\ \A k \in 1 .. c : data[a + b + k] = Asciiz(string_vars[k].name, string_vars[k].value)

LEMMA SectionLines ==
  ASSUME Story, NamesAreShort, phase \in {"code", "done"}
  PROVE  \E a \in Nat : SectionsFrom(a, Len(string_table), Len(string_vars))
<1>1. PICK d \in Seq(Line) : /\ IntegerLines(d, symtab.table, Len(symtab.table))
                             /\ data = d \o LiteralSection \o StringSection
  BY DataSections
<1> DEFINE a == Len(d)
           b == Len(string_table)
           c == Len(string_vars)
<1>2. /\ a \in Nat /\ b \in Nat /\ c \in Nat
      /\ DOMAIN data = 1 .. a + b + c
      /\ \A j \in 1 .. a : data[j] = d[j]
      /\ \A h \in 1 .. b : data[a + h] = Asciiz(StrLabel[h], string_table[h])
      /\ \A k \in 1 .. c : data[a + b + k] = Asciiz(string_vars[k].name, string_vars[k].value)
  BY <1>1, StoryParts, Sections
<1>3. ASSUME NEW j \in 1 .. a
      PROVE  \E n \in Declared : ~IsDeclStr(n) /\ data[j] = Space(n)
  <2>1. PICK i \in 1 .. Len(symtab.table) :
          IsInteger(symtab.table[i]) /\ d[j] = Space(symtab.table[i].name)
    BY <1>1 DEF IntegerLines
  <2>2. symtab.table[i].name \in Declared /\ ~IsDeclStr(symtab.table[i].name)
    BY <2>1, StoryParts DEF TablesAgree, TableStory, IsInteger
  <2> QED
    BY <1>2, <2>1, <2>2
<1>4. ASSUME NEW i \in 1 .. a, NEW j \in 1 .. a, data[i].label = data[j].label
      PROVE  i = j
  <2>1. d[i].label = d[j].label
    BY <1>2, <1>4
  <2> QED
    BY <1>1, <2>1 DEF IntegerLines
<1>5. ASSUME VariablesFit, NEW n \in Declared, ~IsDeclStr(n)
      PROVE  \E j \in 1 .. a : data[j] = Space(n)
  <2>1. PICK i \in 1 .. Len(symtab.table) :
          IsVariable(symtab.table[i]) /\ symtab.table[i].name = n
    BY <1>5, StoryParts DEF TablesAgree, AllEntered, HasEntry
  <2>2. symtab.table[i].is_string_var <=> IsDeclStr(n)
    BY <2>1, StoryParts DEF TablesAgree, TableStory
  <2>3. IsInteger(symtab.table[i])
    BY <1>5, <2>1, <2>2 DEF IsInteger
  <2>4. PICK j \in 1 .. a : d[j] = Space(n)
    BY <1>1, <2>1, <2>3 DEF IntegerLines
  <2> QED
    BY <1>2, <2>4
<1> HIDE DEF a, b, c
<1>6. SectionsFrom(a, b, c)
  BY <1>2, <1>3, <1>4, <1>5 DEF SectionsFrom
<1> QED
  BY <1>2, <1>6 DEF b, c

(* Every line is in one of the sections.                                   *)
LEMMA LineOfSection ==
  ASSUME NEW a, NEW b, NEW c, SectionsFrom(a, b, c), NEW j \in DOMAIN data
  PROVE  j \in 1 .. a \/ (\E h \in 1 .. b : j = a + h) \/ (\E k \in 1 .. c : j = a + b + k)
<1>1. a \in Nat /\ b \in Nat /\ c \in Nat /\ j \in 1 .. a + b + c
  BY DEF SectionsFrom
<1>2. CASE j <= a
  BY <1>1, <1>2
<1>3. CASE a < j /\ j <= a + b
  <2>1. j - a \in 1 .. b /\ j = a + (j - a)
    BY <1>1, <1>3
  <2> QED
    BY <2>1
<1>4. CASE a + b < j
  <2>1. j - (a + b) \in 1 .. c /\ j = a + b + (j - (a + b))
    BY <1>1, <1>4
  <2> QED
    BY <2>1
<1> QED
  BY <1>1, <1>2, <1>3, <1>4

(* The label of a line.                                                    *)
LEMMA LineLabels == \A n, l : Asciiz(n, l).label = n /\ Space(n).label = n
BY DEF Asciiz, Space

(* A label is that of one line, unless it is a name that means two things. *)
LEMMA StoryDefinesOnce == Story => LabelsDefinedOnce
<1> SUFFICES ASSUME Story, NamesAreShort,
                    NEW x \in DOMAIN data, NEW y \in DOMAIN data,
                    data[x].label = data[y].label,
                    ~(/\ data[x].label \in Declared
                      /\ IsLabel(data[x].label) \/ IsLate(data[x].label))
             PROVE  x = y
  BY DEF LabelsDefinedOnce
<1>1. phase \in {"collect", "labels", "data", "code", "done"}
  BY StoryParts DEF Progress
<1>2. CASE phase \in {"collect", "labels"}
  BY <1>2, StoryParts DEF DataInv
<1>3. CASE phase = "data"
  <2>1. IntegerLines(data, symtab.table, pc - 1)
    BY <1>3, StoryParts DEF DataInv
  <2>2. x \in 1 .. Len(data) /\ y \in 1 .. Len(data)
    BY <2>1 DEF IntegerLines
  <2> QED
    BY <2>1, <2>2 DEF IntegerLines
<1>4. CASE phase \in {"code", "done"}
  <2> DEFINE b == Len(string_table)
             c == Len(string_vars)
  <2>1. PICK a \in Nat : SectionsFrom(a, b, c)
    BY <1>4, SectionLines
  <2>2. ASSUME NEW j \in 1 .. a
        PROVE  data[j].label \in Declared /\ ~IsDeclStr(data[j].label)
    <3>1. PICK n \in Declared : ~IsDeclStr(n) /\ data[j] = Space(n)
      BY <2>1 DEF SectionsFrom
    <3>2. data[j].label = n
      BY <3>1, LineLabels
    <3> QED
      BY <3>1, <3>2
  <2>3. ASSUME NEW h \in 1 .. b
        PROVE  data[a + h].label = StrLabel[h] /\ IsLabel(StrLabel[h])
    <3>1. data[a + h] = Asciiz(StrLabel[h], string_table[h])
      BY <2>1 DEF SectionsFrom
    <3>2. h \in DOMAIN string_table
      BY StoryParts DEF LitTable
    <3> QED
      BY <3>1, <3>2 DEF IsLabel, Asciiz
  <2>4. ASSUME NEW k \in 1 .. c
        PROVE  /\ data[a + b + k].label = string_vars[k].name
               /\ string_vars[k].name \in Declared
               /\ IsDeclStr(string_vars[k].name) \/ IsLate(string_vars[k].name)
    <3>1. string_vars[k].name \in StringsGiven
      BY StoryParts DEF StringTable
    <3>2. data[a + b + k] = Asciiz(string_vars[k].name, string_vars[k].value)
      BY <2>1 DEF SectionsFrom
    <3>3. string_vars[k].name \in Declared
      BY <3>1, StoryParts, GivenIsDeclared
    <3> QED
      BY <3>1, <3>2, <3>3 DEF IsLate, Asciiz
  <2>5. \A i, j \in 1 .. a : data[i].label = data[j].label => i = j
    BY <2>1 DEF SectionsFrom
  <2>6. \A g, h \in 1 .. b : StrLabel[g] = StrLabel[h] => g = h
    BY <2>1, StoryParts, AssemblyAssumption, LabelAssumption DEF LitTable, SectionsFrom
  <2>7. \A k, l \in 1 .. c : string_vars[k].name = string_vars[l].name => k = l
    BY StoryParts DEF StringTable
  <2>8. /\ x \in 1 .. a \/ (\E h \in 1 .. b : x = a + h) \/ (\E k \in 1 .. c : x = a + b + k)
        /\ y \in 1 .. a \/ (\E h \in 1 .. b : y = a + h) \/ (\E k \in 1 .. c : y = a + b + k)
    BY <2>1, LineOfSection
  <2> HIDE DEF b, c
  <2>9. CASE x \in 1 .. a
    BY <2>2, <2>3, <2>4, <2>5, <2>8, <2>9
  <2>10. CASE \E h \in 1 .. b : x = a + h
    BY <2>2, <2>3, <2>4, <2>6, <2>8, <2>10
  <2>11. CASE \E k \in 1 .. c : x = a + b + k
    BY <2>2, <2>3, <2>4, <2>7, <2>8, <2>11
  <2> QED
    BY <2>8, <2>9, <2>10, <2>11
<1> QED
  BY <1>1, <1>2, <1>3, <1>4

(* The line with a label is the only one, unless the label is a variable   *)
(* whose name means two things: ...                                        *)
LEMMA OneLine ==
  ASSUME Story, NamesAreShort, NEW j \in DOMAIN data, NEW line, data[j].label = line.label,
         ~(line.label \in Declared /\ (IsLabel(line.label) \/ IsLate(line.label)))
  PROVE  DefinedOnce(line) <=> data[j] = line
<1>1. \A k \in DOMAIN data : data[k].label = line.label => k = j
  BY StoryDefinesOnce DEF LabelsDefinedOnce
<1> QED
  BY <1>1 DEF DefinedOnce

(* ... such a name has two lines, in different sections.                   *)
LEMMA TwoLines ==
  ASSUME Story, NamesAreShort, VariablesFit, phase \in {"code", "done"},
         NEW line, line.label \in Declared, IsLabel(line.label) \/ IsLate(line.label)
  PROVE  ~DefinedOnce(line)
<1> DEFINE n == line.label
           b == Len(string_table)
           c == Len(string_vars)
<1>1. PICK a \in Nat : SectionsFrom(a, b, c)
  BY SectionLines
<1>2. b \in Nat /\ c \in Nat /\ DOMAIN data = 1 .. a + b + c
  BY <1>1 DEF SectionsFrom
<1>3. ASSUME ~IsDeclStr(n)
      PROVE  \E j \in 1 .. a : data[j].label = n
  <2>1. PICK j \in 1 .. a : data[j] = Space(n)
    BY <1>1, <1>3 DEF SectionsFrom
  <2>2. data[j].label = n
    BY <2>1, LineLabels
  <2> QED
    BY <2>2
<1>4. ASSUME n \in StringsGiven
      PROVE  \E k \in 1 .. c : data[a + b + k].label = n
  <2>1. PICK k \in 1 .. c : string_vars[k].name = n
    BY <1>4, StringIsStored
  <2>2. data[a + b + k] = Asciiz(string_vars[k].name, string_vars[k].value)
    BY <1>1 DEF SectionsFrom
  <2>3. data[a + b + k].label = n
    BY <2>1, <2>2, LineLabels
  <2> QED
    BY <2>3
<1>5. ASSUME IsDeclStr(n)  PROVE n \in StringsGiven
  <2>1. PICK l \in Literal, p \in DOMAIN program : program[p] = DeclStr(n, l)
    BY <1>5 DEF IsDeclStr
  <2> QED
    BY <2>1, GivenMembers, StoryParts, ProgramDomain DEF DeclStr
<1>6. ASSUME IsLabel(n)
      PROVE  \E h \in 1 .. b : data[a + h].label = n
  <2>1. PICK h \in DOMAIN string_table : StrLabel[h] = n
    BY <1>6 DEF IsLabel
  <2>2. h \in 1 .. b
    BY <2>1, StoryParts DEF LitTable
  <2> QED
    <3>1. data[a + h] = Asciiz(StrLabel[h], string_table[h])
      BY <1>1, <2>2 DEF SectionsFrom
    <3>2. data[a + h].label = n
      BY <2>1, <3>1, LineLabels
    <3> QED
      BY <2>2, <3>2
<1> HIDE DEF b, c
<1>7. \E x, y \in DOMAIN data : x # y /\ data[x].label = n /\ data[y].label = n
  <2>1. \A j \in 1 .. a : j \in 1 .. a + b + c
    BY <1>2
  <2>2. \A h \in 1 .. b : a + h \in 1 .. a + b + c /\ a + h \notin 1 .. a
    BY <1>2
  <2>3. \A k \in 1 .. c : a + b + k \in 1 .. a + b + c /\ a + b + k \notin 1 .. a + b
    BY <1>2
  <2>4. \A h \in 1 .. b, k \in 1 .. c : a + h # a + b + k
    BY <1>2
  <2>5. \A j \in 1 .. a, k \in 1 .. c : j # a + b + k
    BY <1>2
  <2>6. CASE IsLabel(n) /\ ~IsDeclStr(n)
    BY <1>2, <1>3, <1>6, <2>1, <2>2, <2>6
  <2>7. CASE IsLabel(n) /\ IsDeclStr(n)
    BY <1>2, <1>4, <1>5, <1>6, <2>2, <2>3, <2>4, <2>7
  <2>8. CASE IsLate(n)
    BY <1>2, <1>3, <1>4, <2>1, <2>3, <2>5, <2>8 DEF IsLate
  <2> QED
    BY <2>6, <2>7, <2>8
<1> QED
  BY <1>7 DEF DefinedOnce

(* The prints of the finished code.                                        *)
LEMMA StoryPrints == Story => PrintsRightText
<1> SUFFICES ASSUME Story, phase = "done", NamesAreShort, VariablesFit, LiteralsFit,
                    NEW i \in DOMAIN program
             PROVE  /\ program[i].kind = "print_lit" =>
                         /\ code[i].op = "print_str"
                         /\ DefinedOnce(Asciiz(code[i].label, program[i].lit)) <=>
                              /\ Unescape[program[i].lit] = program[i].lit
                              /\ code[i].label \notin Declared
                    /\ program[i].kind = "print_var" /\ IsDeclStr(program[i].name) =>
                         /\ code[i] = Op("print_str", program[i].name)
                         /\ \A l \in Literal : Holds(program[i].name, i, l) =>
                              (DefinedOnce(Asciiz(program[i].name, l)) <=>
                                 l = LastGiven(program[i].name) /\ ~IsLabel(program[i].name))
                    /\ program[i].kind = "print_var" /\ ~IsDeclStr(program[i].name) =>
                         /\ code[i] = Op("print_int", program[i].name)
                         /\ DefinedOnce(Space(program[i].name)) <=>
                              ~IsLabel(program[i].name) /\ ~IsLate(program[i].name)
  BY DEF PrintsRightText
<1> DEFINE item == program[i]
<1>1. /\ item \in Item /\ i \in 1 .. Len(program)
      /\ BecameCode(item, code[i], symtab, string_table)
  BY FinishedItem, StoryParts, ProgramDomain
<1>2. ASSUME item.kind = "print_lit"
      PROVE  /\ code[i].op = "print_str"
             /\ DefinedOnce(Asciiz(code[i].label, item.lit)) <=>
                  Unescape[item.lit] = item.lit /\ code[i].label \notin Declared
  <2>1. Unescape[item.lit] \in Literals
    BY <1>1, <1>2, StoryParts, LiteralMembers
  <2>2. PICK g \in 1 .. Len(string_table) : string_table[g] = Unescape[item.lit]
    BY <2>1, LiteralIsStored
  <2>3. Positions(string_table, item.lit) # {}
    BY <2>2, StoryParts DEF Positions, LitTable
  <2>4. PICK h \in Positions(string_table, item.lit) : code[i] = Op("print_str", StrLabel[h])
    BY <1>1, <1>2, <2>3 DEF BecameCode
  <2>5. /\ h \in DOMAIN string_table /\ h \in 1 .. Len(string_table)
        /\ string_table[h] = Unescape[item.lit]
        /\ code[i].label = StrLabel[h] /\ code[i].op = "print_str"
    BY <2>4, StoryParts DEF Positions, Op, LitTable
  <2>6. IsLabel(code[i].label)
    BY <2>5 DEF IsLabel
  <2>7. PICK j \in DOMAIN data : data[j] = Asciiz(code[i].label, Unescape[item.lit])
    BY <2>5, StringLinesPresent
  <2> DEFINE line == Asciiz(code[i].label, item.lit)
  <2>8. /\ line.label = code[i].label /\ data[j].label = code[i].label
        /\ data[j] = line <=> Unescape[item.lit] = item.lit
    BY <2>7 DEF Asciiz
  <2> HIDE DEF line, item
  <2>9. CASE code[i].label \in Declared
    <3>1. line.label \in Declared /\ IsLabel(line.label)
      BY <2>6, <2>8, <2>9
    <3>2. ~DefinedOnce(line)
      BY <3>1, TwoLines
    <3> QED
      BY <2>5, <2>9, <3>2 DEF line
  <2>10. CASE code[i].label \notin Declared
    <3>1. DefinedOnce(line) <=> data[j] = line
      BY <2>8, <2>10, OneLine
    <3> QED
      BY <2>5, <2>8, <2>10, <3>1 DEF line
  <2> QED
    BY <2>5, <2>9, <2>10
<1>3. ASSUME item.kind = "print_var"
      PROVE  /\ item.name \in Declared /\ item.name \in Ident
             /\ code[i] = Op(IF IsStringVariable(symtab, item.name) THEN "print_str"
                             ELSE "print_int", item.name)
             /\ IsStringVariable(symtab, item.name) <=> IsDeclStr(item.name)
  <2>1. item.name \in Declared /\ item.name \in Ident
    BY <1>1, <1>3, StoryParts DEF ProgramInv, Declared
  <2>2. code[i] = Op(IF IsStringVariable(symtab, item.name) THEN "print_str" ELSE "print_int",
                     item.name)
    BY <1>1, <1>3 DEF BecameCode
  <2> HIDE DEF item
  <2> QED
    BY <2>1, <2>2, VariableIsDefined
<1> DEFINE n == item.name
<1>4. ASSUME item.kind = "print_var", IsDeclStr(n)
      PROVE  /\ code[i] = Op("print_str", n)
             /\ \A l \in Literal : DefinedOnce(Asciiz(n, l)) <=> l = LastGiven(n) /\ ~IsLabel(n)
  <2>1. n \in Declared /\ code[i] = Op("print_str", n)
    BY <1>3, <1>4
  <2> HIDE DEF n
  <2>2. PICK j \in DOMAIN data : data[j] = Asciiz(n, LastGiven(n))
    BY <1>4, <2>1, VariableIsDefined
  <2>3. ASSUME NEW l \in Literal
        PROVE  DefinedOnce(Asciiz(n, l)) <=> l = LastGiven(n) /\ ~IsLabel(n)
    <3> DEFINE line == Asciiz(n, l)
    <3>1. /\ line.label = n /\ data[j].label = n
          /\ data[j] = line <=> l = LastGiven(n)
      BY <2>2 DEF Asciiz
    <3> HIDE DEF line
    <3>2. CASE IsLabel(n)
      BY <2>1, <3>1, <3>2, TwoLines DEF line
    <3>3. CASE ~IsLabel(n)
      <4>1. ~IsLate(n)
        BY <1>4 DEF IsLate
      <4> QED
        BY <3>1, <3>3, <4>1, OneLine DEF line
    <3> QED
      BY <3>2, <3>3
  <2> QED
    BY <2>1, <2>3
<1>5. ASSUME item.kind = "print_var", ~IsDeclStr(n)
      PROVE  /\ code[i] = Op("print_int", n)
             /\ DefinedOnce(Space(n)) <=> ~IsLabel(n) /\ ~IsLate(n)
  <2>1. n \in Declared /\ code[i] = Op("print_int", n)
    BY <1>3, <1>5
  <2> HIDE DEF n
  <2>2. PICK a \in Nat : SectionsFrom(a, Len(string_table), Len(string_vars))
    BY SectionLines
  <2>3. PICK j \in 1 .. a : data[j] = Space(n)
    BY <1>5, <2>1, <2>2 DEF SectionsFrom
  <2>4. j \in DOMAIN data
    BY <2>2 DEF SectionsFrom
  <2> DEFINE line == Space(n)
  <2>5. line.label = n /\ data[j] = line /\ data[j].label = n
    BY <2>3 DEF Space
  <2> HIDE DEF line
  <2>6. CASE IsLabel(n) \/ IsLate(n)
    BY <2>1, <2>5, <2>6, TwoLines DEF line
  <2>7. CASE ~IsLabel(n) /\ ~IsLate(n)
    <3>1. DefinedOnce(line) <=> data[j] = line
      BY <2>4, <2>5, <2>7, OneLine
    <3> QED
      BY <2>1, <2>5, <2>7, <3>1 DEF line
  <2> QED
    BY <2>1, <2>6, <2>7
<1> QED
  BY <1>2, <1>4, <1>5

(* Without string variables, the j-th line of .data is that of the j-th    *)
(* symbol, and as long.                                                    *)
LEMMA LinesAreSymbols ==
  ASSUME Story, NamesAreShort, NamesAreNotLabels, SymbolsFit, string_vars = << >>
  PROVE  \A j \in DOMAIN data : /\ j \in 1 .. Len(symtab.table)
                                /\ data[j].label = symtab.table[j].name
                                /\ Bytes(data[j]) = symtab.table[j].size
<1> DEFINE tab == symtab.table
           n == Len(tab)
           v == n - Registered
<1>1. /\ tab \in Seq(Entry) /\ n \in Nat /\ Len(string_table) \in Nat /\ TablesAgree
      /\ DOMAIN string_table = 1 .. Len(string_table)
      /\ \A i \in 1 .. n : tab[i] \in Entry
  BY StoryParts, TableLength DEF LitTable
<1>2. phase \in {"collect", "labels"} \/ phase = "data" \/ phase \in {"code", "done"}
  BY StoryParts DEF Progress
<1>3. CASE phase \in {"collect", "labels"}
  BY <1>3, StoryParts DEF DataInv
<1>4. ASSUME phase \in {"data", "code", "done"}
      PROVE  /\ Registered = Len(string_table) /\ v \in 0 .. n
             /\ \A i \in 1 .. n : IsInteger(tab[i]) <=> i <= v
             /\ \A i \in 1 .. v : tab[i].size = 8
             /\ \A h \in 1 .. Len(string_table) :
                  /\ tab[v + h].name = StrLabel[h]
                  /\ tab[v + h].size = SizeOf[string_table[h]]
  <2>1. Registered = Len(string_table)
    BY <1>4 DEF Registered
  <2>2. LabelsAtEnd(tab, Len(string_table))
    BY <1>1, <1>4, <2>1 DEF TablesAgree, LabelsLast
  <2>3. v \in 0 .. n
    BY <1>1, <2>1, <2>2 DEF LabelsAtEnd
  <2>4. ASSUME NEW i \in 1 .. n, IsVariable(tab[i])
        PROVE  ~tab[i].is_string_var
    <3>1. tab[i].name \in Declared
      BY <1>1, <2>4 DEF TablesAgree, TableStory
    <3>2. ~IsDeclStr(tab[i].name)
      <4> SUFFICES ASSUME IsDeclStr(tab[i].name)  PROVE FALSE
        OBVIOUS
      <4>1. PICK l \in Literal, p \in DOMAIN program : program[p] = DeclStr(tab[i].name, l)
        BY DEF IsDeclStr
      <4>2. tab[i].name \in StringsGiven
        BY <4>1, GivenMembers, StoryParts, ProgramDomain DEF DeclStr
      <4>3. Len(string_vars) = 0
        OBVIOUS
      <4> QED
        BY <4>2, <4>3, StoryParts, AssemblyAssumption DEF StringTable
    <3> QED
      BY <1>1, <2>4, <3>1, <3>2 DEF TablesAgree, TableStory
  <2>5. \A i \in 1 .. v : i \in 1 .. n /\ IsVariable(tab[i])
    BY <1>1, <2>1, <2>2, <2>3 DEF LabelsAtEnd
  <2>6. \A i \in 1 .. v : tab[i].size = 8
    BY <2>4, <2>5, StoryParts DEF Contiguous
  <2>7. \A h \in 1 .. Len(string_table) : /\ ~IsVariable(tab[v + h])
                                          /\ tab[v + h].name = StrLabel[h]
                                          /\ tab[v + h].size = SizeOf[string_table[h]]
    BY <2>1, <2>2 DEF LabelsAtEnd
  <2>8. ASSUME NEW i \in 1 .. n, i > v
        PROVE  ~IsVariable(tab[i])
    <3>1. v = n - Len(string_table)
      BY <2>1
    <3> HIDE DEF v, tab, n
    <3>2. i - v \in 1 .. Len(string_table) /\ v + (i - v) = i
      BY <1>1, <2>3, <2>8, <3>1
    <3> QED
      BY <2>7, <3>2
  <2>9. \A i \in 1 .. n : IsInteger(tab[i]) <=> i <= v
    <3> TAKE i \in 1 .. n
    <3> HIDE DEF v, tab
    <3>1. CASE i <= v
      <4>1. i \in 1 .. v
        BY <1>1, <2>3, <3>1
      <4> QED
        BY <2>4, <2>5, <3>1, <4>1 DEF IsInteger
    <3>2. CASE ~(i <= v)
      <4>1. i > v
        BY <1>1, <2>3, <3>2
      <4> QED
        BY <2>8, <3>2, <4>1 DEF IsInteger
    <3> QED
      BY <3>1, <3>2
  <2> HIDE DEF v, tab, n
  <2> QED
    BY <2>1, <2>3, <2>6, <2>7, <2>9
<1> HIDE DEF v, tab, n
<1>5. ASSUME NEW j \in 1 .. n, j <= v, NEW line, line = Space(tab[j].name),
             phase \in {"data", "code", "done"}
      PROVE  line.label = tab[j].name /\ Bytes(line) = tab[j].size
  BY <1>4, <1>5 DEF Space, Bytes
<1>6. CASE phase = "data"
  <2>1. IntegerLines(data, tab, pc - 1)
    BY <1>6, StoryParts DEF DataInv, tab
  <2>2. /\ Len(data) = IF pc - 1 <= v THEN pc - 1 ELSE v
        /\ \A j \in 1 .. Len(data) : data[j] = Space(tab[j].name)
    BY <1>4, <1>6, <2>1 DEF IntegerLines, n
  <2>3. pc - 1 \in Nat /\ pc - 1 <= n /\ v \in 0 .. n /\ n \in Nat
    BY <1>1, <1>4, <1>6, StoryParts DEF Shape, Progress, n, tab
  <2>4. DOMAIN data = 1 .. Len(data)
    BY <2>1 DEF IntegerLines
  <2>5. \A j \in 1 .. Len(data) : j \in 1 .. n /\ j <= v
    BY <2>2, <2>3
  <2> QED
    BY <1>5, <1>6, <2>2, <2>4, <2>5 DEF n, tab
<1>7. CASE phase \in {"code", "done"}
  <2>1. PICK d \in Seq(Line) : /\ IntegerLines(d, tab, n)
                               /\ data = d \o LiteralSection \o StringSection
    BY <1>7, DataSections DEF n, tab
  <2>2. /\ Registered = Len(string_table) /\ v \in 0 .. n /\ n \in Nat
        /\ \A i \in 1 .. n : IsInteger(tab[i]) <=> i <= v
    BY <1>1, <1>4, <1>7
  <2>3. /\ Len(d) = IF n <= v THEN n ELSE v
        /\ \A j \in 1 .. Len(d) : d[j] = Space(tab[j].name)
    BY <2>1, <2>2 DEF IntegerLines, n
  <2>4. Len(d) = v
    BY <2>2, <2>3
  <2>5. Len(string_vars) = 0
    OBVIOUS
  <2> DEFINE b == Len(string_table)
  <2>6. /\ DOMAIN data = 1 .. v + b + 0
        /\ \A j \in 1 .. v : data[j] = d[j]
        /\ \A h \in 1 .. b : data[v + h] = Asciiz(StrLabel[h], string_table[h])
        /\ \A j \in 1 .. v + b + 0 : \/ j \in 1 .. v
                                     \/ \E h \in 1 .. b : j = v + h
                                     \/ \E k \in 1 .. 0 : j = v + b + k
    <3>1. LitTable(string_table) /\ VarTable(string_vars)
      BY StoryParts
    <3> DEFINE a == Len(d)
               c == Len(string_vars)
    <3>2. /\ DOMAIN data = 1 .. a + b + c
          /\ \A j \in 1 .. a : data[j] = d[j]
          /\ \A h \in 1 .. b : data[a + h] = Asciiz(StrLabel[h], string_table[h])
          /\ \A j \in 1 .. a + b + c : \/ j \in 1 .. a
                                       \/ \E h \in 1 .. b : j = a + h
                                       \/ \E k \in 1 .. c : j = a + b + k
      BY <2>1, <3>1, Sections
    <3>3. a = v /\ c = 0
      BY <2>4, <2>5
    <3> HIDE DEF a, b, c
    <3> QED
      BY <3>2, <3>3
  <2>7. v + b = n /\ b \in Nat
    BY <1>1, <2>2 DEF v
  <2> HIDE DEF b
  <2> SUFFICES ASSUME NEW j \in DOMAIN data
               PROVE  j \in 1 .. n /\ data[j].label = tab[j].name /\ Bytes(data[j]) = tab[j].size
    BY DEF n, tab
  <2>8. CASE j \in 1 .. v
    <3>1. j \in 1 .. n /\ j <= v /\ data[j] = Space(tab[j].name)
      BY <2>2, <2>3, <2>4, <2>6, <2>8
    <3> QED
      BY <1>5, <1>7, <3>1
  <2>9. ASSUME NEW h \in 1 .. b, j = v + h
        PROVE  j \in 1 .. n /\ data[j].label = tab[j].name /\ Bytes(data[j]) = tab[j].size
    <3>1. tab[v + h].name = StrLabel[h] /\ tab[v + h].size = SizeOf[string_table[h]]
      BY <1>4, <1>7 DEF b
    <3>2. data[j] = Asciiz(StrLabel[h], string_table[h]) /\ j \in 1 .. n
      BY <2>2, <2>6, <2>7, <2>9
    <3> QED
      BY <2>9, <3>1, <3>2 DEF Asciiz, Bytes
  <2>10. j \in 1 .. v \/ \E h \in 1 .. b : j = v + h
    <3>1. j \in 1 .. v + b + 0
      BY <2>6
    <3>2. \A k \in 1 .. 0 : FALSE
      OBVIOUS
    <3> QED
      BY <2>6, <3>1, <3>2, Zenon
  <2> QED
    BY <2>8, <2>9, <2>10
<1> QED
  BY <1>2, <1>3, <1>6, <1>7

(* .data has a first line, and so on up to a last one.                     *)
LEMMA DataLines ==
  ASSUME Story, NamesAreShort
  PROVE  \E m \in Nat : DOMAIN data = 1 .. m
<1>1. phase \in {"collect", "labels"} \/ phase = "data" \/ phase \in {"code", "done"}
  BY StoryParts DEF Progress
<1>2. CASE phase \in {"collect", "labels"}
  <2>1. data = << >>
    BY <1>2, StoryParts DEF DataInv
  <2>2. 0 \in Nat /\ DOMAIN data = 1 .. 0
    BY <2>1
  <2> QED
    BY <2>2
<1>3. CASE phase = "data"
  <2>1. data \in Seq(Line)
    BY <1>3, StoryParts DEF DataInv, IntegerLines
  <2>2. Len(data) \in Nat /\ DOMAIN data = 1 .. Len(data)
    BY <2>1
  <2> QED
    BY <2>2
<1>4. CASE phase \in {"code", "done"}
  <2>1. PICK d \in Seq(Line) : data = d \o LiteralSection \o StringSection
    BY <1>4, DataSections
  <2> DEFINE a == Len(d)
             b == Len(string_table)
             c == Len(string_vars)
  <2>2. a \in Nat /\ b \in Nat /\ c \in Nat /\ DOMAIN data = 1 .. a + b + c
    BY <2>1, StoryParts, Sections
  <2> HIDE DEF a, b, c
  <2>3. a + b + c \in Nat
    BY <2>2
  <2> QED
    BY <2>2, <2>3
<1> QED
  BY <1>1, <1>2, <1>3, <1>4

(* The offsets of the lines.                                               *)
LEMMA StoryLayout == Story => LayoutAgrees
<1> SUFFICES ASSUME Story, NamesAreShort, NamesAreNotLabels, SymbolsFit, string_vars = << >>,
                    NEW j \in DOMAIN data
             PROVE  GetOffsetOfTheSymbol(symtab, data[j].label) =
                      IF j = 1 THEN 0
                      ELSE GetOffsetOfTheSymbol(symtab, data[j - 1].label) + Bytes(data[j - 1])
  BY DEF LayoutAgrees
<1> DEFINE tab == symtab.table
<1>1. tab \in Seq(Entry)
  BY StoryParts, TableLength
<1>2. \A p, q \in 1 .. Len(tab) : tab[p].name = tab[q].name => p = q
  BY StoryParts DEF TablesAgree, TableStory
<1>3. ASSUME NEW k \in DOMAIN data
      PROVE  /\ GetOffsetOfTheSymbol(symtab, data[k].label) = tab[k].offset
             /\ Bytes(data[k]) = tab[k].size /\ k \in 1 .. Len(tab)
  BY <1>1, <1>2, LinesAreSymbols, OneMatch
<1>4. tab[j].offset = IF j = 1 THEN 0 ELSE tab[j - 1].offset + tab[j - 1].size
  BY <1>3, StoryParts DEF Contiguous
<1>5. j # 1 => j - 1 \in DOMAIN data
  <2>1. \E m \in Nat : DOMAIN data = 1 .. m
    BY DataLines
  <2> QED
    BY <2>1
<1> QED
  BY <1>3, <1>4, <1>5

(* Whatever the code refers to is in .data and has an address: the first   *)
(* walk enters every declared name and every printed literal, as long as   *)
(* they fit, and the second one refers to no other.                        *)
THEOREM AllReferencesResolve == Spec => []ReferencesResolve
  BY StoryInvariant, StoryResolves, PTL

(* No label is defined twice in .data, but those of variables whose names  *)
(* mean two things.                                                        *)
THEOREM LabelsAreDefinedOnce == Spec => []LabelsDefinedOnce
  BY StoryInvariant, StoryDefinesOnce, PTL

(* Every print finds the text or number that the interpreter prints there, *)
(* but for a literal that a second unescaping changes, a string that is    *)
(* given another text later, and names that mean two things; and in those  *)
(* cases it does not.                                                      *)
THEOREM PrintsAreRight == Spec => []PrintsRightText
  BY StoryInvariant, StoryPrints, PTL

(* Without string variables, the encoder's offsets are an assembler's.     *)
THEOREM LayoutsAgree == Spec => []LayoutAgrees
  BY StoryInvariant, StoryLayout, PTL


=============================================================================
