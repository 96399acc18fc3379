------------------------- MODULE SymbolTableProofs -------------------------
(***************************************************************************)
(* Proofs about SymbolTable for every set of names, every cut, every       *)
(* capacity and every register range.                                      *)
(***************************************************************************)
EXTENDS SymbolTable, WellFoundedInduction, TLAPS

(***************************************************************************)
(* The inductive invariant, as a predicate on tables so that a caller of   *)
(* the operators can use the lemmas below.  Beyond what the invariants     *)
(* say, next_offset bounds every region and next_reg exceeds every         *)
(* register handed out; both grow in the order of the entries.             *)
(***************************************************************************)
Ordered(s) ==
  /\ \A i \in 1 .. Len(s.table) :
       /\ s.table[i].offset + s.table[i].size <= s.next_offset
       /\ s.table[i].reg < s.next_reg
  /\ \A i, j \in 1 .. Len(s.table) : i < j =>
       /\ s.table[i].offset + s.table[i].size <= s.table[j].offset
       /\ IsVariable(s.table[i]) /\ IsVariable(s.table[j]) =>
            s.table[i].reg < s.table[j].reg

TableInv(s) ==
  /\ s \in SymbolTables
  /\ Len(s.table) <= MAX_SYMBOLS
  /\ s.next_reg >= REG_MIN
  /\ Ordered(s)

(* SymbolInit establishes the invariant.                                   *)
LEMMA EmptyTableInv == TableInv(EmptyTable)
  BY LimitAssumption DEF TableInv, EmptyTable, SymbolTables, Ordered, FirstReg

(* Appending an entry that starts at next_offset and whose register, if it *)
(* has one, is not below next_reg keeps the invariant.                     *)
LEMMA AppendedInv ==
  ASSUME NEW s, TableInv(s), Len(s.table) < MAX_SYMBOLS,
         NEW e \in Entry, NEW r \in Nat,
         e.offset = s.next_offset, r >= s.next_reg, e.reg < r,
         IsVariable(e) => e.reg >= s.next_reg
  PROVE  TableInv(Appended(s, e, r))
<1> DEFINE t == Append(s.table, e)
           n == Len(s.table)
<1>1. /\ s.table \in Seq(Entry)
      /\ s.next_reg \in Nat
      /\ s.next_offset \in Nat
  BY DEF TableInv, SymbolTables
<1>2. /\ e.offset \in Nat
      /\ e.size \in Nat
      /\ e.size > 0
      /\ e.reg \in Int
  BY LimitAssumption DEF Entry, FirstReg
<1>3. /\ t \in Seq(Entry)
      /\ Len(t) = n + 1
      /\ t[n + 1] = e
      /\ \A i \in 1 .. n : t[i] = s.table[i]
      /\ n \in Nat
  BY <1>1
<1>4. /\ Appended(s, e, r).table = t
      /\ Appended(s, e, r).next_reg = r
      /\ Appended(s, e, r).next_offset = s.next_offset + e.size
      /\ Appended(s, e, r) \in SymbolTables
  BY <1>1, <1>2, <1>3 DEF Appended, SymbolTables
<1>5. \A i \in 1 .. n : /\ s.table[i].offset \in Nat
                        /\ s.table[i].size \in Nat
                        /\ s.table[i].reg \in Int
  <2>1. \A i \in 1 .. n : s.table[i] \in Entry
    BY <1>1
  <2> QED
    BY <2>1, LimitAssumption DEF Entry, FirstReg
<1>6. \A i \in 1 .. n + 1 : /\ t[i].offset + t[i].size <= s.next_offset + e.size
                            /\ t[i].reg < r
  <2> TAKE i \in 1 .. n + 1
  <2>1. CASE i = n + 1
    BY <2>1, <1>1, <1>2, <1>3
  <2>2. CASE i \in 1 .. n
    <3>1. /\ s.table[i].offset + s.table[i].size <= s.next_offset
          /\ s.table[i].reg < s.next_reg
      BY <2>2 DEF TableInv, Ordered
    <3>2. /\ s.table[i].offset + s.table[i].size <= s.next_offset + e.size
          /\ s.table[i].reg < r
      <4>1. /\ s.table[i].offset \in Nat
            /\ s.table[i].size \in Nat
            /\ s.table[i].reg \in Int
        BY <2>2, <1>5
      <4>2. s.table[i].reg < r
        BY <3>1, <4>1, <1>1
      <4>3. s.next_offset <= s.next_offset + e.size
        BY <1>1, <1>2
      <4>4. s.table[i].offset + s.table[i].size <= s.next_offset + e.size
        BY <3>1, <4>1, <4>3, <1>1, <1>2
      <4> QED
        BY <4>2, <4>4
    <3> QED
      BY <3>2, <2>2, <1>3
  <2> QED
    BY <2>1, <2>2, <1>3
<1>7. \A i, j \in 1 .. n + 1 : i < j =>
        /\ t[i].offset + t[i].size <= t[j].offset
        /\ IsVariable(t[i]) /\ IsVariable(t[j]) => t[i].reg < t[j].reg
  <2> SUFFICES ASSUME NEW i \in 1 .. n + 1, NEW j \in 1 .. n + 1, i < j
               PROVE  /\ t[i].offset + t[i].size <= t[j].offset
                      /\ IsVariable(t[i]) /\ IsVariable(t[j]) => t[i].reg < t[j].reg
    OBVIOUS
  <2>1. i \in 1 .. n /\ t[i] = s.table[i]
    BY <1>3
  <2>2. CASE j = n + 1
    <3>1. /\ s.table[i].offset + s.table[i].size <= s.next_offset
          /\ s.table[i].reg < s.next_reg
      BY <2>1 DEF TableInv, Ordered
    <3>2. t[j] = e
      BY <2>2, <1>3
    <3>3. IsVariable(e) => s.table[i].reg < e.reg
      BY <3>1, <2>1, <1>1, <1>2, <1>5
    <3> QED
      BY <3>1, <3>2, <3>3, <2>1
  <2>3. CASE j \in 1 .. n
    <3>1. t[j] = s.table[j]
      BY <2>3, <1>3
    <3> QED
      BY <3>1, <2>1, <2>3 DEF TableInv, Ordered
  <2> QED
    BY <2>2, <2>3, <1>3
<1>8. Ordered(Appended(s, e, r))
  BY <1>3, <1>4, <1>6, <1>7 DEF Ordered
<1> QED
  BY <1>1, <1>3, <1>4, <1>8, LimitAssumption DEF TableInv, FirstReg

(* Both allocators keep the invariant, in each of their four outcomes.     *)
LEMMA AllocateInv ==
  ASSUME NEW s, TableInv(s), NEW n \in Name, NEW isString \in BOOLEAN
  PROVE  TableInv(Allocate(s, n, isString))
<1> DEFINE e == VariableEntry(s, n, isString)
<1>1. s.next_reg \in Nat /\ s.next_offset \in Nat /\ s.next_reg >= 1
  BY LimitAssumption DEF TableInv, SymbolTables, FirstReg
<1>2. /\ SkipReserved(s.next_reg) \in Nat
      /\ SkipReserved(s.next_reg) >= s.next_reg
      /\ SkipReserved(s.next_reg) >= FirstReg
  BY <1>1 DEF SkipReserved, FirstReg
<1>3. TableInv([s EXCEPT !.next_reg = SkipReserved(@)])
  <2> DEFINE q == [s EXCEPT !.next_reg = SkipReserved(@)]
  <2>1. s \in SymbolTables
    BY DEF TableInv
  <2>2. /\ q \in SymbolTables
        /\ q.table = s.table
        /\ q.next_offset = s.next_offset
        /\ q.next_reg = SkipReserved(s.next_reg)
    BY <2>1, <1>2 DEF SymbolTables
  <2>3. \A i \in 1 .. Len(s.table) : s.table[i].reg \in Int
    <3>1. \A i \in 1 .. Len(s.table) : s.table[i] \in Entry
      BY <2>1 DEF SymbolTables
    <3> QED
      BY <3>1, LimitAssumption DEF Entry, FirstReg
  <2>4. Ordered(q)
    BY <1>1, <1>2, <2>2, <2>3 DEF TableInv, Ordered
  <2> QED
    BY <1>1, <1>2, <2>2, <2>4, LimitAssumption DEF TableInv, FirstReg
<1>4. ASSUME Len(s.table) < MAX_SYMBOLS, SkipReserved(s.next_reg) <= REG_MAX
      PROVE  TableInv(Appended(s, e, SkipReserved(s.next_reg) + 1))
  <2>1. /\ e \in Entry
        /\ e.offset = s.next_offset
        /\ e.reg = SkipReserved(s.next_reg)
    BY <1>1, <1>2, <1>4, NameAssumption, LimitAssumption
       DEF VariableEntry, Entry, FirstReg
  <2> QED
    BY <2>1, <1>1, <1>2, <1>4, AppendedInv
<1>5. Len(s.table) \in Nat /\ MAX_SYMBOLS \in Nat /\ REG_MAX \in Nat
  BY LimitAssumption DEF TableInv, SymbolTables
<1> QED
  BY <1>2, <1>3, <1>4, <1>5 DEF Allocate

(* AddLabel keeps the invariant.                                           *)
LEMMA WithLabelInv ==
  ASSUME NEW s, TableInv(s), NEW n \in Name, NEW size \in Nat \ {0}
  PROVE  TableInv(WithLabel(s, n, size))
<1> DEFINE e == LabelEntry(s, n, size)
<1>1. s.next_reg \in Nat /\ s.next_offset \in Nat /\ s.next_reg >= 1
  BY LimitAssumption DEF TableInv, SymbolTables, FirstReg
<1>2. e \in Entry /\ e.offset = s.next_offset /\ e.reg = -1
  BY <1>1, NameAssumption DEF LabelEntry, Entry
<1>3. Len(s.table) \in Nat /\ MAX_SYMBOLS \in Nat
  BY LimitAssumption DEF TableInv, SymbolTables
<1>4. ASSUME Len(s.table) < MAX_SYMBOLS
      PROVE  TableInv(Appended(s, e, s.next_reg))
  BY <1>1, <1>2, <1>4, AppendedInv DEF IsVariable
<1> QED
  BY <1>3, <1>4 DEF WithLabel

-----------------------------------------------------------------------------
IInv == TableInv(symtab)

(* Every step of the table keeps the invariant.                            *)
LEMMA StepInv == IInv /\ [SymbolNext]_symtab => IInv'
<1> SUFFICES ASSUME TableInv(symtab), [SymbolNext]_symtab
             PROVE  TableInv(symtab')
  BY DEF IInv
<1>1. CASE Reset
  BY <1>1, EmptyTableInv DEF Reset
<1>2. ASSUME NEW n \in Name, AddInteger(n)
      PROVE  TableInv(symtab')
  BY <1>2, AllocateInv DEF AddInteger, AllocateRegisterForTheSymbol
<1>3. ASSUME NEW n \in Name, AddString(n)
      PROVE  TableInv(symtab')
  BY <1>3, AllocateInv DEF AddString, AllocateStringVariable
<1>4. ASSUME NEW n \in Name, NEW size \in LabelSizes, AddLabel(n, size)
      PROVE  TableInv(symtab')
  <2>1. size \in Nat \ {0}
    BY LabelSizeAssumption
  <2> QED
    BY <2>1, <1>4, WithLabelInv DEF AddLabel
<1>5. CASE UNCHANGED symtab
  BY <1>5
<1> QED
  BY <1>1, <1>2, <1>3, <1>4, <1>5 DEF SymbolNext

(* The invariant holds along every sequence of calls.                      *)
THEOREM TableInvariant == SymbolSpec => []IInv
<1>1. SymbolInit => IInv
  BY EmptyTableInv DEF SymbolInit, IInv
<1> QED
  BY <1>1, StepInv, PTL DEF SymbolSpec

-----------------------------------------------------------------------------
(* The invariants that the runs check follow from it.                      *)

(* The table is well formed and within its capacity.                       *)
THEOREM TypeCorrect == SymbolSpec => []SymbolTypeOK
<1>1. IInv => SymbolTypeOK
  BY DEF IInv, TableInv, SymbolTypeOK
<1> QED
  BY <1>1, TableInvariant, PTL

(* No two symbols overlap in the data segment.                             *)
THEOREM StorageIsDisjoint == SymbolSpec => []StorageDisjoint
<1>1. IInv => StorageDisjoint
  <2> SUFFICES ASSUME TableInv(symtab)  PROVE StorageDisjoint
    BY DEF IInv
  <2>1. DOMAIN symtab.table = 1 .. Len(symtab.table)
    BY DEF TableInv, SymbolTables
  <2> QED
    BY <2>1 DEF TableInv, Ordered, StorageDisjoint
<1> QED
  BY <1>1, TableInvariant, PTL

(* No register is handed out twice, none of r0-r4 and none behind REG_MAX  *)
(* ever.                                                                   *)
THEOREM RegistersAreDistinct == SymbolSpec => []RegistersDistinct
<1>1. IInv => RegistersDistinct
  <2> SUFFICES ASSUME TableInv(symtab),
                      NEW i \in DOMAIN symtab.table, NEW j \in DOMAIN symtab.table
               PROVE  /\ IsVariable(symtab.table[i]) =>
                           symtab.table[i].reg \in FirstReg .. REG_MAX
                      /\ IsVariable(symtab.table[i]) /\ IsVariable(symtab.table[j])
                         /\ i # j => symtab.table[i].reg # symtab.table[j].reg
    BY DEF IInv, RegistersDistinct
  <2>1. /\ i \in 1 .. Len(symtab.table)
        /\ j \in 1 .. Len(symtab.table)
        /\ symtab.table[i] \in Entry
        /\ symtab.table[j] \in Entry
        /\ Len(symtab.table) \in Nat
    BY DEF TableInv, SymbolTables
  <2>2. /\ symtab.table[i].reg \in {-1} \cup FirstReg .. REG_MAX
        /\ symtab.table[i].reg \in Int
        /\ symtab.table[j].reg \in Int
    BY <2>1, LimitAssumption DEF Entry, FirstReg
  <2>3. IsVariable(symtab.table[i]) => symtab.table[i].reg \in FirstReg .. REG_MAX
    BY <2>2 DEF IsVariable
  <2>4. ASSUME IsVariable(symtab.table[i]), IsVariable(symtab.table[j]), i # j
        PROVE  symtab.table[i].reg # symtab.table[j].reg
    <3>1. CASE i < j
      BY <2>1, <2>2, <2>4, <3>1 DEF TableInv, Ordered
    <3>2. CASE j < i
      BY <2>1, <2>2, <2>4, <3>2 DEF TableInv, Ordered
    <3> QED
      BY <2>1, <2>4, <3>1, <3>2
  <2> QED
    BY <2>3, <2>4
<1> QED
  BY <1>1, TableInvariant, PTL

-----------------------------------------------------------------------------
(***************************************************************************)
(* What one call can do to the array, whichever call it is.                *)
(***************************************************************************)
Extends(s, q) ==
  \E e \in Entry : /\ q.table = Append(s.table, e)
                   /\ e.offset = s.next_offset
                   /\ IsVariable(e) => e.reg >= s.next_reg

(* An allocator leaves the array alone or appends one well-placed entry.   *)
LEMMA AllocateShape ==
  ASSUME NEW s, TableInv(s), NEW n \in Name, NEW isString \in BOOLEAN
  PROVE  \/ Allocate(s, n, isString).table = s.table
         \/ Extends(s, Allocate(s, n, isString))
<1> DEFINE e == VariableEntry(s, n, isString)
<1>1. s.next_reg \in Nat /\ s.next_offset \in Nat /\ s.next_reg >= 1
  BY LimitAssumption DEF TableInv, SymbolTables, FirstReg
<1>2. /\ SkipReserved(s.next_reg) \in Nat
      /\ SkipReserved(s.next_reg) >= s.next_reg
      /\ SkipReserved(s.next_reg) >= FirstReg
  BY <1>1 DEF SkipReserved, FirstReg
<1>3. ASSUME SkipReserved(s.next_reg) <= REG_MAX
      PROVE  Extends(s, Appended(s, e, SkipReserved(s.next_reg) + 1))
  <2>1. /\ e \in Entry
        /\ e.offset = s.next_offset
        /\ e.reg = SkipReserved(s.next_reg)
    BY <1>1, <1>2, <1>3, NameAssumption, LimitAssumption
       DEF VariableEntry, Entry, FirstReg
  <2>2. Appended(s, e, SkipReserved(s.next_reg) + 1).table = Append(s.table, e)
    BY DEF Appended
  <2> HIDE DEF e
  <2> QED
    BY <2>1, <2>2, <1>2 DEF Extends
<1>4. [s EXCEPT !.next_reg = SkipReserved(@)].table = s.table
  BY DEF TableInv, SymbolTables
<1>5. Len(s.table) \in Nat /\ MAX_SYMBOLS \in Nat /\ REG_MAX \in Nat
  BY LimitAssumption DEF TableInv, SymbolTables
<1> QED
  BY <1>2, <1>3, <1>4, <1>5 DEF Allocate

(* So does AddLabel.                                                       *)
LEMMA WithLabelShape ==
  ASSUME NEW s, TableInv(s), NEW n \in Name, NEW size \in Nat \ {0}
  PROVE  \/ WithLabel(s, n, size).table = s.table
         \/ Extends(s, WithLabel(s, n, size))
<1> DEFINE e == LabelEntry(s, n, size)
<1>1. s.next_offset \in Nat
  BY DEF TableInv, SymbolTables
<1>2. e \in Entry /\ e.offset = s.next_offset /\ ~IsVariable(e)
  BY <1>1, NameAssumption DEF LabelEntry, Entry, IsVariable
<1>3. Appended(s, e, s.next_reg).table = Append(s.table, e)
  BY DEF Appended
<1>4. Extends(s, Appended(s, e, s.next_reg))
  <2> HIDE DEF e
  <2> QED
    BY <1>2, <1>3 DEF Extends
<1> QED
  BY <1>4 DEF WithLabel

(* A step forgets everything, keeps the array or appends one entry to it.  *)
LEMMA StepShape ==
  IInv /\ [SymbolNext]_symtab =>
    \/ symtab' = EmptyTable
    \/ symtab'.table = symtab.table
    \/ Extends(symtab, symtab')
<1> SUFFICES ASSUME TableInv(symtab), [SymbolNext]_symtab
             PROVE  \/ symtab' = EmptyTable
                    \/ symtab'.table = symtab.table
                    \/ Extends(symtab, symtab')
  BY DEF IInv
<1>1. CASE Reset
  BY <1>1 DEF Reset
<1>2. ASSUME NEW n \in Name, AddInteger(n)
      PROVE  symtab'.table = symtab.table \/ Extends(symtab, symtab')
  BY <1>2, AllocateShape DEF AddInteger, AllocateRegisterForTheSymbol
<1>3. ASSUME NEW n \in Name, AddString(n)
      PROVE  symtab'.table = symtab.table \/ Extends(symtab, symtab')
  BY <1>3, AllocateShape DEF AddString, AllocateStringVariable
<1>4. ASSUME NEW n \in Name, NEW size \in LabelSizes, AddLabel(n, size)
      PROVE  symtab'.table = symtab.table \/ Extends(symtab, symtab')
  <2>1. size \in Nat \ {0}
    BY LabelSizeAssumption
  <2> QED
    BY <2>1, <1>4, WithLabelShape DEF AddLabel
<1>5. CASE UNCHANGED symtab
  BY <1>5
<1> QED
  BY <1>1, <1>2, <1>3, <1>4, <1>5 DEF SymbolNext

-----------------------------------------------------------------------------
(* The refinement.                                                         *)

Regions(s) == {Place(s.table[i]) : i \in DOMAIN s.table}

(* An appended entry is one new region, apart from all the others.         *)
LEMMA ExtendsAllots ==
  ASSUME IInv, Extends(symtab, symtab')
  PROVE  Storage!Allot
<1>1. PICK e \in Entry : /\ symtab'.table = Append(symtab.table, e)
                         /\ e.offset = symtab.next_offset
                         /\ IsVariable(e) => e.reg >= symtab.next_reg
  BY DEF Extends
<1> DEFINE n == Len(symtab.table)
           p == Place(e)
<1>2. /\ symtab.table \in Seq(Entry)
      /\ symtab.next_offset \in Nat
      /\ symtab.next_reg \in Nat
      /\ n \in Nat
      /\ DOMAIN symtab.table = 1 .. n
  BY DEF IInv, TableInv, SymbolTables
<1>3. /\ DOMAIN symtab'.table = 1 .. n + 1
      /\ symtab'.table[n + 1] = e
      /\ \A i \in 1 .. n : symtab'.table[i] = symtab.table[i]
  BY <1>1, <1>2
<1>4. /\ p.lo = symtab.next_offset
      /\ p.hi = symtab.next_offset + e.size
      /\ p.reg = e.reg
      /\ p.hi > symtab.next_offset
      /\ p \in Storage!Region
  BY <1>1, <1>2 DEF Place, Entry, Storage!Region
<1>5. Regions(symtab)' = Regions(symtab) \cup {p}
  BY <1>2, <1>3 DEF Regions
<1>6. ASSUME NEW q \in Regions(symtab)
      PROVE  q.hi <= p.lo /\ q.hi \in Nat /\ (p.reg = -1 \/ p.reg # q.reg)
  <2>1. PICK i \in 1 .. n : q = Place(symtab.table[i])
    BY <1>2 DEF Regions
  <2>2. symtab.table[i] \in Entry
    BY <1>2
  <2>3. /\ symtab.table[i].offset + symtab.table[i].size <= symtab.next_offset
        /\ symtab.table[i].reg < symtab.next_reg
    BY DEF IInv, TableInv, Ordered
  <2>4. /\ symtab.table[i].offset \in Nat
        /\ symtab.table[i].size \in Nat
        /\ symtab.table[i].reg \in Int
        /\ e.reg \in Int
    BY <2>2, LimitAssumption DEF Entry, FirstReg
  <2>5. /\ q.hi = symtab.table[i].offset + symtab.table[i].size
        /\ q.reg = symtab.table[i].reg
    BY <2>1 DEF Place
  <2>6. e.reg = -1 \/ e.reg # symtab.table[i].reg
    BY <1>1, <1>2, <2>3, <2>4 DEF IsVariable
  <2> QED
    BY <1>4, <2>3, <2>4, <2>5, <2>6
<1>7. p \notin Regions(symtab)
  BY <1>2, <1>4, <1>6
<1>8. \A q \in Regions(symtab) : Storage!Apart(p, q)
  BY <1>6 DEF Storage!Apart
<1>9. p.lo < p.hi
  BY <1>4
<1> HIDE DEF p
<1> QED
  BY <1>4, <1>5, <1>7, <1>8, <1>9 DEF Storage!Allot, Regions

(* Every call of the table is an allotment, a reset or no change of the    *)
(* abstract storage map.                                                   *)
THEOREM TableImplementsStorageMap == SymbolSpec => ImplementsStorageMap
<1>1. SymbolInit => Storage!Init
  BY DEF SymbolInit, EmptyTable, Storage!Init
<1>2. IInv /\ [SymbolNext]_symtab =>
        [Storage!Next]_{Place(symtab.table[i]) : i \in DOMAIN symtab.table}
  <2> SUFFICES ASSUME IInv, [SymbolNext]_symtab
               PROVE  Storage!Next \/ UNCHANGED Regions(symtab)
    BY DEF Regions
  <2>1. CASE symtab' = EmptyTable
    <3>1. Regions(symtab)' = {}
      BY <2>1 DEF Regions, EmptyTable
    <3> QED
      BY <3>1 DEF Storage!Next, Storage!Forget, Regions
  <2>2. CASE symtab'.table = symtab.table
    BY <2>2 DEF Regions
  <2>3. CASE Extends(symtab, symtab')
    BY <2>3, ExtendsAllots DEF Storage!Next
  <2> QED
    BY <2>1, <2>2, <2>3, StepShape
<1> QED
  BY <1>1, <1>2, TableInvariant, PTL
     DEF SymbolSpec, ImplementsStorageMap, Storage!Spec

-----------------------------------------------------------------------------
(* Lookups.                                                                *)

(* A non-empty set of natural numbers has a least element.                 *)
LEMMA LeastElement ==
  ASSUME NEW S \in SUBSET Nat, S # {}
  PROVE  \E i \in S : \A j \in S : i <= j
<1>1. PICK i \in S : \A j \in S : ~(<<j, i>> \in OpToRel(<, Nat))
  BY NatLessThanWellFounded, WFMin
<1>2. \A j \in S : ~(j < i)
  BY <1>1 DEF OpToRel
<1> QED
  BY <1>2

(* The scan stops inside the array, at the least match.                    *)
LEMMA FirstMatchExists ==
  ASSUME NEW s, s.table \in Seq(Entry), NEW n, Matches(s, n) # {}
  PROVE  /\ FirstMatch(s, n) \in Matches(s, n)
         /\ \A j \in Matches(s, n) : FirstMatch(s, n) <= j
<1>1. Matches(s, n) \in SUBSET Nat
  BY DEF Matches
<1>2. \E i \in Matches(s, n) : \A j \in Matches(s, n) : i <= j
  BY <1>1, LeastElement
<1> QED
  BY <1>2 DEF FirstMatch

(* Appending an entry does not move the first match.                       *)
LEMMA FirstMatchStable ==
  ASSUME NEW s, s.table \in Seq(Entry), NEW q, Extends(s, q),
         NEW n, Matches(s, n) # {}
  PROVE  /\ Matches(q, n) # {}
         /\ q.table[FirstMatch(q, n)] = s.table[FirstMatch(s, n)]
<1> DEFINE m == Len(s.table)
<1>0. PICK e \in Entry : q.table = Append(s.table, e)
  BY DEF Extends
<1>1. /\ m \in Nat
      /\ DOMAIN s.table = 1 .. m
      /\ DOMAIN q.table = 1 .. m + 1
      /\ \A i \in 1 .. m : q.table[i] = s.table[i]
      /\ q.table \in Seq(Entry)
  BY <1>0
<1>2. /\ Matches(s, n) \subseteq Matches(q, n)
      /\ Matches(q, n) \subseteq Matches(s, n) \cup {m + 1}
      /\ Matches(s, n) \subseteq 1 .. m
  BY <1>1 DEF Matches
<1>3. Matches(q, n) # {}
  BY <1>2
<1>4. /\ FirstMatch(s, n) \in Matches(s, n)
      /\ \A j \in Matches(s, n) : FirstMatch(s, n) <= j
      /\ FirstMatch(q, n) \in Matches(q, n)
      /\ \A j \in Matches(q, n) : FirstMatch(q, n) <= j
  BY <1>1, <1>3, FirstMatchExists
<1>5. FirstMatch(q, n) = FirstMatch(s, n)
  BY <1>1, <1>2, <1>4
<1> QED
  BY <1>1, <1>2, <1>3, <1>4, <1>5

(* A lookup that succeeded keeps succeeding with the same answer until the *)
(* table is reset.                                                         *)
THEOREM LookupsAreStable == SymbolSpec => LookupStable
<1> DEFINE Stable(n) ==
      /\ GetOffsetOfTheSymbol(symtab', n) = GetOffsetOfTheSymbol(symtab, n)
      /\ GetRegisterOfTheSymbol(symtab', n) = GetRegisterOfTheSymbol(symtab, n)
      /\ IsStringVariable(symtab', n) = IsStringVariable(symtab, n)
<1>1. ASSUME IInv, [SymbolNext]_symtab, symtab' # EmptyTable,
             NEW n \in Name, Matches(symtab, n) # {}
      PROVE  Stable(n)
  <2>1. symtab.table \in Seq(Entry) /\ Matches(symtab, n) # {}
    BY <1>1 DEF IInv, TableInv, SymbolTables
  <2>2. CASE symtab'.table = symtab.table
    BY <2>2 DEF GetOffsetOfTheSymbol, GetRegisterOfTheSymbol, IsStringVariable,
                FirstMatch, Matches
  <2>3. CASE Extends(symtab, symtab')
    <3>1. /\ Matches(symtab', n) # {}
          /\ symtab'.table[FirstMatch(symtab', n)]
               = symtab.table[FirstMatch(symtab, n)]
      BY <2>1, <2>3, FirstMatchStable
    <3> QED
      BY <2>1, <3>1
         DEF GetOffsetOfTheSymbol, GetRegisterOfTheSymbol, IsStringVariable
  <2> QED
    BY <1>1, <2>2, <2>3, StepShape
<1>2. IInv /\ [SymbolNext]_symtab =>
        (symtab' # EmptyTable =>
           \A n \in Name : Matches(symtab, n) # {} => Stable(n))
  BY <1>1
<1> QED
  BY <1>2, TableInvariant, PTL DEF SymbolSpec, LookupStable

-----------------------------------------------------------------------------
(***************************************************************************)
(* One variable, one entry.  The property is inductive beside TableInv: an *)
(* allocator that appends has looked the whole name up first, and found    *)
(* nothing or a label.                                                     *)
(***************************************************************************)
Excused(s, i) ==
  \/ \E n \in Name : ~Short(n) /\ Cut[n] = s.table[i].name
  \/ \E k \in 1 .. i : ~IsVariable(s.table[k]) /\ s.table[k].name = s.table[i].name

OneEntry(s) ==
  \A i, j \in 1 .. Len(s.table) :
    /\ i < j
    /\ IsVariable(s.table[i]) /\ IsVariable(s.table[j])
    /\ s.table[i].name = s.table[j].name
    => Excused(s, i)

(* Appending keeps it when a second entry of the name is excused.          *)
LEMMA AppendOneEntry ==
  ASSUME NEW s, s.table \in Seq(Entry), OneEntry(s),
         NEW e \in Entry, NEW q, q.table = Append(s.table, e),
         \A i \in 1 .. Len(s.table) :
           IsVariable(s.table[i]) /\ IsVariable(e) /\ s.table[i].name = e.name
             => Excused(s, i)
  PROVE  OneEntry(q)
<1> DEFINE m == Len(s.table)
<1>1. /\ m \in Nat /\ Len(q.table) = m + 1
      /\ q.table[m + 1] = e
      /\ \A i \in 1 .. m : q.table[i] = s.table[i]
  OBVIOUS
<1> SUFFICES ASSUME NEW i \in 1 .. Len(q.table), NEW j \in 1 .. Len(q.table), i < j,
                    IsVariable(q.table[i]), IsVariable(q.table[j]),
                    q.table[i].name = q.table[j].name
             PROVE  Excused(q, i)
  BY DEF OneEntry
<1>2. i \in 1 .. m /\ q.table[i] = s.table[i]
  BY <1>1
<1>3. Excused(s, i)
  <2>1. CASE j = m + 1
    BY <1>1, <1>2, <2>1
  <2>2. CASE j \in 1 .. m
    BY <1>1, <1>2, <2>2 DEF OneEntry
  <2> QED
    BY <1>1, <2>1, <2>2
<1>4. \A k \in 1 .. i : q.table[k] = s.table[k]
  BY <1>1, <1>2
<1> QED
  BY <1>2, <1>3, <1>4 DEF Excused

(* A label is no second variable.                                          *)
LEMMA WithLabelOneEntry ==
  ASSUME NEW s, TableInv(s), OneEntry(s), NEW n \in Name, NEW size \in Nat \ {0}
  PROVE  OneEntry(WithLabel(s, n, size))
<1> DEFINE e == LabelEntry(s, n, size)
<1>1. s.table \in Seq(Entry) /\ s.next_offset \in Nat
  BY DEF TableInv, SymbolTables
<1>2. e \in Entry /\ ~IsVariable(e)
  BY <1>1, NameAssumption DEF LabelEntry, Entry, IsVariable
<1>3. Appended(s, e, s.next_reg).table = Append(s.table, e)
  BY DEF Appended
<1>4. OneEntry(Appended(s, e, s.next_reg))
  <2> HIDE DEF e
  <2> QED
    BY <1>1, <1>2, <1>3, AppendOneEntry
<1> QED
  BY <1>4 DEF WithLabel

(* An entry with the name looked up is a label or comes after one when the *)
(* lookup returns -1.                                                      *)
LEMMA FailedLookup ==
  ASSUME NEW s, s.table \in Seq(Entry), NEW n,
         GetRegisterOfTheSymbol(s, n) = -1,
         NEW i \in 1 .. Len(s.table), s.table[i].name = n
  PROVE  \E k \in 1 .. i : ~IsVariable(s.table[k]) /\ s.table[k].name = n
<1>1. i \in Matches(s, n)
  BY DEF Matches
<1>2. /\ FirstMatch(s, n) \in Matches(s, n)
      /\ FirstMatch(s, n) <= i
  BY <1>1, FirstMatchExists
<1>3. FirstMatch(s, n) \in 1 .. i /\ s.table[FirstMatch(s, n)].name = n
  BY <1>2 DEF Matches
<1>4. ~IsVariable(s.table[FirstMatch(s, n)])
  BY <1>1 DEF GetRegisterOfTheSymbol, IsVariable
<1> QED
  BY <1>3, <1>4

(* An allocator adds a second entry of a name only when it is excused.     *)
LEMMA AllocateOneEntry ==
  ASSUME NEW s, TableInv(s), OneEntry(s), NEW n \in Name, NEW isString \in BOOLEAN
  PROVE  OneEntry(Allocate(s, n, isString))
<1> DEFINE e == VariableEntry(s, n, isString)
           r == SkipReserved(s.next_reg)
<1>1. /\ s.table \in Seq(Entry) /\ s.next_reg \in Nat /\ s.next_offset \in Nat
      /\ s.next_reg >= 1
  BY LimitAssumption DEF TableInv, SymbolTables, FirstReg
<1>2. r \in Nat /\ r >= FirstReg
  BY <1>1 DEF SkipReserved, FirstReg
<1>3. ASSUME r <= REG_MAX, GetRegisterOfTheSymbol(s, n) = -1
      PROVE  OneEntry(Appended(s, e, r + 1))
  <2>1. e \in Entry /\ e.name = Cut[n]
    BY <1>1, <1>2, <1>3, NameAssumption, LimitAssumption
       DEF VariableEntry, Entry, FirstReg
  <2>2. Appended(s, e, r + 1).table = Append(s.table, e)
    BY DEF Appended
  <2>3. ASSUME NEW i \in 1 .. Len(s.table), s.table[i].name = Cut[n]
        PROVE  Excused(s, i)
    <3>1. CASE Short(n)
      BY <1>1, <1>3, <2>3, <3>1, FailedLookup DEF Short, Excused
    <3>2. CASE ~Short(n)
      BY <2>3, <3>2 DEF Excused
    <3> QED
      BY <3>1, <3>2
  <2> HIDE DEF e
  <2> QED
    BY <1>1, <2>1, <2>2, <2>3, AppendOneEntry
<1>4. [s EXCEPT !.next_reg = SkipReserved(@)].table = s.table
  BY DEF TableInv, SymbolTables
<1>5. CASE Allocate(s, n, isString).table = s.table
  BY <1>5 DEF OneEntry, Excused
<1>6. CASE /\ Allocate(s, n, isString) = Appended(s, e, r + 1)
           /\ r <= REG_MAX /\ GetRegisterOfTheSymbol(s, n) = -1
  BY <1>3, <1>6
<1>7. Len(s.table) \in Nat /\ MAX_SYMBOLS \in Nat /\ REG_MAX \in Nat
  BY LimitAssumption DEF TableInv, SymbolTables
<1> QED
  BY <1>2, <1>4, <1>5, <1>6, <1>7 DEF Allocate

OneInv == IInv /\ OneEntry(symtab)

(* Every call keeps it.                                                    *)
LEMMA OneStep == OneInv /\ [SymbolNext]_symtab => OneInv'
<1> SUFFICES ASSUME IInv, TableInv(symtab), OneEntry(symtab), [SymbolNext]_symtab
             PROVE  OneEntry(symtab')
  BY StepInv DEF OneInv, IInv
<1>1. CASE Reset
  BY <1>1 DEF Reset, EmptyTable, OneEntry
<1>2. ASSUME NEW n \in Name, AddInteger(n) \/ AddString(n)
      PROVE  OneEntry(symtab')
  BY <1>2, AllocateOneEntry
     DEF AddInteger, AddString, AllocateRegisterForTheSymbol, AllocateStringVariable
<1>3. ASSUME NEW n \in Name, NEW size \in LabelSizes, AddLabel(n, size)
      PROVE  OneEntry(symtab')
  BY <1>3, WithLabelOneEntry, LabelSizeAssumption DEF AddLabel
<1> QED
  BY <1>1, <1>2, <1>3 DEF SymbolNext

(* A short name that no label hides stands for one variable, however the   *)
(* two allocators are called: the lookup comes before every insertion.     *)
THEOREM NamesStandForOne == SymbolSpec => []OneEntryPerVariable
<1>1. SymbolInit => OneInv
  BY EmptyTableInv DEF SymbolInit, IInv, OneInv, OneEntry, EmptyTable
<1>2. OneInv => OneEntryPerVariable
  <2> SUFFICES ASSUME TableInv(symtab), OneEntry(symtab)  PROVE OneEntryPerVariable
    BY DEF OneInv, IInv
  <2>1. DOMAIN symtab.table = 1 .. Len(symtab.table)
    BY DEF TableInv, SymbolTables
  <2> QED
    BY <2>1 DEF OneEntry, Excused, OneEntryPerVariable
<1> QED
  BY <1>1, <1>2, OneStep, PTL DEF SymbolSpec

=============================================================================
