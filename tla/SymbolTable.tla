---------------------------- MODULE SymbolTable ----------------------------
(***************************************************************************)
(* The code generator's symbol table (symbol_table.c): an append-only      *)
(* array of entries shared, through static variables, by the assembly      *)
(* generator, which fills it, and the machine-code encoder, which reads    *)
(* offsets from it.                                                        *)
(*                                                                         *)
(* The C statics table/symbol_count, next_reg and next_offset are one      *)
(* record, so that a caller can make several calls in one step by nesting  *)
(* the operators.  Failed calls return the record unchanged.               *)
(***************************************************************************)
EXTENDS Integers, Sequences

CONSTANTS
  Name,         \* identifiers and labels
  Cut,          \* Cut[n]: what strncpy keeps of n, its first MAX_NAME_LEN-1 chars
  MAX_SYMBOLS,  \* capacity of the array
  REG_MIN,      \* value of next_reg after SymbolInit
  REG_MAX,      \* last register that can be handed out
  LabelSizes    \* the sizes AddLabel is called with (strlen + 1)

FirstReg == 5   \* r1-r4 are skipped

ASSUME NameAssumption ==
  /\ Cut \in [Name -> Name]
  /\ \A n \in Name : Cut[Cut[n]] = Cut[n]
ASSUME LimitAssumption ==
  /\ MAX_SYMBOLS \in Nat
  /\ REG_MAX \in Nat
  /\ REG_MIN \in 1 .. FirstReg
ASSUME LabelSizeAssumption == LabelSizes \subseteq (Nat \ {0})

Short(n) == Cut[n] = n

(***************************************************************************)
(* An entry.  reg = -1 marks a label.  size is a history field: the bytes  *)
(* by which next_offset moved when the entry was appended.                 *)
(***************************************************************************)
Entry == [name : Name, reg : {-1} \cup FirstReg .. REG_MAX, offset : Nat,
          is_string_var : BOOLEAN, size : Nat \ {0}]

SymbolTables == [table : Seq(Entry), next_reg : Nat, next_offset : Nat]

EmptyTable == [table |-> << >>, next_reg |-> REG_MIN, next_offset |-> 0]

-----------------------------------------------------------------------------
(* Lookups: a linear scan that stops at the first entry of that name.      *)

Matches(s, n) == {i \in DOMAIN s.table : s.table[i].name = n}

(* Bug: the scan runs to the end and keeps the last entry it met.          *)
LastMatch(s, n) == CHOOSE i \in Matches(s, n) : \A j \in Matches(s, n) : j <= i

FirstMatch(s, n) == CHOOSE i \in Matches(s, n) : \A j \in Matches(s, n) : i <= j

GetRegisterOfTheSymbol(s, n) ==
  IF Matches(s, n) = {} THEN -1 ELSE s.table[FirstMatch(s, n)].reg

GetOffsetOfTheSymbol(s, n) ==
  IF Matches(s, n) = {} THEN -1 ELSE s.table[FirstMatch(s, n)].offset

IsStringVariable(s, n) ==
  Matches(s, n) # {} /\ s.table[FirstMatch(s, n)].is_string_var

-----------------------------------------------------------------------------
(* Updates.                                                                *)

(* Bug: every symbol is taken to be 8 bytes long.                          *)
AppendedByEight(s, e, reg) ==
  [table |-> Append(s.table, e), next_reg |-> reg, next_offset |-> s.next_offset + 8]

Appended(s, e, reg) ==
  [table |-> Append(s.table, e), next_reg |-> reg,
   next_offset |-> s.next_offset + e.size]

(* Bug: one register too many is taken to be reserved.                     *)
SkipOneTooMany(r) == IF r \in 1 .. FirstReg + 1 THEN FirstReg ELSE r

SkipReserved(r) == IF r \in 1 .. 4 THEN FirstReg ELSE r

VariableEntry(s, n, isString) ==
  [name |-> Cut[n], reg |-> SkipReserved(s.next_reg), offset |-> s.next_offset,
   is_string_var |-> isString, size |-> IF isString THEN 64 ELSE 8]

(* Bug: no test against the capacity.                                      *)
AllocateUnbounded(s, n, isString) ==
  CASE GetRegisterOfTheSymbol(s, n) # -1     -> s
    [] /\ GetRegisterOfTheSymbol(s, n) = -1
       /\ SkipReserved(s.next_reg) > REG_MAX -> [s EXCEPT !.next_reg = SkipReserved(@)]
    [] OTHER -> Appended(s, VariableEntry(s, n, isString), SkipReserved(s.next_reg) + 1)

(* Bug: no test whether the name is there.                                 *)
AllocateAgain(s, n, isString) ==
  IF Len(s.table) >= MAX_SYMBOLS \/ SkipReserved(s.next_reg) > REG_MAX THEN s
  ELSE Appended(s, VariableEntry(s, n, isString), SkipReserved(s.next_reg) + 1)

(* The checks run in the code's order: the table-full return comes before  *)
(* r1-r4 are skipped, the out-of-registers return after.                   *)
Allocate(s, n, isString) ==
  CASE GetRegisterOfTheSymbol(s, n) # -1           -> s
    [] /\ GetRegisterOfTheSymbol(s, n) = -1
       /\ Len(s.table) >= MAX_SYMBOLS              -> s
    [] /\ GetRegisterOfTheSymbol(s, n) = -1
       /\ Len(s.table) < MAX_SYMBOLS
       /\ SkipReserved(s.next_reg) > REG_MAX       ->
          [s EXCEPT !.next_reg = SkipReserved(@)]
    [] OTHER -> Appended(s, VariableEntry(s, n, isString),
                         SkipReserved(s.next_reg) + 1)

AllocateRegisterForTheSymbol(s, n) == Allocate(s, n, FALSE)

AllocateStringVariable(s, n) == Allocate(s, n, TRUE)

(* Bug: the label's offset is not set.                                     *)
LabelEntryAtZero(s, n, size) ==
  [name |-> Cut[n], reg |-> -1, offset |-> 0, is_string_var |-> FALSE, size |-> size]

LabelEntry(s, n, size) ==
  [name |-> Cut[n], reg |-> -1, offset |-> s.next_offset,
   is_string_var |-> FALSE, size |-> size]

WithLabel(s, n, size) ==
  IF Matches(s, n) # {} \/ Len(s.table) >= MAX_SYMBOLS
  THEN s
  ELSE Appended(s, LabelEntry(s, n, size), s.next_reg)

-----------------------------------------------------------------------------
(* The table as a component: any sequence of calls of its interface.       *)

VARIABLE symtab

SymbolInit == symtab = EmptyTable

Reset == symtab' = EmptyTable

AddInteger(n) == symtab' = AllocateRegisterForTheSymbol(symtab, n)

AddString(n) == symtab' = AllocateStringVariable(symtab, n)

AddLabel(n, size) == symtab' = WithLabel(symtab, n, size)

SymbolNext ==
  \/ Reset
  \/ \E n \in Name : AddInteger(n) \/ AddString(n)
  \/ \E n \in Name, size \in LabelSizes : AddLabel(n, size)

SymbolSpec == SymbolInit /\ [][SymbolNext]_symtab

-----------------------------------------------------------------------------
(* Properties.                                                             *)

IsVariable(e) == e.reg # -1

(* Type invariant: every entry is well formed and the array's bound holds. *)
SymbolTypeOK ==
  /\ symtab \in SymbolTables
  /\ Len(symtab.table) <= MAX_SYMBOLS

(* The bytes reserved for two symbols never overlap, however calls of the  *)
(* three allocators alternate and fail, and all of them lie below          *)
(* next_offset (symbol_table.c: each allocator advances next_offset by the *)
(* size of its own kind of symbol).                                        *)
StorageDisjoint ==
  \A i, j \in DOMAIN symtab.table :
    /\ symtab.table[i].offset + symtab.table[i].size <= symtab.next_offset
    /\ i < j => symtab.table[i].offset + symtab.table[i].size
                   <= symtab.table[j].offset

(* No two variables hold the same register, and none holds r0-r4, which    *)
(* the generated code uses for itself, or one behind REG_MAX: the skip in  *)
(* the allocators and the test behind it (symbol_table.c), also after a    *)
(* call that moved next_reg and then failed.                               *)
RegistersDistinct ==
  \A i, j \in DOMAIN symtab.table :
    /\ IsVariable(symtab.table[i]) => symtab.table[i].reg \in FirstReg .. REG_MAX
    /\ IsVariable(symtab.table[i]) /\ IsVariable(symtab.table[j]) /\ i # j =>
         symtab.table[i].reg # symtab.table[j].reg

(* A name stands for one variable: two variable entries share a name only  *)
(* when an over-long identifier was cut to it (strncpy on insertion,       *)
(* strcmp with the whole identifier on lookup), or when a label of that    *)
(* name was there first and hides the variable from the lookup.            *)
OneEntryPerVariable ==
  \A i, j \in DOMAIN symtab.table :
    /\ i < j
    /\ IsVariable(symtab.table[i]) /\ IsVariable(symtab.table[j])
    /\ symtab.table[i].name = symtab.table[j].name
    => \/ \E n \in Name : ~Short(n) /\ Cut[n] = symtab.table[i].name
       \/ \E k \in 1 .. i : /\ ~IsVariable(symtab.table[k])
                            /\ symtab.table[k].name = symtab.table[i].name

(* What the generator relies on: once a short name has been allocated, its *)
(* lookups succeed and keep giving the same address and type whatever is   *)
(* allocated later, until the next SymbolInit.                             *)
LookupStable ==
  [][symtab' # EmptyTable =>
       \A n \in Name : Matches(symtab, n) # {} =>
         /\ GetOffsetOfTheSymbol(symtab', n) = GetOffsetOfTheSymbol(symtab, n)
         /\ GetRegisterOfTheSymbol(symtab', n) = GetRegisterOfTheSymbol(symtab, n)
         /\ IsStringVariable(symtab', n) = IsStringVariable(symtab, n)]_symtab

(* The abstract storage map the table implements.                          *)
Place(e) == [lo |-> e.offset, hi |-> e.offset + e.size, reg |-> e.reg]

Storage == INSTANCE StorageMap WITH
  regions <- {Place(symtab.table[i]) : i \in DOMAIN symtab.table},
  Registers <- FirstReg .. REG_MAX

(* The table implements the storage map: every call either places one new, *)
(* disjoint region with a fresh register (or none), changes nothing, or    *)
(* forgets everything.                                                     *)
ImplementsStorageMap == Storage!Spec

=============================================================================
