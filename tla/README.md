# A TLA+ model of the compiler in `prototype-0`

The program compiles a small language (integer and string variables, one
declaration, assignment or `p:` print per line, between `>>>` and `<<<`) to
MIPS64 assembly, encodes that assembly, and interprets the same AST to show the
program's output. This directory models it in TLA+, checks the models with TLC
and proves theorems about some of them with TLAPS.

`src/README.md` is not documentation: it is an older copy of `assembly.c`. The
repository has no tests. What the code promises is taken from its comments.

## The system

    input --> lexer --> parser + semantic analysis --> AST
                                                        |
      driver (main): gate on the errors counted --------+
                                                        |
          AST.txt, AST_DUMP.txt  <----------------------+
          assembly generator --> .s file                |
               | symbol table (static)                  |
          encoder <-- .s file --> .mc file              |
          interpreter --> output capture --> stdout  <--+

| component (source) | state | operations | module |
|---|---|---|---|
| symbol table (`symbol_table.c`) | array of entries, `next_reg`, `next_offset` | `SymbolInit`, two allocators, `AddLabel`, three lookups | `SymbolTable`, abstractly `StorageMap` |
| temporaries and expression code (`assembly.c`) | `temp_next`; at run time r10-r19 | `NewTempRegister`, `ResetTempRegister`, `GenerateExpression` | `TempRegisters` |
| assembly generator (`assembly.c`) | two string tables, the symbol table, the file | two walks over the AST, registration of labels, `.data`, `.code` | `Assembly` |
| parser, semantic analysis, lexer's delimiters (`parser.y`, `semantics.c`, `lexer.l`) | LALR stack, symbol list, error count, two flags | shift, reduce, recover, the checks | `Frontend` |
| driver (`parser.y` `main`, file use of `machine_code.c`) | files, exit status | one call after the other | `Driver` |
| encoder (`machine_code.c`) | a line buffer, the two files | `fgets`, the skipping tests, one `sscanf` format per instruction | `MachineCode`; its files in `Driver` |
| interpreter (`interpreter.c`) | array of variables, strings on the heap, one held pointer | one function per kind of statement and of node | `Interpreter`, abstractly `Language`; beside the processor in `Execution` |
| output capture (`output.c`) | a growing buffer | init, write, printf, free | `OutputCapture` |
| AST printers, generated scanner | - | - | files only, in `Driver`; not modelled |

The components are sequential and share state in four ways: the symbol table's
static variables (generator and encoder), the AST (parser, printers, generator,
interpreter), the lexer's flags (lexer, parser, driver), and the files (driver,
encoder, the next invocation). What is hard about them is therefore not
concurrency but long sequences of legal calls, limits that fail silently, state
computed in one pass and relied on in another, error recovery, and files that
are opened, truncated and read in a certain order. `PROJECT.json` lists these
hazards, each at its line, with the properties that would catch it.

What makes each component correct:

- symbol table: storage is disjoint, registers distinct, lookups stable;
- temporaries: an operation finds its operands where it left them;
- generator: what `.code` refers to is defined once in `.data` and has an
  address, variables are aligned, addresses agree with the layout of `.data`;
- front end: what compiles satisfies the contract the back ends take for
  granted, and no part of the program was lost on the way;
- driver: an exit status that means what was printed, and files of which one
  can say what a success, a refusal or a death left in them;
- encoder: a word decodes to what its line says, with the address of the whole
  name, and no instruction is lost or invented;
- interpreter: no pointer outlives the array, every string is freed once, and a
  program reads and prints what was last stored; the buffer never overflows;
- both back ends: they compute the same numbers, as far as 64-bit registers,
  32-bit ints, 16-bit immediates and ten temporaries allow, and print the same
  texts, as far as one text per variable for the whole program allows.

## The modules

**`SymbolTable`** is the record `symtab` (the entries, `next_reg`,
`next_offset`) with operators for each function of `symbol_table.c` that the
program calls. The operators map a record to a record, so that another module
can use them in its own actions; the actions `Reset`, `AddInteger`, `AddString`,
`AddLabel` make the table a component of its own. `Allocate` keeps the order of
the code's tests, including the one that changes `next_reg` and then fails.
Names are model values; `Cut` is what `strncpy` leaves of a name of 50 or more
characters. `size` in an entry is a history field: by how much `next_offset`
moved. 64-bit wrap of `next_offset` is out of reach with 100 entries.

**`StorageMap`** is what the table promises: regions of memory that are never
moved, are disjoint, and carry distinct registers. `ImplementsStorageMap` in
`SymbolTable` is the refinement.

**`TempRegisters`** evaluates an expression tree in post-order. A step emits and
executes the instructions of one node, since the code is straight-line.
`regs[r]` holds the number of the allocation that wrote `r` last, so whether a
value is still there is a comparison. `temp_next` goes on from one print part to
the next and is reset at each statement, as in the code.

**`Frontend`** reads any sequence of tokens. `lines` is the part of the parser's
stack that holds finished lines, `expr` the nodes of an expression without a
parent. A node is a summary of its subtree: what the checks of `semantics.c`
will say of it, including that they dereference NULL. `Unexpected`, `Discard`,
`Recover` and `Abort` are Bison's error recovery with this grammar's two error
states, read off the tables of `parser.tab.c`. Every diagnostic is `Counted` or
only `Printed`, as in the code.

**`Assembly`** extends `SymbolTable`. A program is a sequence of items in the
order in which both walks visit them. `Collect` is the first walk, with the
program growing under it by any item that `Frontend!BackEndContract` allows;
`RegisterLabel` enters one literal's label per step, `PrintData` prints the line
of one symbol per step, `PrintStrings` those of the two string tables, and
`Generate` is the second walk. Expressions are their identifiers; the registers
are `TempRegisters`' subject.

**`Driver`** runs `main` several times in one directory. The outcome of the
front end and of each `fopen` is any that is possible; contents of files say
what they are and which invocation's program they come from. Four calls can be
ended by a signal instead of returning: `yyparse` (a NULL child), `save_ast_tree`
(the prefix of `print_tree`, which grows without a test), `MachineFromAssembly`
(the operand buffers) and `interpret_program` (the quotient that is no int). A
stream that is open then has reached the disk in whole, in part or not at all
(`Cut`). `Return` computes the status from the parse and the counts, as the last
line of `main` does, and not from the branch of the gate that was taken.

**`Arithmetic`** holds two's complement of a given width, C's division and the
four operations; a width is given by half its range, so that the same operators
serve ints, registers and immediates.

**`Interpreter`** executes one item of the AST per step, in the order in which
the walk of `interpreter.c` visits it: a declaration or assignment of an
expression looks its variable up (`Target`), evaluates the expression in
post-order (`NumberNode`, `Identifier`, `Operate`; `'-' factor` is the product
of `-1` and the factor, so `-1` is among the numerals) and stores through the
pointer (`Store`), since it is between these that the array may move; a
print is its parts and an end. A pointer is an index and the block it points
into; `realloc` gives the array another block, identified by its capacity. The
value of a variable is a union, `as` says which member was written last. Reading
or freeing through a dangling pointer, and writing into a block that was freed,
are choices between going on and crashing. The program grows under the
interpreter by whatever the front end lets pass: names are declared before they
are used and types fit, as `Frontend!BackEndContract` says.

**`OutputCapture`** is the buffer, as operators on records that the interpreter
applies. Text is its length: what is cut and what overflows depends on nothing
else.

**`Language`** is what the interpreter promises: a store from names to values, a
stack of operands, what was said last. It has no array, no union, no heap, no
buffer and no items. `ImplementsLanguage` is the refinement; it also says where
lines end, which the code decides by looking the last variable up again.

**`Execution`** runs the generated code beside the interpreter, item by item.
The temporaries are the circle `temp_start .. temp_max` of `NewTempRegister`;
`nodes` says which of them each operand on the interpreter's stack was put into,
and as how many-th node of its expression, so that an operand whose temporary was
used again is read as what is there now. `mem` holds the doublewords at the
labels, `text` the one text that `.data` gives a string variable: an assignment
emits no code and replaces it for the whole program. Three history variables say
how much agreement can be expected: `exact` is "exact", "wrapped" (an int
overflowed: the low bits agree) or "lost" (a division after that, a constant cut
to its immediate, an operand overwritten); `told` holds the texts that the
interpreter printed for a variable, and `late` the variables whose text was
replaced after that. Whether symbols resolve, and that a name means one thing,
are taken from `Assembly`.

**`MachineCode`** reads a file of lines with `fgets` into a buffer of
`LINE_MAX` bytes. A line is its length, what its beginning looks like and what a
piece from its middle can look like, because the rest of a line that does not
fit is taken for a line of its own: an instruction, or one with registers of any
length that `assembly.c` never writes (`Garbled`). What is written beyond
`imm_str` (a name of `MAX_NAME_LEN` characters) or `regA` (15 characters into 8)
can kill the process, add any word (`Junk`) or none; other effects on the memory
behind the buffers are left out. Words are two halves with the shifts of
`Encode_R_Type` and `Encode_I_Type`; `Decoded` is the processor's view of a
word, written from the MIPS64 instruction formats and not from the encoder.

The actions of the grammar are mapped to `parser.tab.c`, which holds the actions
of `parser.y` unchanged (under `#line`) and is the file that is compiled.

`MC*.tla` give the constants for TLC; `*Proofs.tla` hold the theorems.
Definitions whose comment starts with "Bug:" are mutated forms of the definition
behind them. No specification uses them: each is a plausible mistake in the code
that one of the properties was seen to catch (`PROJECT.json`, "mutants").

## The runs

| run | configuration | shows |
|---|---|---|
| `symbol_table` | `MCSymbolTable.cfg` | types and capacity, disjoint storage, distinct registers, one entry per variable, stable lookups, refinement of `StorageMap` |
| `temp_registers` | `MCTempRegisters.cfg` | the exact lifetime of a temporary and the exact class of expressions that are compiled correctly |
| `temp_clobber` | `TempClobber.cfg` | violation: a right subtree of eleven nodes overwrites the left operand |
| `frontend` | `MCFrontend.cfg` | the contract with the back ends, agreement of the symbol list with the AST, no lost lines |
| `frontend_reported` | `FrontendReported.cfg` | violation: a line refused with an error message and a program that compiles |
| `frontend_crash` | `FrontendCrash.cfg` | violation: an undeclared variable and a NULL dereference |
| `assembly` | `MCAssembly.cfg` | references, labels, texts, alignment, layout; refinement of `SymbolTable!SymbolSpec` |
| `assembly_bare_string` | `AssemblyBareString.cfg` | violation: `ch x` stays an integer |
| `driver` | `MCDriver.cfg` | files, output and exit status over two invocations, with failing `fopen`s and deaths by a signal |
| `driver_alias` | `DriverAlias.cfg` | violation: `out.s` is overwritten by its own machine code |
| `execution` | `MCExecution.cfg` | held pointers, ownership of strings, the buffer, crashes; refinement of `Language`; the processor's numbers and texts beside the interpreter's |
| `machine_code` | `MCMachineCode.cfg` | words decode to their lines exactly when the symbol is found and fits, one word per instruction |

All specifications are `Init /\ [][Next]_vars`, and no liveness is claimed: each
component is one sequential pass over a finite input or a finite tree, and what
matters is what it leaves behind. Nothing in the code waits for anything. Its
loops end because `fgets` advances and lists are finite, so that "it terminates"
would say something of the C library and nothing of this code. Deadlock is
checked everywhere: a pass may get stuck nowhere but where it is finished, which
is an explicit stuttering step.

Bounds, and why they are enough:

- `SymbolTable`: four entries, registers r5-r7, labels of 1 and 3 bytes; two
  ordinary names, two over-long ones with the same first 49 characters and the
  name they are cut to, and the name of a label. The table fills and the
  registers run out in either order.
- `TempRegisters`: the real r10-r19 and trees of up to 16 nodes, so that the
  counter wraps and a right subtree of eleven nodes, whose tenth overwrites the
  register, has a left operand beside it. (Subtrees have an odd number of nodes,
  so the property, which says "fewer than ten", is decided at nine and eleven.)
- `Frontend`: two names, three lines, two pending nodes, two counted errors. A
  summary of a node is one of a small set however large its tree is, so two
  pending nodes reach every summary that left-to-right trees have; three lines
  hold a declaration, a use, and a second declaration. The two violation runs
  stop at one error.
- `Assembly`: three identifiers (an ordinary one, `str0`, an over-long one),
  four literals of which two become equal when unescaped, two labels, two
  registers, four table entries, programs of four items. Every limit is passed
  by some program. 2,238,823 states.
- `Driver`: two invocations, so that an earlier output can be stale; the
  default names, a name with `.s`, one without, and `AST.txt` itself. 198,913
  states.
- `Execution`: three variables in an array for one, so that it moves twice;
  programs of eight items, enough for a declaration, an assignment whose
  expression has two operands, and a print; ints of 4 bits, immediates of 3 and
  registers of 8, so that sums and products overflow ints long before registers,
  constants do not fit their instruction, and the quotient that is no int exists;
  two temporaries, so that the circle turns within one expression and a right
  operand of three nodes overwrites the left one; two literals, of which one is
  changed by a second unescaping; a buffer of two bytes, so that it grows, and
  parts of three, so that one is cut. 813,040 states.
- `MachineCode`: files of three lines; every instruction; names that fit, that
  are cut to another variable's, that are cut to nobody's, unknown and too long,
  and one whose address is another's modulo 2^16; definitions of 99, 100, 101 and
  250 characters around the buffer of 100. Three
  lines put a broken line between two instructions; the middle of the longest
  looks like anything, what overruns the buffers included. 303,367 states.

Properties of `Assembly` hold under named circumstances, each of which is there
because TLC shows the property false without it: `NamesAreShort` (fewer than 50
characters), `VariablesFit` (at most 27 variables, and 100 strings),
`LiteralsFit` (at most 100) and `SymbolsFit` (at most 100 symbols in all). They
are the limits of the tables. Where the code goes wrong within the limits the
properties say so instead of excluding it: `LabelsDefinedOnce` names the two
kinds of labels that are defined twice (a variable called `str<n>`, a bare `ch`
that is set later), and `PrintsRightText` says "exactly when" of each print, the
interpreter's text at that point being the right one. `LayoutAgrees` alone also
presupposes `NamesAreNotLabels` and a program without string variables; with
one, the two layouts have different orders and sizes and nothing simple is left
to say.

## What the violations say of the code

1. `temp_clobber`: temporaries are handed out in a circle without an account of
   which are live (`assembly.c:142`). `ReadsWhatItComputed` says exactly when
   this goes wrong.
2. `frontend_reported`: half of the diagnostics do not count as errors; the line
   is dropped and the rest compiles with exit status 0 (`parser.y:179`, `203`,
   `208`, `214`, `261`, `281`, `291`, `295`, `311`, `326`).
3. `frontend_crash`: NULL stands for an undeclared variable inside an expression
   and is dereferenced (`semantics.c:123`, `244`, `parser.y:260`).
4. `assembly_bare_string`: `assembly.c:176` announces an update of the type that
   never comes.
5. `driver_alias`: the name of the machine-code file is a pointer to the name of
   the assembly file (`parser.y:841`).

Other behaviour met while modelling, without a run: a newline behind `<<<` is a
syntax error although `check_content_after_end_delimiter` skips empty lines;
`<<<` inside a string literal or before a comment prints "Extra error", which is
in the printed total and not in the gate, so the program compiles; a parse that
ends in the middle of recovery can fail "with 0 error(s)"; a string variable has
one text for the whole program, so prints before a reassignment differ from the
interpreter's; addresses in the symbol table differ from the layout of `.data`
as soon as a string variable exists (`LayoutAgrees` excludes it); escape
sequences are resolved by the lexer and again by `GetStringLabel`; a print ends
its line always in the generated code, and in the interpreter only if the last
part is no text (`Execution` compares parts, not newlines); ints that overflow,
and a division by zero, differ between the two back ends (`SameNumbers`,
`SameLowBits` and `SameTexts` say what is left; `PrintsRightText` says exactly
which printed texts differ); `machine_code.c:87` says that `regB` may hold long
names, but `%7[^)]` cuts an operand to seven characters and `MAX_NAME_LEN` is
50, not 64 (`WordsDecode` says exactly which words this makes wrong); a program
whose division traps leaves complete outputs, an exit status of 136 and no line
of its own output; a definition of 100 characters or more is read in pieces, and
a piece that looks like an instruction becomes one; the character class at
`lexer.l:82` holds the range `)-,` and no hyphen, so `a-b` and `x;` are each one
illegal token.

## What is proved

All proofs are checked by TLAPS for every value of the constants, under the
assumptions named in the modules and no others: `NameAssumption` (cutting a name
twice is cutting it once), `LimitAssumption` (the limits are naturals and
`REG_MIN` is at most 5), `LabelSizeAssumption` (a label has at least one byte),
`AssemblyAssumption` (identifiers and labels are names, sizes are label sizes,
there is room for a string), `LabelAssumption` (`str0`, `str1`, ... are distinct
and short enough not to be cut), `RegisterAssumption` (there are more symbols
than registers, 100 and 27), `TempAssumption` (`r4 < temp_start <= temp_max`),
`BoundAssumption`, `InterpreterAssumption` (numbers are ints, sizes are
naturals, a new array has room), `CaptureAssumption` (the two buffers are not
empty), `WidthAssumption` of `Execution` (an int is no wider than a register,
and its range divides the register's), `TemporariesAssumption` (there is at
least one), `EscapeAssumption` (unescaping a literal gives a literal),
`LookAssumption` (a line begins as `assembly.c` begins it, with registers
r0-r31; a piece from its middle may be anything), `JunkAssumption` (an overrun
writes words of 32 bits), `NameAssumption` and `LineAssumption` of `MachineCode`
(offsets are naturals or -1, a name too long for the symbol table is not in it,
a buffer holds at least one character, lines are not empty), `FileAssumption`
(the default names are file names; a name with `.mc` behind it is another name;
the two AST files are no assembly files by their ending, nor any `.mc` file) and
`RunAssumption`. TLC evaluates each of them in the runs.

**`SymbolTableProofs`.** The inductive invariant is `TableInv`, a predicate on
tables: well-formed entries within the capacity, and `Ordered`, which says that
offsets and registers grow in the order of the entries and that `next_offset`
and `next_reg` lie above all of them. `StorageDisjoint` and `RegistersDistinct`
alone are not inductive: they do not say where the next entry goes. From
`TableInv` follow

- `TypeCorrect`, `StorageIsDisjoint`, `RegistersAreDistinct`;
- `TableImplementsStorageMap`: a call that appends is an `Allot` of the storage
  map, because the new region starts at `next_offset`;
- `LookupsAreStable`: an append leaves the first match of a name where it is.
  That the set of matches has a least element comes from the well-foundedness of
  `<` on the naturals;
- `NamesStandForOne`: `OneEntry` is inductive beside `TableInv`. An allocator
  appends only after a failed lookup, so an entry of the same name is a label's,
  comes after one, or has a name that was cut.

**`TempRegistersProofs`.** `TypeCorrect`, `LifetimeIsExact`, `ReadsAreExact`.
The inductive invariant relates the pending operands to the counter: `Stands`
says that a value of age less than `NTemps` is still in its register and that
the counter is `age + 1` steps past that register, modulo one turn; `SideBySide`
says that the subtrees of the pending operands are adjacent in the order of
allocation, so that the age of a left operand is the size of the right subtree.
The lemma `RoundRobin` is one turn of `NewTempRegister`.

**`AssemblyProofs`.** `GeneratorUsesTheTable` shows that the generator
implements `SymbolSpec`: each step is one call of an allocator or of `AddLabel`
with proper arguments, or leaves the table alone. All theorems of
`SymbolTableProofs` thereby hold of every compiled program;
`GeneratedStorageIsDisjoint` is one of them. `VariablesStayAligned` needs more
than the table knows, since labels of odd size are registered between the two
walks. The invariant `AlignInv` says that in the first phase the table holds
variables only and `next_offset` is divisible by 8, and, in all phases, that
each declaration is `Covered`: its variable is there, or the table is full, or
no register is left. Each of the three is permanent, and each makes the
allocation of the second walk idle, which is the reason why the program is
right even after a limit has been passed. `GeneratorTypeCorrect` needs a
bound per phase (`Progress`): how far each walk has come, and how much code
there is then.

`AllReferencesResolve`, `LabelsAreDefinedOnce`, `PrintsAreRight` and
`LayoutsAgree` are about the output as a whole. `PrintsAreRight` is proved in
both directions: the text at the label is the interpreter's under its condition,
and is not, or is not the only one, when the condition fails. Each of the four
compares the end of the second walk with what the first one did several phases
before, so none is inductive; they are read off one invariant, `Story`, which
says at every moment what the tables, the data and the code tell of the program
so far:

- the program is legal (`ProgramInv`): what is used was declared before, and
  nothing was declared with both types. This is where the front end's contract
  is used;
- `string_table` has each printed literal once, `string_vars` each string
  variable once with its last value, unless the table is full (`LiteralTable`,
  `StringTable`). With at most as many literals as places the exception is
  empty, which needs a count (`DistinctButOne`);
- the symbol table holds declared names with their types, one entry each
  (`TableStory`). In the first walk no register is spent without an entry
  (`RegistersSpent`), so while the variables fit every declared name is entered
  (`AllEntered`); `SymbolsCounted` leaves room for the labels, which come last
  and in the order of the literals (`LabelsFound`, `LabelsLast`); entries lie
  one behind the other (`Contiguous`);
- `.data` has a line for each integer among the symbols printed so far and no
  other, in the table's order (`IntegerLines`), and then the two string sections
  (`DataInv`);
- each item has become the instruction that the tables as they are give it
  (`CodeInv`). This survives the rest of the second walk because that walk
  changes no table (`GenerateIdle`, `LiteralsStand`).

The hypotheses of each part are the circumstances under which it is true, and
they are about the program so far; that they can turn false when the program
grows is why the parts carry them instead of being assumed once.

**`InterpreterProofs`.** `TypeCorrect`, `HeldStaysLive`,
`StringsAreOwned`, `CaptureStaysWhole`, `DiesOnlyOfTheTrap`. The code contains no
test that keeps the array from moving while a pointer into it is held; that it
does not move has a reason outside of the functions involved. The invariant
`Population` states it: every declared name is already in the array, so an
operand, which the front end has checked, is found and never added. `Sound`
relates array, declared types and heap: names are distinct, a variable is a
string only if it was declared so, and owners and strings correspond one to one,
which is what makes `free` before `strdup` in an assignment and the absence of
`free` in a declaration both right. `BothInterpret` says that `Execution` changes
nothing of the interpreter, so all of this holds of the two together.

**`ExecutionProofs`.** `InterpreterImplementsLanguage`: initial states map to
initial states, and each step to one step of `Language` or to none. The first
part of the proof restates the steps of `Language` in terms of the
interpreter's state (`May...`); the second says what a variable is worth
(`ValueOfVariable`) and that a step which touches one variable changes the store
at one name (`ContentsBut`); then one lemma per action. `JInv` adds to `IInv`
that a variable with a value has one of its declared type (`Settled`), that
nothing is pending between statements (`Idle`), and that the test at the end of
a print, which looks the last variable up again, agrees with the part that was
printed (`Told`).

`NumbersAgree`, `LowBitsAgree` and `TextsAgree` are its second part: what can be
relied on in the translation, for every width of `int`, of immediates and of
registers, every number of temporaries and programs of any length. It begins
with arithmetic: wrapping at a width adds a multiple of it (`WrapAdds`), forgets
any (`WrapForgets`), and therefore commutes with wrapping at a greater width
(`WrapWider`) and with sums, differences and products (`WrapOperands`), but not
with quotients. The invariant `EInv` adds to `JInv` five parts. `Turning` (in
`Devices`) is about the circle: a node younger than the number of temporaries
has its register to itself, and `temp_next` is as many steps ahead of it as it
is old, plus one; nothing is said of older ones, and `Operate` reads an older
one only when it is `Overwritten`. `Abreast`: the values in those registers and
in the cells are as close to the interpreter's as `exact` says (`Follows`), and
the cell of a variable which holds a string is never taken for a number
(`Mirrors`; without it a print of that variable would not follow). `Shelved` and
`TextsFollow`: the text at a label is the one on the heap, and what was printed
of a variable that is not `late` is that text. `Echoes`: the last thing printed
is the same. A cell that was never written holds 0, and a variable without a
value counts as 0, which is why a declaration needs no code.

**`FrontendProofs`.** `FrontendTypeCorrect`, `TableFollowsLines`,
`BackEndMayTrust`, `NothingLost`, for every set of names, programs and
expressions of any size and any limit of the parser's stack. What the back ends
take for granted is checked nowhere in one place: it follows from checks that
are spread over the grammar's rules, some of which refuse a line without
counting an error. The invariant `FInv` puts them together. Until an error is
counted or a token thrown away (`Clean`) the symbol list agrees with the lines
and the finished statement (`SymbolsAgree`), the operands that wait on the stack
hold no NULL and only known names (`GoodNode`; if they are arithmetic that may be
printed, only ints), so do the parts of an unfinished print (`GoodContent`), and
each finished line is well formed after those before it (`LinesGood`,
`ResultGood`). Around it: what was skipped ends in a counted error or in an
aborted parse (`SkipIsCounted`), which is why a program that compiles lost
nothing; behind the end of the program the lexer's flag is the grammar's
(`Delimited`); and a line that was begun has room on the stack (`LineFits`). A
step that counts an error leaves `Clean`, so that only what is silently dropped
has to be followed. `WithinInv`, `ConcludeInv` and `PushInv` are shared by the
actions.

**`MachineCodeProofs`.** `TypeCorrect`, `WordsStayTrue`, `StaysInStep`. The
field lemmas (`IFields`, `RFields`) show that no field of a word spills into
another and that sign extension undoes the cut to 16 bits; `EncodingDecodes`
puts them together for each instruction. `Wrapped` says when an address that was
cut is another one, which gives `WordsDecode` its second direction: the
encoder's word is wrong in all the cases that it excepts. The invariant: the
reader stands at the beginning of a line unless that line does not fit
(`MiddleOfLong`); each word of a line that fits was made from it (`Made`); two
words of one line are at least a full buffer apart (`Spaced`), which bounds what
a line that does not fit can add; and of the lines that were passed, those that
fit have a word exactly if they are instructions with a symbol that is known
(`Settled`). `StaysInStep` needs no hypothesis on the file.

**`DriverProofs`.** `TypeCorrect`, `FailuresKeepOutputs`,
`SuccessesAreConsistent`, `StatusIsRight`. The invariant follows `main` from
call to call. `Files` says what is on the disk at each: nothing but the two AST
files has changed before the assembly file is opened (`Kept`), before the encoder
runs the assembly is this invocation's (`Assembled`), behind it the two files are
what the opening of its files and their names decide (`Encoded`). What is found
there is older than what is written (`Dated`), so that a machine code of this
program can be told from one that was there before. Behind the gate the program
is accepted (`Accepted`), and nothing is printed before the last call (`Quiet`).
A death ends the invocation in the middle of this; `Outcome` is the three
properties, which each such step has to establish.

Each invariant was checked by TLC first, as a property of a run or, where it is
a strengthening, as an additional invariant of that run's configuration.

## What is only model-checked, and what is not modelled

Every invariant, action property and refinement that a passing run checks is
also proved. Liveness under fairness, ENABLED, and induction over data are out
of the prover's reach; no property here needs them. The five properties of the
violation runs are statements of comments or of the usage that the code does not
keep.

Not modelled: the lexer's patterns and escape sequences (`Frontend` takes tokens
as they come, illegal ones at any place included; what `GetStringLabel` makes of
a literal is `Assembly!Unescape`), `free_node`, the layout of what the AST
printers and `PrintBinary` print (the files they write are in `Driver`), the
generated scanner, failures of `malloc`, how deep the recursive walks go on the C
stack, what an overrun of the encoder's operand buffers does to other variables
(only its outcomes: death, any word, none), and functions that nothing calls.

## Plan

1. Done: `SymbolTable`, `StorageMap`, `TempRegisters`, `Frontend`, `Assembly`,
   `Driver`, with the theorems above.
2. Done: `Interpreter` and `OutputCapture`, `Language` and the refinement.
3. Done: `MachineCode`.
4. Done: `Execution`, machine and interpreter on the same program: numbers, texts
   and the circle of temporaries.
5. Done: the theorems of the driver, the encoder, the interpreter, the
   execution, the front end and the generator's output.
6. Left: the lexer's patterns and escape sequences; ownership of AST nodes and of
   the strings in them (`free_node`).
