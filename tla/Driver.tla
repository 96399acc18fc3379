------------------------------- MODULE Driver -------------------------------
(***************************************************************************)
(* The driver (parser.y: main) and the encoder's use of files              *)
(* (machine_code.c: MachineFromAssembly), over several invocations in one  *)
(* directory: which file is opened, truncated and written when, what       *)
(* happens when an fopen fails or a signal ends the process between two    *)
(* files, and what the exit status says of it.                             *)
(*                                                                         *)
(* The front end is the record it leaves (Frontend says which ones it      *)
(* can), and the contents of a file are what they were made from.  Four    *)
(* calls can die instead of returning: yyparse of a NULL node, the tree    *)
(* printer of its prefix buffer, the encoder of its operand buffers, the   *)
(* interpreter of its one trap.                                            *)
(***************************************************************************)
EXTENDS Integers

CONSTANTS
  File,      \* names of files
  Arg,       \* what argv[2] can be, besides missing
  DotS,      \* those that end in ".s"
  WithMc,    \* WithMc[a]: the name a with ".mc" behind it
  MaxRuns    \* bound: invocations

NoArg == "no argv[2]"
DefaultAsm == "MIPS64.s"
DefaultMachine == "MACHINE_CODE.mc"
Tree == "AST.txt"
Dump == "AST_DUMP.txt"

ASSUME FileAssumption ==
  /\ {DefaultAsm, DefaultMachine, Tree, Dump} \subseteq File
  /\ Arg \subseteq File /\ NoArg \notin File /\ DotS \subseteq Arg
  /\ {Tree, Dump} \cap DotS = {}
  /\ WithMc \in [Arg -> File \ {Tree, Dump}] /\ \A a \in Arg : WithMc[a] # a
ASSUME RunAssumption == MaxRuns \in Nat \ {0}

VARIABLES
  pc,            \* the call main is at, or "idle"
  run,           \* invocations so far
  arg,           \* argv[2]
  parse,         \* what yyparse and its actions left
  after_error,   \* check_content_after_end_delimiter found something
  disk,          \* the files
  status,        \* exit status of the last invocation
  output,        \* what it printed on stdout
  before,        \* history: disk when the invocation began
  encoded        \* history: MachineFromAssembly returned 1

vars == <<pc, run, arg, parse, after_error, disk, status, output, before, encoded>>

-----------------------------------------------------------------------------
(* Contents: kind, and the invocation whose program they were made from.   *)
Absent == [kind |-> "absent", of |-> 0]
Empty == [kind |-> "empty", of |-> 0]
Made(kind) == [kind |-> kind, of |-> run]

(* A stream that is never closed: stdio may have written none of it, a     *)
(* part, or all.                                                           *)
Cut(contents, part) == {Empty, [contents EXCEPT !.kind = part], contents}

(* The machine code of a file of assembly; lines that are no instructions, *)
(* such as those of a file of machine code, are skipped with a warning.    *)
Encoding(contents) ==
  IF contents.kind = "assembly" THEN [contents EXCEPT !.kind = "machine code"]
  ELSE Empty

Parse == [result : 0 .. 2, found_prog_start : BOOLEAN, found_prog_end : BOOLEAN,
          errors : 0 .. 1, null : BOOLEAN]

asm_filename == IF arg = NoArg THEN DefaultAsm ELSE arg

(* "replace .s with .mc" overwrites the suffix in place, keeps a pointer   *)
(* to the same buffer, and restores the suffix.                            *)
machine_filename ==
  CASE arg = NoArg -> DefaultMachine
    [] arg \in DotS -> asm_filename
    [] OTHER -> WithMc[arg]

error_count ==
  parse.errors + (IF parse.found_prog_start THEN 0 ELSE 1)
               + (IF parse.found_prog_end THEN 0 ELSE 1)

Gate == parse.result = 0 /\ error_count = 0

(* What is written to the assembly file: nothing when there is no AST.     *)
Generated == IF parse.null THEN Empty ELSE Made("assembly")

(* What a shell reports of a process killed by abort (the runtime found a  *)
(* buffer overrun), by a division that traps, by a bad address.            *)
SIGABRT == 134
SIGFPE == 136
SIGSEGV == 139
Signals == {SIGABRT, SIGFPE, SIGSEGV}

NoParse == [result |-> 1, found_prog_start |-> FALSE, found_prog_end |-> FALSE,
            errors |-> 0, null |-> TRUE]

-----------------------------------------------------------------------------
Init ==
  /\ pc = "idle" /\ run = 0 /\ arg = NoArg
  /\ parse = NoParse /\ after_error = FALSE
  /\ disk = [f \in File |-> Absent] /\ before = disk
  /\ status = 0 /\ output = "nothing" /\ encoded = FALSE

(* Bug: the number of errors as the exit status.                           *)
ExitWithCount(s) == pc' = "idle" /\ status' = IF s = 1 THEN error_count ELSE s

Exit(s) == pc' = "idle" /\ status' = s

Invoke(a) ==
  /\ pc = "idle" /\ run < MaxRuns
  /\ run' = run + 1 /\ arg' = a
  /\ parse' = NoParse /\ after_error' = FALSE
  /\ before' = disk /\ output' = "nothing" /\ encoded' = FALSE
  /\ UNCHANGED disk
  /\ \/ pc' = "yyparse" /\ UNCHANGED status
     \/ Exit(1)   \* argv[1] cannot be opened

(* A NULL child can kill the process (Frontend!UndeclaredIsSurvived).      *)
Yyparse(p) ==
  /\ pc = "yyparse"
  /\ \/ parse' = p /\ pc' = "check" /\ UNCHANGED status
     \/ Exit(SIGSEGV) /\ UNCHANGED parse
  /\ UNCHANGED <<run, arg, after_error, disk, output, before, encoded>>

(* Bug: the assembly file is opened before the program is accepted.        *)
CheckWithFileOpen ==
  /\ pc = "check"
  /\ after_error' \in BOOLEAN
  /\ disk' = [disk EXCEPT ![asm_filename] = Empty]
  /\ \/ Gate /\ pc' = "tree" /\ UNCHANGED output
     \/ ~Gate /\ pc' = "return" /\ output' = "Compilation failed"
  /\ UNCHANGED <<run, arg, parse, status, before, encoded>>

(* Whatever is found behind <<< is reported and added to the total that is *)
(* printed; neither the gate nor the exit status looks at it.              *)
CheckContentAfterEndDelimiter ==
  /\ pc = "check"
  /\ after_error' \in BOOLEAN
  /\ \/ Gate /\ pc' = "tree" /\ UNCHANGED output
     \/ ~Gate /\ pc' = "return" /\ output' = "Compilation failed"
  /\ UNCHANGED <<run, arg, parse, status, disk, before, encoded>>

(* fopen(name, "w"), which may fail, then the contents.                    *)
Written(name, contents) == disk' = [disk EXCEPT ![name] = contents]

SaveAst(here, name, next) ==
  /\ pc = here /\ pc' = next
  /\ Written(name, Made("AST")) \/ UNCHANGED disk
  /\ UNCHANGED <<run, arg, parse, after_error, status, output, before, encoded>>

SaveAstTree == SaveAst("tree", Tree, "dump")

(* print_tree's prefix has 256 bytes and grows by up to six at each level  *)
(* of an expression, without a test.                                       *)
DieInSaveAstTree ==
  /\ pc = "tree" /\ ~parse.null
  /\ \E contents \in Cut(Made("AST"), "part of an AST") : Written(Tree, contents)
  /\ Exit(SIGABRT) \/ Exit(SIGSEGV)
  /\ UNCHANGED <<run, arg, parse, after_error, output, before, encoded>>

SaveAstToFile == SaveAst("dump", Dump, "assembly")

(* GenerateAssemblyProgram returns at once when there is no AST.           *)
GenerateAssembly ==
  /\ pc = "assembly"
  /\ \/ Written(asm_filename, Generated) /\ pc' = "machine" /\ UNCHANGED status
     \/ Exit(1) /\ UNCHANGED disk
  /\ UNCHANGED <<run, arg, parse, after_error, output, before, encoded>>

(* The input is opened, then the output truncated: with one file for both  *)
(* there is nothing left to read.                                          *)
Truncated == [disk EXCEPT ![machine_filename] = Empty]

(* Bug: an encoder that reads into memory first, and keeps its old output  *)
(* when the program has no code.                                           *)
MachineFromAssemblyUnlessEmpty ==
  /\ pc = "machine" /\ pc' = "interpret"
  /\ \/ /\ IF disk[asm_filename] = Empty THEN UNCHANGED disk
           ELSE Written(machine_filename, Encoding(disk[asm_filename]))
        /\ encoded' = TRUE
     \/ UNCHANGED <<disk, encoded>>
  /\ UNCHANGED <<run, arg, parse, after_error, status, output, before>>

(* Line after line is read and encoded.  main ignores the result.          *)
MachineFromAssembly ==
  /\ pc = "machine" /\ pc' = "interpret"
  /\ \/ /\ disk' = [Truncated EXCEPT
                      ![machine_filename] = Encoding(Truncated[asm_filename])]
        /\ encoded' = TRUE
     \/ UNCHANGED <<disk, encoded>>
  /\ UNCHANGED <<run, arg, parse, after_error, status, output, before>>

(* A line can overrun an operand buffer (MachineCode!Overrun), which is    *)
(* noticed at once, when MachineFromAssembly returns, or never.            *)
DieInMachineFromAssembly ==
  /\ pc = "machine"
  /\ Truncated[asm_filename].kind = "assembly"
  /\ \E contents \in Cut(Encoding(Truncated[asm_filename]), "part of the machine code") :
        Written(machine_filename, contents)
  /\ Exit(SIGABRT) \/ Exit(SIGSEGV)
  /\ UNCHANGED <<run, arg, parse, after_error, output, before, encoded>>

(* The program's output is captured and printed when the interpreter has   *)
(* returned.                                                               *)
Interpret ==
  /\ pc = "interpret" /\ pc' = "return"
  /\ output' = IF parse.null THEN "ast_root is NULL" ELSE "output of the program"
  /\ UNCHANGED <<run, arg, parse, after_error, status, disk, before, encoded>>

(* The quotient that is no int (Interpreter!CrashesOnlyOnTrap): the        *)
(* program kills its compiler, with the output captured so far.            *)
DieInInterpret ==
  /\ pc = "interpret" /\ ~parse.null
  /\ Exit(SIGFPE)
  /\ UNCHANGED <<run, arg, parse, after_error, disk, output, before, encoded>>

(* Bug: the total that is printed decides the exit status too.             *)
ReturnTotal ==
  /\ pc = "return"
  /\ Exit(IF parse.result # 0 \/ error_count > 0 \/ after_error THEN 1 ELSE 0)
  /\ UNCHANGED <<run, arg, parse, after_error, disk, output, before, encoded>>

Return ==
  /\ pc = "return"
  /\ Exit(IF parse.result # 0 \/ error_count > 0 THEN 1 ELSE 0)
  /\ UNCHANGED <<run, arg, parse, after_error, disk, output, before, encoded>>

Finished == pc = "idle" /\ run = MaxRuns /\ UNCHANGED vars

Next ==
  \/ \E a \in Arg \cup {NoArg} : Invoke(a)
  \/ \E p \in Parse : Yyparse(p)
  \/ CheckContentAfterEndDelimiter
  \/ SaveAstTree \/ DieInSaveAstTree \/ SaveAstToFile
  \/ GenerateAssembly
  \/ MachineFromAssembly \/ DieInMachineFromAssembly
  \/ Interpret \/ DieInInterpret
  \/ Return \/ Finished

Spec == Init /\ [][Next]_vars

-----------------------------------------------------------------------------
(* Properties.                                                             *)

Contents == [kind : {"absent", "empty", "AST", "part of an AST", "assembly",
                     "machine code", "part of the machine code"},
             of : 0 .. MaxRuns]

TypeOK ==
  /\ pc \in {"idle", "yyparse", "check", "tree", "dump", "assembly", "machine",
             "interpret", "return"}
  /\ run \in 0 .. MaxRuns
  /\ arg \in Arg \cup {NoArg}
  /\ parse \in Parse
  /\ {after_error, encoded} \subseteq BOOLEAN
  /\ disk \in [File -> Contents] /\ before \in [File -> Contents]
  /\ status \in {0, 1} \cup Signals
  /\ output \in {"nothing", "Compilation failed", "ast_root is NULL",
                 "output of the program"}

Ended == pc = "idle" /\ run > 0

Others == File \ {Tree, Dump}

(* A build script's view of a failing invocation, whatever the reason.     *)
(* When main returned 1 - the input or the assembly file could not be      *)
(* opened, the program was refused - everything but the two AST files is   *)
(* as it was.  When a signal killed the process, the assembly file and the *)
(* machine-code file are the only others that can have changed: the        *)
(* assembly then is this invocation's, complete, and there is no machine   *)
(* code of this invocation, whole or in part, beside an older assembly -   *)
(* unless the two names are one.                                           *)
FailureKeepsOutputs ==
  /\ Ended /\ status = 1 => \A f \in Others : disk[f] = before[f]
  /\ Ended /\ status \in Signals =>
       /\ \A f \in Others \ {asm_filename, machine_filename} : disk[f] = before[f]
       /\ machine_filename # asm_filename =>
            /\ asm_filename \in Others =>
                 disk[asm_filename] \in {before[asm_filename], Made("assembly")}
            /\ disk[machine_filename] # before[machine_filename] =>
                 disk[asm_filename] = Made("assembly")
       /\ machine_filename = asm_filename =>
            disk[asm_filename] \in {before[asm_filename], Made("assembly"), Empty}

(* ... and of a successful one: the two files are a pair - the assembly of *)
(* this program and the encoding of that assembly - exactly when           *)
(* MachineFromAssembly, whose result main ignores, could open them and the *)
(* two names differ.  Otherwise an older machine code stays beside the new *)
(* assembly, under its own name, or both outputs are lost in one file.     *)
(* Nothing else but the AST files has changed.                             *)
SuccessIsConsistent ==
  Ended /\ status = 0 =>
    /\ encoded /\ machine_filename # asm_filename =>
         /\ disk[asm_filename] = Generated
         /\ disk[machine_filename] = Encoding(disk[asm_filename])
    /\ ~parse.null /\ disk[machine_filename] = Encoding(Made("assembly")) =>
         encoded /\ machine_filename # asm_filename
    /\ ~encoded => /\ disk[asm_filename] = Generated
                   /\ machine_filename # asm_filename =>
                        disk[machine_filename] = before[machine_filename]
    /\ encoded /\ machine_filename = asm_filename => disk[asm_filename] = Empty
    /\ \A f \in Others \ {asm_filename, machine_filename} : disk[f] = before[f]

(* The exit status tells a reader of stdout what kind of output it was,    *)
(* although gate, printed total and exit status are computed from          *)
(* different quantities: a program's output goes with 0 and only for a     *)
(* program with both delimiters and no counted error; a refused program    *)
(* with 1; and a process that was killed has printed nothing, not even     *)
(* what its program had printed before the trap.                           *)
StatusTellsOutput ==
  Ended =>
    /\ status = 0 <=> output \in {"ast_root is NULL", "output of the program"}
    /\ output = "Compilation failed" => status = 1
    /\ output \in {"ast_root is NULL", "output of the program"} =>
         /\ parse.result = 0 /\ parse.errors = 0
         /\ parse.found_prog_start /\ parse.found_prog_end

(* parser.y:834, 837: the machine code goes to a file named after the      *)
(* assembly file with .s replaced by .mc - so a successful invocation      *)
(* leaves its assembly in the one it was asked to write.                   *)
AssemblyIsKept ==
  Ended /\ status = 0 /\ ~parse.null => disk[asm_filename] = Made("assembly")

=============================================================================
