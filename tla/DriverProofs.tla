----------------------------- MODULE DriverProofs -----------------------------
(***************************************************************************)
(* Proofs about the driver: what an invocation leaves behind, for all      *)
(* names of files, all outcomes of the front end and of each fopen, every  *)
(* death between two files, and any number of invocations.                 *)
(***************************************************************************)
EXTENDS Driver, TLAPS

(***************************************************************************)
(* The inductive invariant.                                                *)
(***************************************************************************)

Early == {"yyparse", "check", "tree", "dump", "assembly"}

(* Nothing is newer than this invocation, and what was there before it is  *)
(* older.                                                                  *)
Dated == \A f \in File : disk[f].of <= run /\ (run > 0 => before[f].of < run)

(* The files as main finds and leaves them from call to call.              *)
Kept == \A f \in Others : disk[f] = before[f]

RestKept == \A f \in Others \ {asm_filename, machine_filename} : disk[f] = before[f]

Assembled ==
  /\ RestKept
  /\ disk[asm_filename] = Generated
  /\ machine_filename # asm_filename =>
       disk[machine_filename] = before[machine_filename]

Encoded ==
  /\ RestKept
  /\ machine_filename # asm_filename =>
       /\ disk[asm_filename] = Generated
       /\ disk[machine_filename] =
            IF encoded THEN Encoding(Generated) ELSE before[machine_filename]
  /\ machine_filename = asm_filename =>
       disk[asm_filename] = IF encoded THEN Empty ELSE Generated

Files ==
  /\ pc \in Early => Kept
  /\ pc = "machine" => Assembled
  /\ pc = "interpret" \/ (pc = "return" /\ Gate) => Encoded
  /\ pc = "return" /\ ~Gate => Kept

(* Behind the gate the program is accepted.                                *)
Accepted == pc \notin {"idle", "yyparse", "check", "return"} => Gate

(* What has been printed, and that nothing is encoded before its time.     *)
Quiet ==
  /\ pc # "idle" => run > 0
  /\ pc \notin {"idle", "return"} => output = "nothing"
  /\ pc = "return" =>
       output \in IF Gate THEN {"ast_root is NULL", "output of the program"}
                ELSE {"Compilation failed"}
  /\ pc \in Early \cup {"machine"} => ~encoded

Outcome == FailureKeepsOutputs /\ SuccessIsConsistent /\ StatusTellsOutput

IInv == TypeOK /\ Dated /\ Files /\ Accepted /\ Quiet /\ Outcome

LEMMA FileNames ==
  ASSUME arg \in Arg \cup {NoArg}
  PROVE  asm_filename \in File /\ machine_filename \in Others
<1>1. asm_filename \in File
  BY FileAssumption DEF asm_filename
<1>2. CASE arg = NoArg
  <2>1. DefaultMachine \in File /\ DefaultMachine \notin {Tree, Dump}
    BY FileAssumption DEF Tree, Dump, DefaultMachine
  <2>2. arg \notin DotS
    BY <1>2, FileAssumption
  <2>3. machine_filename = DefaultMachine
    BY <1>2, <2>2 DEF machine_filename
  <2> QED BY <1>1, <2>1, <2>3 DEF Others
<1>3. CASE arg # NoArg /\ arg \in DotS
  <2>1. machine_filename = arg
    BY <1>3 DEF machine_filename, asm_filename
  <2>3. arg \in File
    BY <1>3, FileAssumption
  <2>2. arg \notin {Tree, Dump}
    BY <1>3, FileAssumption
  <2> QED BY <1>1, <2>1, <2>2, <2>3 DEF Others
<1>4. CASE arg # NoArg /\ arg \notin DotS
  <2>1. machine_filename = WithMc[arg] /\ WithMc[arg] \in File \ {Tree, Dump}
    BY <1>4, FileAssumption DEF machine_filename
  <2> QED BY <1>1, <2>1 DEF Others
<1> QED BY <1>1, <1>2, <1>3, <1>4

LEMMA ContentsAre ==
  /\ Absent \in Contents /\ Empty \in Contents
  /\ \A c \in Contents : Encoding(c) \in Contents /\ Encoding(c).of <= c.of
  /\ run \in 0 .. MaxRuns =>
       /\ Made("AST") \in Contents /\ Made("assembly") \in Contents
       /\ Generated \in Contents
       /\ Cut(Made("AST"), "part of an AST") \subseteq Contents
  /\ \A c \in Contents : Cut(Encoding(c), "part of the machine code") \subseteq Contents
<1>1. 0 \in 0 .. MaxRuns /\ MaxRuns \in Nat
  BY RunAssumption
<1>2. Empty \in Contents /\ Absent \in Contents
  BY <1>1 DEF Empty, Absent, Contents
<1>3. ASSUME NEW c \in Contents
      PROVE  Encoding(c) \in Contents /\ Encoding(c).of <= c.of
  <2>1. c.of \in 0 .. MaxRuns
    BY DEF Contents
  <2>2. Encoding(c).of \in {c.of, 0}
    BY DEF Contents, Encoding, Empty
  <2>3. Encoding(c) \in Contents
    BY <1>2 DEF Contents, Encoding
  <2> QED BY <1>1, <2>1, <2>2, <2>3
<1>4. ASSUME NEW c \in Contents
      PROVE  /\ [c EXCEPT !.kind = "part of the machine code"] \in Contents
             /\ [c EXCEPT !.kind = "part of an AST"] \in Contents
  BY DEF Contents
<1>5. ASSUME run \in 0 .. MaxRuns
      PROVE  Made("AST") \in Contents /\ Made("assembly") \in Contents
  BY <1>5 DEF Made, Contents
<1> QED BY <1>2, <1>3, <1>4, <1>5 DEF Cut, Generated

(* What the gate means.                                                    *)
LEMMA GateMeans ==
  ASSUME parse \in Parse
  PROVE  /\ Gate => /\ parse.result = 0 /\ parse.errors = 0
                    /\ parse.found_prog_start /\ parse.found_prog_end
         /\ Gate <=> ~(parse.result # 0 \/ error_count > 0)
<1>1. parse.errors \in 0 .. 1 /\ parse.result \in 0 .. 2
  BY DEF Parse
<1> QED BY <1>1 DEF Gate, error_count

LEMMA InitInv ==
  ASSUME Init
  PROVE  IInv
<1>1. TypeOK
  <2>1. 0 \in 0 .. MaxRuns
    BY RunAssumption
  <2>2. NoParse \in Parse
    BY DEF NoParse, Parse
  <2> QED BY <2>1, <2>2, ContentsAre DEF Init, TypeOK
<1>2. ~Ended /\ pc = "idle" /\ run = 0
  BY DEF Init, Ended
<1>3. Dated
  <2>1. \A f \in File : disk[f].of = 0
    BY DEF Init, Absent
  <2>2. ~(run > 0) /\ \A f \in File : disk[f].of <= run
    BY <1>2, <2>1
  <2> QED BY <2>2 DEF Dated
<1> QED BY <1>1, <1>2, <1>3
     DEF IInv, Files, Early, Accepted, Quiet, Outcome, FailureKeepsOutputs,
         SuccessIsConsistent, StatusTellsOutput

(***************************************************************************)
(* Steps.                                                                  *)
(***************************************************************************)

LEMMA SignalsAre == 0 \notin Signals /\ 1 \notin Signals
BY DEF Signals, SIGABRT, SIGFPE, SIGSEGV

(* Within an invocation names, program and gate stay what they are.        *)
LEMMA Frame ==
  ASSUME UNCHANGED <<run, arg, parse, before>>
  PROVE  /\ asm_filename' = asm_filename /\ machine_filename' = machine_filename
         /\ Generated' = Generated /\ Made("assembly")' = Made("assembly")
         /\ Gate' = Gate /\ error_count' = error_count
         /\ Encoding(Generated)' = Encoding(Generated)
<1>1. asm_filename' = asm_filename
  BY DEF asm_filename
<1>2. Generated' = Generated /\ Made("assembly")' = Made("assembly")
  BY DEF Generated, Made, Empty
<1>3. error_count' = error_count
  BY DEF error_count
<1> QED BY <1>1, <1>2, <1>3 DEF machine_filename, Gate, Encoding, Empty

LEMMA RunsAreCounted ==
  ASSUME TypeOK
  PROVE  /\ run \in Nat /\ MaxRuns \in Nat
         /\ \A f \in File : disk[f].of \in Nat
<1>1. MaxRuns \in Nat /\ run \in 0 .. MaxRuns
  BY RunAssumption DEF TypeOK
<1>2. \A f \in File : disk[f] \in Contents
  BY DEF TypeOK
<1>3. ASSUME NEW c \in Contents PROVE c.of \in Nat
  <2>1. c.of \in 0 .. MaxRuns
    BY DEF Contents
  <2> QED BY <1>1, <2>1
<1> QED BY <1>1, <1>2, <1>3

(* What is made now is of this run.                                        *)
LEMMA MadeNow ==
  ASSUME TypeOK
  PROVE  /\ Made("AST") \in Contents /\ Made("AST").of <= run
         /\ Generated \in Contents /\ Generated.of <= run
         /\ \A c \in Cut(Made("AST"), "part of an AST") :
              c \in Contents /\ c.of <= run
         /\ \A c \in Contents : c.of <= run =>
              \A part \in Cut(Encoding(c), "part of the machine code") :
                part \in Contents /\ part.of <= run
<1>1. run \in Nat /\ 0 <= run /\ run <= run
  BY RunsAreCounted
<1>2. run \in 0 .. MaxRuns
  BY DEF TypeOK
<1>3. Made("AST").of = run /\ Made("assembly").of = run /\ Empty.of = 0
  BY DEF Made, Empty
<1>4. Generated.of <= run
  BY <1>1, <1>3 DEF Generated
<1>5. ASSUME NEW c \in Cut(Made("AST"), "part of an AST")
      PROVE  c \in Contents /\ c.of <= run
  <2>1. c \in Contents
    BY <1>2, ContentsAre
  <2>2. [Made("AST") EXCEPT !.kind = "part of an AST"].of = run
    BY DEF Made
  <2>3. c.of \in {0, run}
    BY <1>3, <2>2 DEF Cut
  <2> QED BY <1>1, <2>1, <2>3
<1>6. ASSUME NEW c \in Contents, c.of <= run,
             NEW part \in Cut(Encoding(c), "part of the machine code")
      PROVE  part \in Contents /\ part.of <= run
  <2>1. part \in Contents
    BY ContentsAre
  <2>2. Encoding(c).of \in {0, c.of}
    BY <1>3 DEF Encoding, Contents
  <2>3. [Encoding(c) EXCEPT !.kind = "part of the machine code"].of = Encoding(c).of
    BY ContentsAre DEF Contents
  <2>4. part.of \in {0, Encoding(c).of}
    BY <1>3, <2>3 DEF Cut
  <2> QED BY <1>1, <1>6, <2>1, <2>2, <2>4
<1> QED BY <1>1, <1>2, <1>3, <1>4, <1>5, <1>6, ContentsAre

(* Writing one file with something of this invocation.                     *)
LEMMA WriteOne ==
  ASSUME TypeOK, Dated, UNCHANGED <<run, before>>, NEW name \in File,
         NEW contents \in Contents, contents.of <= run, Written(name, contents)
  PROVE  /\ disk' \in [File -> Contents] /\ Dated'
         /\ disk'[name] = contents
         /\ \A f \in File \ {name} : disk'[f] = disk[f]
<1>1. disk \in [File -> Contents]
  BY DEF TypeOK
<1> QED BY <1>1 DEF Written, Dated

(* A process that ends without having printed anything.                    *)
LEMMA FailInv ==
  ASSUME IInv, pc' = "idle", status' \in {1} \cup Signals,
         output = "nothing", UNCHANGED <<run, arg, parse, after_error, output, before, encoded>>,
         disk' \in [File -> Contents], Dated', FailureKeepsOutputs'
  PROVE  IInv'
<1>1. TypeOK'
  BY DEF IInv, TypeOK
<1>2. status' # 0
  BY DEF Signals, SIGABRT, SIGFPE, SIGSEGV
<1>3. Files' /\ Accepted' /\ Quiet'
  BY DEF Files, Early, Accepted, Quiet
<1>4. SuccessIsConsistent' /\ StatusTellsOutput'
  BY <1>2 DEF SuccessIsConsistent, StatusTellsOutput
<1> QED BY <1>1, <1>3, <1>4 DEF IInv, Outcome

(* From one call to the next.                                              *)
LEMMA GoOn ==
  ASSUME TypeOK', Dated', Files', Accepted', Quiet', pc' # "idle"
  PROVE  IInv'
<1>1. ~Ended'
  BY DEF Ended
<1> QED BY <1>1
     DEF IInv, Outcome, FailureKeepsOutputs, SuccessIsConsistent, StatusTellsOutput

(* What a signal finds before the assembly file is opened.                 *)
LEMMA DieEarly ==
  ASSUME TypeOK, \A f \in Others : disk'[f] = before[f], UNCHANGED <<run, arg, parse, before>>
  PROVE  FailureKeepsOutputs'
<1>1. asm_filename \in File /\ machine_filename \in Others
  BY FileNames DEF TypeOK
<1>2. machine_filename = asm_filename => disk'[asm_filename] = before[asm_filename]
  BY <1>1
<1>3. asm_filename \in Others => disk'[asm_filename] = before[asm_filename]
  OBVIOUS
<1>4. disk'[machine_filename] = before[machine_filename]
  BY <1>1
<1> QED BY <1>1, <1>2, <1>3, <1>4, Frame DEF FailureKeepsOutputs

LEMMA InvokeInv ==
  ASSUME IInv, NEW a \in Arg \cup {NoArg}, Invoke(a)
  PROVE  IInv'
<1>1. /\ TypeOK /\ Dated /\ run' = run + 1 /\ run < MaxRuns /\ arg' = a
      /\ parse' = NoParse /\ after_error' = FALSE /\ before' = disk /\ disk' = disk
      /\ output' = "nothing" /\ encoded' = FALSE
      /\ \/ pc' = "yyparse" /\ status' = status
         \/ pc' = "idle" /\ status' = 1
  BY DEF Invoke, Exit, IInv
<1>2. TypeOK' /\ run' > 0 /\ Dated'
  <2>1. NoParse \in Parse
    BY DEF NoParse, Parse
  <2>2. run \in 0 .. MaxRuns /\ MaxRuns \in Nat
    BY <1>1, RunAssumption DEF TypeOK
  <2>3. run' \in 0 .. MaxRuns /\ run' > 0
    BY <1>1, <2>2
  <2>4. \A f \in File : disk[f].of \in Nat
    BY <1>1, RunsAreCounted
  <2>5. Dated'
    BY <1>1, <2>2, <2>4 DEF Dated
  <2> QED BY <1>1, <2>1, <2>3, <2>5 DEF TypeOK
<1>3. Files' /\ Accepted' /\ Quiet'
  BY <1>1, <1>2 DEF Files, Early, Kept, Others, Accepted, Quiet
<1>4. CASE pc' = "yyparse"
  BY <1>2, <1>3, <1>4, GoOn
<1>5. CASE pc' = "idle" /\ status' = 1
  <2>1. FailureKeepsOutputs'
    BY <1>1, <1>5
       DEF FailureKeepsOutputs, Others, Signals, SIGABRT, SIGFPE, SIGSEGV
  <2>2. SuccessIsConsistent' /\ StatusTellsOutput'
    BY <1>1, <1>5 DEF SuccessIsConsistent, StatusTellsOutput
  <2> QED BY <1>2, <1>3, <2>1, <2>2 DEF IInv, Outcome
<1> QED BY <1>1, <1>4, <1>5

LEMMA YyparseInv ==
  ASSUME IInv, NEW p \in Parse, Yyparse(p)
  PROVE  IInv'
<1>1. /\ pc = "yyparse" /\ TypeOK /\ Dated /\ Kept /\ output = "nothing" /\ ~encoded
      /\ run > 0
      /\ UNCHANGED <<run, arg, after_error, disk, output, before, encoded>>
  BY DEF Yyparse, Early, IInv, Files, Quiet
<1>2. Dated' /\ \A f \in Others : disk'[f] = before[f]
  BY <1>1 DEF Dated, Kept
<1>3. CASE parse' = p /\ pc' = "check" /\ status' = status
  <2>1. TypeOK'
    BY <1>1, <1>3 DEF TypeOK
  <2>2. Files' /\ Accepted' /\ Quiet'
    BY <1>1, <1>2, <1>3 DEF Files, Kept, Others, Early, Accepted, Quiet
  <2> QED BY <1>2, <1>3, <2>1, <2>2, GoOn
<1>4. CASE Exit(SIGSEGV) /\ parse' = parse
  <2>1. pc' = "idle" /\ status' \in {1} \cup Signals
    BY <1>4 DEF Exit, Signals
  <2>2. FailureKeepsOutputs'
    BY <1>1, <1>2, <1>4, DieEarly
  <2> QED BY <1>1, <1>2, <1>4, <2>1, <2>2, FailInv DEF TypeOK
<1> QED BY <1>3, <1>4 DEF Yyparse

LEMMA CheckInv ==
  ASSUME IInv, CheckContentAfterEndDelimiter
  PROVE  IInv'
<1>1. /\ pc = "check" /\ TypeOK /\ Dated /\ Kept /\ output = "nothing" /\ ~encoded
      /\ run > 0 /\ after_error' \in BOOLEAN
      /\ UNCHANGED <<run, arg, parse, status, disk, before, encoded>>
      /\ \/ Gate /\ pc' = "tree" /\ output' = output
         \/ ~Gate /\ pc' = "return" /\ output' = "Compilation failed"
  BY DEF CheckContentAfterEndDelimiter, Early, IInv, Files, Quiet
<1>2. Dated' /\ Kept' /\ Gate' = Gate
  BY <1>1, Frame DEF Dated, Kept, Others
<1>3. TypeOK'
  BY <1>1 DEF TypeOK
<1>4. Files' /\ Accepted' /\ Quiet'
  BY <1>1, <1>2 DEF Files, Early, Accepted, Quiet
<1> QED BY <1>1, <1>2, <1>3, <1>4, GoOn

LEMMA SaveAstInv ==
  ASSUME IInv, SaveAstTree \/ SaveAstToFile
  PROVE  IInv'
<1>1. PICK name \in {Tree, Dump} :
        /\ pc \in {"tree", "dump"} /\ pc' \in {"dump", "assembly"}
        /\ Written(name, Made("AST")) \/ UNCHANGED disk
        /\ UNCHANGED <<run, arg, parse, after_error, status, output, before, encoded>>
  BY DEF SaveAstTree, SaveAstToFile, SaveAst
<1>2. /\ TypeOK /\ Dated /\ Kept /\ Gate /\ output = "nothing" /\ ~encoded /\ run > 0
      /\ name \in File
  BY <1>1, FileAssumption DEF IInv, Files, Early, Accepted, Quiet
<1>3. Made("AST") \in Contents /\ Made("AST").of <= run
  BY <1>2, MadeNow
<1>4. disk' \in [File -> Contents] /\ Dated' /\ Kept'
  <2>1. CASE UNCHANGED disk
    BY <1>1, <1>2, <2>1 DEF TypeOK, Dated, Kept, Others
  <2>2. CASE Written(name, Made("AST"))
    <3>1. /\ disk' \in [File -> Contents] /\ Dated'
          /\ \A f \in File \ {name} : disk'[f] = disk[f]
      BY <1>1, <1>2, <1>3, <2>2, WriteOne
    <3> QED BY <1>1, <1>2, <3>1 DEF Kept, Others
  <2> QED BY <1>1, <2>1, <2>2
<1>5. TypeOK'
  BY <1>1, <1>2, <1>4 DEF TypeOK
<1>6. Files' /\ Accepted' /\ Quiet'
  BY <1>1, <1>2, <1>4, Frame DEF Files, Early, Accepted, Quiet
<1> QED BY <1>1, <1>4, <1>5, <1>6, GoOn

LEMMA DieInSaveAstTreeInv ==
  ASSUME IInv, DieInSaveAstTree
  PROVE  IInv'
<1>1. PICK contents \in Cut(Made("AST"), "part of an AST") :
        /\ pc = "tree" /\ Written(Tree, contents) /\ pc' = "idle" /\ status' \in Signals
        /\ UNCHANGED <<run, arg, parse, after_error, output, before, encoded>>
  BY DEF DieInSaveAstTree, Exit, Signals
<1>2. TypeOK /\ Dated /\ Kept /\ output = "nothing" /\ Tree \in File
  BY <1>1, FileAssumption DEF IInv, Files, Early, Quiet
<1>3. contents \in Contents /\ contents.of <= run
  BY <1>2, MadeNow
<1>4. /\ disk' \in [File -> Contents] /\ Dated'
      /\ \A f \in File \ {Tree} : disk'[f] = disk[f]
  BY <1>1, <1>2, <1>3, WriteOne
<1>5. FailureKeepsOutputs'
  <2>1. \A f \in Others : disk'[f] = before[f]
    BY <1>2, <1>4 DEF Kept, Others
  <2> QED BY <1>1, <1>2, <2>1, DieEarly
<1> QED BY <1>1, <1>2, <1>4, <1>5, FailInv

LEMMA GenerateAssemblyInv ==
  ASSUME IInv, GenerateAssembly
  PROVE  IInv'
<1>1. /\ pc = "assembly" /\ TypeOK /\ Dated /\ Kept /\ Gate /\ output = "nothing"
      /\ ~encoded /\ run > 0
      /\ UNCHANGED <<run, arg, parse, after_error, output, before, encoded>>
  BY DEF GenerateAssembly, Early, IInv, Files, Accepted, Quiet
<1>2. asm_filename \in File /\ machine_filename \in Others
  BY <1>1, FileNames DEF TypeOK
<1>3. CASE Exit(1) /\ UNCHANGED disk
  <2>1. pc' = "idle" /\ status' \in {1} \cup Signals
    BY <1>3 DEF Exit
  <2>2. Dated' /\ disk' \in [File -> Contents]
    BY <1>1, <1>3 DEF Dated, TypeOK
  <2>3. FailureKeepsOutputs'
    BY <1>1, <1>3, DieEarly DEF Kept
  <2> QED BY <1>1, <2>1, <2>2, <2>3, FailInv
<1>4. CASE Written(asm_filename, Generated) /\ pc' = "machine" /\ UNCHANGED status
  <2>1. Generated \in Contents /\ Generated.of <= run
    BY <1>1, MadeNow
  <2>2. /\ disk' \in [File -> Contents] /\ Dated' /\ disk'[asm_filename] = Generated
        /\ \A f \in File \ {asm_filename} : disk'[f] = disk[f]
    BY <1>1, <1>2, <1>4, <2>1, WriteOne
  <2>3. TypeOK'
    BY <1>1, <1>4, <2>2 DEF TypeOK
  <2>4. Assembled'
    <3>1. \A f \in Others \ {asm_filename, machine_filename} : disk'[f] = before[f]
      BY <1>1, <2>2 DEF Kept, Others
    <3>2. machine_filename # asm_filename =>
            disk'[machine_filename] = before[machine_filename]
      BY <1>1, <1>2, <2>2 DEF Kept, Others
    <3> QED BY <1>1, <2>2, <3>1, <3>2, Frame DEF Assembled, RestKept
  <2>5. Files' /\ Accepted' /\ Quiet'
    BY <1>1, <1>4, <2>4, Frame DEF Files, Early, Accepted, Quiet
  <2> QED BY <1>4, <2>2, <2>3, <2>5, GoOn
<1> QED BY <1>3, <1>4 DEF GenerateAssembly

(* The output is truncated first; the input survives under another name.   *)
LEMMA MachineFromAssemblyInv ==
  ASSUME IInv, MachineFromAssembly
  PROVE  IInv'
<1>1. /\ pc = "machine" /\ pc' = "interpret" /\ TypeOK /\ Dated /\ Assembled /\ Gate
      /\ ~encoded /\ run > 0 /\ output = "nothing"
      /\ UNCHANGED <<run, arg, parse, after_error, status, output, before>>
  BY DEF MachineFromAssembly, Early, IInv, Files, Accepted, Quiet
<1>2. /\ asm_filename \in File /\ machine_filename \in Others
      /\ machine_filename \in File /\ disk \in [File -> Contents]
  BY <1>1, FileNames DEF TypeOK, Others
<1>3. disk' \in [File -> Contents] /\ encoded' \in BOOLEAN /\ Dated' /\ Encoded'
  <2>1. CASE UNCHANGED <<disk, encoded>>
    <3>1. Dated'
      BY <1>1, <2>1 DEF Dated
    <3>2. Encoded'
      BY <1>1, <2>1, Frame DEF Assembled, Encoded, RestKept, Others
    <3>3. encoded' \in BOOLEAN /\ disk' = disk
      BY <1>1, <2>1 DEF TypeOK
    <3> QED BY <1>2, <3>1, <3>2, <3>3
  <2>2. CASE /\ disk' = [Truncated EXCEPT
                           ![machine_filename] = Encoding(Truncated[asm_filename])]
             /\ encoded' = TRUE
    <3> DEFINE machine == Encoding(Truncated[asm_filename])
    <3>1. /\ Truncated \in [File -> Contents]
          /\ machine_filename # asm_filename => Truncated[asm_filename] = Generated
          /\ machine_filename = asm_filename => Truncated[asm_filename] = Empty
          /\ \A f \in File \ {machine_filename} : Truncated[f] = disk[f]
      BY <1>1, <1>2, ContentsAre DEF Truncated, Assembled
    <3>2. Encoding(Empty) = Empty
      BY DEF Encoding, Empty
    <3>3. machine \in Cut(machine, "part of the machine code")
      BY DEF Cut
    <3>4. Truncated[asm_filename] \in Contents /\ Truncated[asm_filename].of <= run
      <4>1. 0 <= run /\ Empty.of = 0
        BY <1>1, RunsAreCounted DEF Empty
      <4>2. Empty \in Contents /\ Generated \in Contents /\ Generated.of <= run
        BY <1>1, MadeNow, ContentsAre
      <4> QED BY <3>1, <4>1, <4>2
    <3>5. machine \in Contents /\ machine.of <= run
      BY <1>1, <3>3, <3>4, MadeNow
    <3>6. /\ disk' \in [File -> Contents]
          /\ disk'[machine_filename] = machine
          /\ \A f \in File \ {machine_filename} : disk'[f] = disk[f]
      <4> HIDE DEF machine
      <4>1. disk' = [Truncated EXCEPT ![machine_filename] = machine]
        BY <2>2 DEF machine
      <4> QED BY <1>2, <3>1, <3>5, <4>1
    <3>7. Dated'
      BY <1>1, <3>5, <3>6 DEF Dated
    <3>8. Encoded'
      <4>1. \A f \in Others \ {asm_filename, machine_filename} : disk'[f] = before[f]
        BY <1>1, <3>6 DEF Assembled, RestKept, Others
      <4>2. machine_filename # asm_filename =>
              disk'[asm_filename] = Generated /\ disk'[machine_filename] = Encoding(Generated)
        BY <1>1, <1>2, <3>1, <3>6 DEF Assembled
      <4>3. machine_filename = asm_filename => disk'[asm_filename] = Empty
        BY <3>1, <3>2, <3>6
      <4>4. before' = before /\ encoded'
        BY <1>1, <2>2
      <4> HIDE DEF machine
      <4> QED BY <1>1, <4>1, <4>2, <4>3, <4>4, Frame DEF Encoded, RestKept, Others
    <3> QED BY <2>2, <3>6, <3>7, <3>8
  <2> QED BY <2>1, <2>2 DEF MachineFromAssembly
<1>4. TypeOK'
  BY <1>1, <1>3 DEF TypeOK
<1>5. Files' /\ Accepted' /\ Quiet'
  BY <1>1, <1>3, Frame DEF Files, Early, Accepted, Quiet
<1> QED BY <1>1, <1>3, <1>4, <1>5, GoOn

LEMMA DieInMachineFromAssemblyInv ==
  ASSUME IInv, DieInMachineFromAssembly
  PROVE  IInv'
<1>1. PICK contents \in Cut(Encoding(Truncated[asm_filename]), "part of the machine code") :
        /\ pc = "machine" /\ Truncated[asm_filename].kind = "assembly"
        /\ Written(machine_filename, contents) /\ pc' = "idle" /\ status' \in Signals
        /\ UNCHANGED <<run, arg, parse, after_error, output, before, encoded>>
  BY DEF DieInMachineFromAssembly, Exit, Signals
<1>2. /\ TypeOK /\ Dated /\ Assembled /\ output = "nothing"
      /\ asm_filename \in File /\ machine_filename \in File /\ machine_filename \in Others
      /\ disk \in [File -> Contents]
  BY <1>1, FileNames DEF IInv, TypeOK, Files, Quiet, Others
<1>3. machine_filename # asm_filename /\ Truncated[asm_filename] = Generated
  <2>1. machine_filename = asm_filename => Truncated[asm_filename] = Empty
    BY <1>2 DEF Truncated
  <2>2. Empty.kind = "empty"
    BY DEF Empty
  <2>3. Truncated[asm_filename] # Empty
    BY <1>1, <2>2
  <2>4. machine_filename # asm_filename
    BY <2>1, <2>3
  <2> QED BY <1>2, <2>4 DEF Truncated, Assembled
<1>4. contents \in Contents /\ contents.of <= run
  BY <1>1, <1>2, <1>3, MadeNow
<1>5. /\ disk' \in [File -> Contents] /\ Dated'
      /\ \A f \in File \ {machine_filename} : disk'[f] = disk[f]
  BY <1>1, <1>2, <1>4, WriteOne
<1>6. FailureKeepsOutputs'
  <2>1. \A f \in Others \ {asm_filename, machine_filename} : disk'[f] = before[f]
    BY <1>2, <1>5 DEF Assembled, RestKept, Others
  <2>2. Generated = Made("assembly")
    <3>1. Generated.kind = "assembly" /\ Empty.kind = "empty"
      BY <1>1, <1>3 DEF Empty
    <3>2. Generated # Empty
      BY <3>1
    <3> QED BY <3>2 DEF Generated
  <2>3. disk'[asm_filename] = Made("assembly")
    BY <1>2, <1>3, <1>5, <2>2 DEF Assembled
  <2>4. status' # 1
    BY <1>1, SignalsAre
  <2> QED BY <1>1, <1>3, <2>1, <2>3, <2>4, Frame DEF FailureKeepsOutputs, Others
<1> QED BY <1>1, <1>2, <1>5, <1>6, FailInv

LEMMA InterpretInv ==
  ASSUME IInv, Interpret
  PROVE  IInv'
<1>1. /\ pc = "interpret" /\ pc' = "return" /\ TypeOK /\ Dated /\ Encoded /\ Gate /\ run > 0
      /\ output' \in {"ast_root is NULL", "output of the program"}
      /\ UNCHANGED <<run, arg, parse, after_error, status, disk, before, encoded>>
  BY DEF Interpret, IInv, Files, Accepted, Quiet
<1>2. TypeOK' /\ Dated'
  BY <1>1 DEF TypeOK, Dated
<1>3. Encoded' /\ Gate'
  BY <1>1, Frame DEF Encoded, RestKept, Others
<1>4. Files' /\ Accepted' /\ Quiet'
  BY <1>1, <1>3 DEF Files, Early, Accepted, Quiet
<1> QED BY <1>1, <1>2, <1>4, GoOn

LEMMA DieInInterpretInv ==
  ASSUME IInv, DieInInterpret
  PROVE  IInv'
<1>1. /\ pc = "interpret" /\ ~parse.null /\ TypeOK /\ Dated /\ Encoded /\ output = "nothing"
      /\ pc' = "idle" /\ status' = SIGFPE
      /\ UNCHANGED <<run, arg, parse, after_error, disk, output, before, encoded>>
  BY DEF DieInInterpret, Exit, IInv, Files, Quiet
<1>2. disk' \in [File -> Contents] /\ Dated'
  BY <1>1 DEF TypeOK, Dated
<1>3. Generated = Made("assembly")
  BY <1>1 DEF Generated
<1>4. FailureKeepsOutputs'
  <2>1. status' # 1
    BY <1>1 DEF SIGFPE
  <2>2. machine_filename # asm_filename => disk[asm_filename] = Made("assembly")
    BY <1>1, <1>3 DEF Encoded
  <2>3. machine_filename = asm_filename =>
          disk[asm_filename] \in {Made("assembly"), Empty}
    BY <1>1, <1>3 DEF Encoded
  <2> QED BY <1>1, <2>1, <2>2, <2>3, Frame
         DEF FailureKeepsOutputs, Encoded, RestKept, Others
<1> QED BY <1>1, <1>2, <1>4, FailInv DEF Signals

LEMMA ReturnInv ==
  ASSUME IInv, Return
  PROVE  IInv'
<1>1. /\ pc = "return" /\ pc' = "idle" /\ TypeOK /\ Dated /\ parse \in Parse
      /\ UNCHANGED <<run, arg, parse, after_error, disk, output, before, encoded>>
      /\ status' = IF parse.result # 0 \/ error_count > 0 THEN 1 ELSE 0
      /\ output \in IF Gate THEN {"ast_root is NULL", "output of the program"}
                   ELSE {"Compilation failed"}
  BY DEF Return, Exit, IInv, TypeOK, Quiet
<1>2. status' = IF Gate THEN 0 ELSE 1
  BY <1>1, GateMeans
<1>3. TypeOK' /\ Dated'
  BY <1>1, <1>2 DEF TypeOK, Dated
<1>4. Files' /\ Accepted' /\ Quiet'
  BY <1>1 DEF Files, Early, Accepted, Quiet
<1>5. StatusTellsOutput'
  <2>1. CASE Gate
    <3>1. /\ status' = 0 /\ output' \in {"ast_root is NULL", "output of the program"}
          /\ parse'.result = 0 /\ parse'.errors = 0
          /\ parse'.found_prog_start /\ parse'.found_prog_end
      BY <1>1, <1>2, <2>1, GateMeans
    <3> QED BY <3>1 DEF StatusTellsOutput
  <2>2. CASE ~Gate
    <3>1. output = "Compilation failed"
      BY <1>1, <2>2
    <3>2. output' = "Compilation failed"
      BY <1>1, <3>1
    <3>3. status' = 1
      BY <1>2, <2>2
    <3>4. output' \notin {"ast_root is NULL", "output of the program"}
      <4>1. "Compilation failed" \notin {"ast_root is NULL", "output of the program"}
        OBVIOUS
      <4> QED BY <3>2, <4>1, Zenon
    <3>5. status' # 0
      <4>1. 1 # 0
        OBVIOUS
      <4> QED BY <3>3, <4>1, Zenon
    <3> QED BY <3>3, <3>4, <3>5 DEF StatusTellsOutput
  <2> QED BY <2>1, <2>2
<1>6. CASE Gate
  <2>1. Encoded /\ status' = 0
    BY <1>1, <1>2, <1>6 DEF IInv, Files
  <2>2. FailureKeepsOutputs'
    BY <2>1 DEF FailureKeepsOutputs, Signals, SIGABRT, SIGFPE, SIGSEGV
  <2>3. machine_filename \in File
    BY <1>1, FileNames DEF TypeOK, Others
  <2>4. ~parse.null /\ disk[machine_filename] = Encoding(Made("assembly")) =>
          encoded /\ machine_filename # asm_filename
    <3> SUFFICES ASSUME ~parse.null, disk[machine_filename] = Encoding(Made("assembly")),
                        ~(encoded /\ machine_filename # asm_filename)
                 PROVE  FALSE
      OBVIOUS
    <3>1. Encoding(Made("assembly")) = Made("machine code")
      BY DEF Encoding, Made
    <3>2. disk[machine_filename] = [kind |-> "machine code", of |-> run]
      BY <3>1 DEF Made
    <3>3. run \in Nat /\ before[machine_filename].of < run
      BY <1>1, <2>3, RunsAreCounted DEF IInv, Dated, Quiet
    <3>4. disk[machine_filename] # before[machine_filename]
      <4>1. before[machine_filename].of # run
        BY <3>3
      <4>2. [kind |-> "machine code", of |-> run].of = run
        OBVIOUS
      <4>3. disk[machine_filename].of = run
        BY <3>2, <4>2, Zenon
      <4> QED BY <4>1, <4>3
    <3>5. machine_filename = asm_filename
      BY <2>1, <3>4 DEF Encoded
    <3>6. disk[asm_filename] \in {Empty, Generated}
      BY <2>1, <3>5 DEF Encoded
    <3>7. disk[asm_filename].kind \in {"empty", "assembly"}
      BY <3>6 DEF Generated, Made, Empty
    <3>8. disk[asm_filename] = [kind |-> "machine code", of |-> run]
      BY <3>2, <3>5
    <3>9. [kind |-> "machine code", of |-> run].kind = "machine code"
      OBVIOUS
    <3>10. disk[asm_filename].kind = "machine code"
      BY <3>8, <3>9, Zenon
    <3> QED BY <3>7, <3>10
  <2>5. SuccessIsConsistent'
    <3>1. RestKept /\ (machine_filename # asm_filename =>
             /\ disk[asm_filename] = Generated
             /\ disk[machine_filename] =
                  IF encoded THEN Encoding(Generated) ELSE before[machine_filename])
          /\ (machine_filename = asm_filename =>
             disk[asm_filename] = IF encoded THEN Empty ELSE Generated)
      BY <2>1 DEF Encoded
    <3>2. encoded /\ machine_filename # asm_filename =>
            /\ disk[asm_filename] = Generated
            /\ disk[machine_filename] = Encoding(disk[asm_filename])
      BY <3>1
    <3>3. ~encoded => /\ disk[asm_filename] = Generated
                      /\ machine_filename # asm_filename =>
                           disk[machine_filename] = before[machine_filename]
      BY <3>1
    <3>4. encoded /\ machine_filename = asm_filename => disk[asm_filename] = Empty
      BY <3>1
    <3>5. \A c : Encoding(c)' = Encoding(c)
      BY DEF Encoding, Empty
    <3> QED BY <1>1, <2>4, <3>1, <3>2, <3>3, <3>4, Frame
           DEF SuccessIsConsistent, RestKept, Others, Encoding, Empty
  <2> QED BY <1>3, <1>4, <1>5, <2>2, <2>5 DEF IInv, Outcome
<1>7. CASE ~Gate
  <2>1. Kept /\ status' = 1
    BY <1>1, <1>2, <1>7 DEF IInv, Files
  <2>2. FailureKeepsOutputs'
    <3>1. status' \notin Signals
      BY <2>1 DEF Signals, SIGABRT, SIGFPE, SIGSEGV
    <3>2. Kept'
      BY <1>1, <2>1 DEF Kept, Others
    <3>3. Signals' = Signals
      BY DEF Signals, SIGABRT, SIGFPE, SIGSEGV
    <3> QED BY <3>1, <3>2, <3>3 DEF FailureKeepsOutputs, Kept
  <2>3. SuccessIsConsistent'
    BY <2>1 DEF SuccessIsConsistent
  <2> QED BY <1>3, <1>4, <1>5, <2>2, <2>3 DEF IInv, Outcome
<1> QED BY <1>6, <1>7

LEMMA StutterInv ==
  ASSUME IInv, UNCHANGED vars
  PROVE  IInv'
<1>1. UNCHANGED <<pc, run, arg, parse, after_error, disk, status, output, before, encoded>>
  BY DEF vars
<1>2. TypeOK' /\ Dated' /\ Accepted' /\ Quiet'
  <2>1. TypeOK'
    BY <1>1 DEF IInv, TypeOK
  <2>2. Dated'
    BY <1>1 DEF IInv, Dated
  <2>3. Gate' = Gate /\ Accepted /\ Quiet
    BY <1>1, Frame DEF IInv
  <2>4. Accepted'
    BY <1>1, <2>3 DEF Accepted
  <2>5. Quiet'
    BY <1>1, <2>3 DEF Quiet, Early
  <2> QED BY <2>1, <2>2, <2>4, <2>5
<1>3. Kept' = Kept /\ RestKept' = RestKept /\ Assembled' = Assembled /\ Encoded' = Encoded
  BY <1>1, Frame DEF Kept, RestKept, Assembled, Encoded, Others
<1>4. Files'
  BY <1>1, <1>3, Frame DEF IInv, Files
<1>5. FailureKeepsOutputs' /\ SuccessIsConsistent' /\ StatusTellsOutput'
  BY <1>1, Frame
     DEF IInv, Outcome, Ended, FailureKeepsOutputs, SuccessIsConsistent, StatusTellsOutput,
         Others, Encoding, Empty, Made
<1> QED BY <1>2, <1>4, <1>5 DEF IInv, Outcome

LEMMA StepInv ==
  ASSUME IInv, [Next]_vars
  PROVE  IInv'
<1>1. ASSUME NEW a \in Arg \cup {NoArg}, Invoke(a) PROVE IInv'
  BY <1>1, InvokeInv
<1>2. ASSUME NEW p \in Parse, Yyparse(p) PROVE IInv'
  BY <1>2, YyparseInv
<1>3. CASE CheckContentAfterEndDelimiter \/ SaveAstTree \/ SaveAstToFile \/ GenerateAssembly
  BY <1>3, CheckInv, SaveAstInv, GenerateAssemblyInv
<1>4. CASE MachineFromAssembly \/ Interpret \/ Return
  BY <1>4, MachineFromAssemblyInv, InterpretInv, ReturnInv
<1>5. CASE DieInSaveAstTree \/ DieInMachineFromAssembly \/ DieInInterpret
  BY <1>5, DieInSaveAstTreeInv, DieInMachineFromAssemblyInv, DieInInterpretInv
<1>6. CASE Finished \/ UNCHANGED vars
  BY <1>6, StutterInv DEF Finished
<1> QED BY <1>1, <1>2, <1>3, <1>4, <1>5, <1>6 DEF Next

LEMMA Invariance == Spec => []IInv
BY InitInv, StepInv, PTL DEF Spec

(***************************************************************************)
(* The theorems.                                                           *)
(***************************************************************************)

(* The files hold what the program can have written there, whole or cut by *)
(* a signal, main is at one of its calls, and the status is a return value *)
(* of main or one of three signals.                                        *)
THEOREM TypeCorrect == Spec => []TypeOK
BY Invariance, PTL DEF IInv

(* An invocation that returns 1 has written nothing but the two AST files; *)
(* one that is killed, at whatever call, has changed at most the assembly  *)
(* and the machine code besides, and left no machine code of its own       *)
(* beside an older assembly.                                               *)
THEOREM FailuresKeepOutputs == Spec => []FailureKeepsOutputs
BY Invariance, PTL DEF IInv, Outcome

(* After a success the machine code is this invocation's encoding of the   *)
(* assembly beside it exactly if MachineFromAssembly could open its files  *)
(* and the names differ; what is there otherwise is the earlier machine    *)
(* code, or nothing.                                                       *)
THEOREM SuccessesAreConsistent == Spec => []SuccessIsConsistent
BY Invariance, PTL DEF IInv, Outcome

(* The exit status is 0 exactly when a program's output was printed, and   *)
(* only for a program that passed the gate; a killed process has printed   *)
(* nothing.                                                                *)
THEOREM StatusIsRight == Spec => []StatusTellsOutput
BY Invariance, PTL DEF IInv, Outcome

=============================================================================
