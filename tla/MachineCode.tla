----------------------------- MODULE MachineCode -----------------------------
(***************************************************************************)
(* The encoder (machine_code.c): it reads the assembly file with fgets     *)
(* into a buffer of fixed size, decides by a few substrings whether what   *)
(* it got is to be skipped, and otherwise matches it against one sscanf    *)
(* format after the other and writes a 32-bit word.                        *)
(*                                                                         *)
(* A line is its length, what its beginning is, and what a piece from its  *)
(* middle can look like; a name is what the formats and the symbol table   *)
(* tell apart about it.  The middle of a text can also look like an        *)
(* instruction that assembly.c never writes: its word is some word, and    *)
(* its registers may be longer than their buffers.                         *)
(***************************************************************************)
EXTENDS Integers, Sequences, FiniteSets

CONSTANTS
  Name,        \* identifiers and labels
  OffsetOf,    \* OffsetOf[n]: GetOffsetOfTheSymbol, -1 for an unknown name
  Operand,     \* Operand[n]: what "%7[^)]" leaves of "n(r0)"
  Overlong,    \* names of MAX_NAME_LEN characters or more
  Junk,        \* what an instruction that nobody wrote can become
  LINE_MAX,    \* sizeof(line)
  Lines,       \* the lines a file is made of
  MaxLines     \* bound: lines of a file

ASSUME NameAssumption ==
  /\ OffsetOf \in [Name -> Nat \cup {-1}] /\ Operand \in [Name -> Name]
  /\ Overlong \subseteq Name
  /\ \A n \in Overlong : OffsetOf[n] = -1     \* no entry is that long
ASSUME LineAssumption ==
  /\ LINE_MAX \in Nat \ {0, 1} /\ MaxLines \in Nat
  /\ \A l \in Lines : l.len \in Nat \ {0}

VARIABLES
  file,    \* the lines of the assembly file
  pos,     \* the line that is read next
  off,     \* how much of it was read
  words,   \* the machine code
  from,    \* history: the line each word was made from
  mode     \* "reading", "closed", "crashed"

vars == <<file, pos, off, words, from, mode>>

-----------------------------------------------------------------------------
(* Words, as two halves.                                                   *)

OP_DADDIU == 25
OP_LD == 55
OP_SD == 63
FUNCT_DADDU == 45
FUNCT_DSUBU == 47
FUNCT_DMULT == 24
FUNCT_DDIV == 26
FUNCT_MFHI == 16
FUNCT_MFLO == 18
FUNCT_SYSCALL == 12

UINT16_MAX == 65535
INT16_MAX == 32767

Halfword == 0 .. UINT16_MAX
Offset == -INT16_MAX - 1 .. INT16_MAX

Word == [high : Halfword, low : Halfword]

Encode_R_Type(rs, rt, rd, shamt, funct) ==
  [high |-> rs * 32 + rt, low |-> rd * 2048 + shamt * 64 + funct]

(* Bug: the immediate keeps its sign bits, over the rest of the word.      *)
Encode_I_Type_Unmasked(opcode, rs, rt, imm) ==
  [high |-> opcode * 1024 + rs * 32 + rt, low |-> imm]

(* Bug: the registers trade places.                                        *)
Encode_I_Type_Swapped(opcode, rs, rt, imm) ==
  [high |-> opcode * 1024 + rt * 32 + rs, low |-> imm % 65536]

Encode_I_Type(opcode, rs, rt, imm) ==
  [high |-> opcode * 1024 + rs * 32 + rt, low |-> imm % 65536]

-----------------------------------------------------------------------------
(* Instructions, as assembly.c writes them.                                *)

Memory(op, rt, n)  == [op |-> op, rt |-> rt, name |-> n]
Address(rt, n)     == [op |-> "daddiu", rt |-> rt, name |-> n]
Immediate(rt, k)   == [op |-> "daddiu_imm", rt |-> rt, imm |-> k]
Alu(op, rd, rs, rt) == [op |-> op, rd |-> rd, rs |-> rs, rt |-> rt]
Product(op, rs, rt) == [op |-> op, rs |-> rs, rt |-> rt]
Move(op, rd)       == [op |-> op, rd |-> rd]
Syscall(k)         == [op |-> "syscall", imm |-> k]

Encoding(i) ==
  CASE i.op = "daddiu_imm" -> Encode_I_Type(OP_DADDIU, 0, i.rt, i.imm)
    [] i.op = "daddiu"  -> Encode_I_Type(OP_DADDIU, 0, i.rt, OffsetOf[i.name])
    [] i.op = "daddu"   -> Encode_R_Type(i.rs, i.rt, i.rd, 0, FUNCT_DADDU)
    [] i.op = "dsubu"   -> Encode_R_Type(i.rs, i.rt, i.rd, 0, FUNCT_DSUBU)
    [] i.op = "dmult"   -> Encode_R_Type(i.rs, i.rt, 0, 0, FUNCT_DMULT + 4)
    [] i.op = "ddiv"    -> Encode_R_Type(i.rs, i.rt, 0, 0, FUNCT_DDIV + 4)
    [] i.op = "mflo"    -> Encode_R_Type(0, 0, i.rd, 0, FUNCT_MFLO)
    [] i.op = "mfhi"    -> Encode_R_Type(0, 0, i.rd, 0, FUNCT_MFHI)
    [] i.op = "ld"      -> Encode_I_Type(OP_LD, 0, i.rt, OffsetOf[Operand[i.name]])
    [] i.op = "sd"      -> Encode_I_Type(OP_SD, 0, i.rt, OffsetOf[Operand[i.name]])
    [] i.op = "syscall" -> Encode_R_Type(0, 0, 0, i.imm, FUNCT_SYSCALL)

(* Bug: loads and stores are left out too.                                 *)
RejectedAlways(i) ==
  i.op \in {"daddiu", "ld", "sd"} /\ OffsetOf[i.name] = -1

(* daddiu is the one instruction that is left out for an unknown symbol.   *)
Rejected(i) == i.op = "daddiu" /\ OffsetOf[i.name] = -1

(* What a format accepts in the middle of a text, though no line of        *)
(* assembly.c says it: its registers need not exist.                       *)
Garbled == [op |-> "garbled"]

(* "%63s" into imm_str, which has MAX_NAME_LEN bytes, and "%15[^,]" into   *)
(* regA, which has 8: all the registers that assembly.c writes fit.        *)
Overruns(i) == i = Garbled \/ (i.op = "daddiu" /\ i.name \in Overlong)

(* The words that a parsed line adds: one, or none for an unknown symbol;  *)
(* with its variables overwritten, it may be any word, or none.            *)
Results(i) ==
  IF Overruns(i) THEN {<< >>} \cup {<<w>> : w \in Junk}
  ELSE IF Rejected(i) THEN {<< >>} ELSE {<<Encoding(i)>>}

-----------------------------------------------------------------------------
(* Lines.  head is what the line begins with: an instruction, or something *)
(* that is skipped (a section, a definition, a blank line); tails is what  *)
(* a later piece of it can look like.                                      *)

Skipped == [op |-> "skip"]
Text == [op |-> "text"]

Line(len, head, tails) == [len |-> len, head |-> head, tails |-> tails]

Register == 0 .. 31

Instruction ==
  [op : {"ld", "sd", "daddiu"}, rt : Register, name : Name]
  \cup [op : {"daddiu_imm"}, rt : Register, imm : Int]
  \cup [op : {"daddu", "dsubu"}, rd : Register, rs : Register, rt : Register]
  \cup [op : {"dmult", "ddiv"}, rs : Register, rt : Register]
  \cup [op : {"mflo", "mfhi"}, rd : Register]
  \cup [op : {"syscall"}, imm : 0 .. 31]

(* A line begins as assembly.c begins it: an instruction of registers that *)
(* exist, or something that is skipped.                                    *)
ASSUME LookAssumption ==
  \A l \in Lines :
    /\ l.head \in Instruction \cup {Skipped}
    /\ l.tails \subseteq Instruction \cup {Skipped, Text, Garbled}
ASSUME JunkAssumption == Junk \subseteq Word

IsInstruction(look) == look.op \notin {"skip", "text"}

Init ==
  /\ file \in UNION {[1 .. k -> Lines] : k \in 0 .. MaxLines}
  /\ pos = 1 /\ off = 0
  /\ words = << >> /\ from = << >>
  /\ mode = "reading"

(* fgets: up to LINE_MAX - 1 characters, not beyond the end of the line.   *)
Remaining == file[pos].len - off

Fgets ==
  IF Remaining <= LINE_MAX - 1 THEN pos' = pos + 1 /\ off' = 0
  ELSE pos' = pos /\ off' = off + LINE_MAX - 1

(* What is in the buffer then; the newline of a line that filled the       *)
(* buffer is an empty line of its own.                                     *)
Looks ==
  IF off = 0 THEN {file[pos].head}
  ELSE IF Remaining = 1 THEN {Skipped} ELSE file[pos].tails

Reading == mode = "reading" /\ pos <= Len(file)

(* Skipped by one of the tests, or not parsed: a warning.                  *)
Ignore ==
  /\ Reading /\ \E look \in Looks : ~IsInstruction(look)
  /\ Fgets
  /\ UNCHANGED <<file, words, from, mode>>

Translate ==
  /\ Reading
  /\ \E look \in Looks :
       /\ IsInstruction(look)
       /\ \E made \in Results(look) :
            /\ words' = words \o made
            /\ from' = from \o [k \in DOMAIN made |-> pos]
  /\ Fgets
  /\ UNCHANGED <<file, mode>>

(* Writing beyond imm_str or regA may kill the process.                    *)
Overrun ==
  /\ Reading /\ \E look \in Looks : Overruns(look)
  /\ mode' = "crashed"
  /\ UNCHANGED <<file, pos, off, words, from>>

Close ==
  /\ mode = "reading" /\ pos > Len(file)
  /\ mode' = "closed"
  /\ UNCHANGED <<file, pos, off, words, from>>

Step == Ignore \/ Translate \/ Overrun \/ Close

Finished == mode # "reading" /\ UNCHANGED vars

Next == Step \/ Finished

Spec == Init /\ [][Next]_vars

-----------------------------------------------------------------------------
(* The processor's view of a word (MIPS64).                                *)

Opcode(w) == w.high \div 1024
Rs(w) == (w.high \div 32) % 32
Rt(w) == w.high % 32
Rd(w) == w.low \div 2048
Shamt(w) == (w.low \div 64) % 32
Funct(w) == w.low % 64
SignedLow(w) == IF w.low >= 32768 THEN w.low - 65536 ELSE w.low

Decoded(w) ==
  CASE Opcode(w) = 25 -> <<"daddiu", Rt(w), Rs(w), SignedLow(w)>>
    [] Opcode(w) = 55 -> <<"ld", Rt(w), Rs(w), SignedLow(w)>>
    [] Opcode(w) = 63 -> <<"sd", Rt(w), Rs(w), SignedLow(w)>>
    [] Opcode(w) = 0 /\ Funct(w) = 45 -> <<"daddu", Rd(w), Rs(w), Rt(w)>>
    [] Opcode(w) = 0 /\ Funct(w) = 47 -> <<"dsubu", Rd(w), Rs(w), Rt(w)>>
    [] Opcode(w) = 0 /\ Funct(w) = 28 -> <<"dmult", Rs(w), Rt(w)>>
    [] Opcode(w) = 0 /\ Funct(w) = 30 -> <<"ddiv", Rs(w), Rt(w)>>
    [] Opcode(w) = 0 /\ Funct(w) = 18 -> <<"mflo", Rd(w)>>
    [] Opcode(w) = 0 /\ Funct(w) = 16 -> <<"mfhi", Rd(w)>>
    [] Opcode(w) = 0 /\ Funct(w) = 12 -> <<"syscall", Shamt(w)>>
    [] OTHER -> <<"reserved">>

(* What the line says.                                                     *)
Meaning(i) ==
  CASE i.op = "daddiu_imm" -> <<"daddiu", i.rt, 0, i.imm>>
    [] i.op \in {"daddiu", "ld", "sd"} ->
         IF OffsetOf[i.name] = -1 THEN <<"no such address">>
         ELSE <<i.op, i.rt, 0, OffsetOf[i.name]>>
    [] i.op \in {"daddu", "dsubu"} -> <<i.op, i.rd, i.rs, i.rt>>
    [] i.op \in {"dmult", "ddiv"} -> <<i.op, i.rs, i.rt>>
    [] i.op \in {"mflo", "mfhi"} -> <<i.op, i.rd>>
    [] i.op = "syscall" -> <<i.op, i.imm>>

-----------------------------------------------------------------------------
(* Properties.                                                             *)

TypeOK ==
  /\ pos \in 1 .. Len(file) + 1 /\ off \in Nat
  /\ pos <= Len(file) => off < file[pos].len
  /\ pos > Len(file) => off = 0
  /\ words \in Seq(Word) /\ Len(from) = Len(words)
  /\ mode \in {"reading", "closed", "crashed"}

Fits(l) == l.len <= LINE_MAX - 1

(* The address that the encoder takes for a name is the name's own, one    *)
(* that 16 bits can hold (or lies a multiple of 2^16 away from it).        *)
Found(i) == IF i.op = "daddiu" THEN OffsetOf[i.name] ELSE OffsetOf[Operand[i.name]]
Reaches(i) ==
  i.op \in {"ld", "sd", "daddiu"} =>
    /\ OffsetOf[i.name] \in Offset \ {-1}
    /\ (Found(i) - OffsetOf[i.name]) % 65536 = 0
InRange(i) == i.op = "daddiu_imm" => i.imm \in Offset

(* Each word, decoded as the processor decodes it, is the instruction that *)
(* the line it was made from says, with the address of the whole name,     *)
(* whatever the other lines of the file are - unless the symbol is         *)
(* unknown, its name is cut to one with another address, or the address or *)
(* the immediate has more than 16 bits; and in all of these cases it is    *)
(* not.  (Of lines that fit the buffers.)                                  *)
WordsDecode ==
  \A k \in DOMAIN words :
    LET l == file[from[k]] IN
      Fits(l) /\ ~Overruns(l.head) =>
        (Decoded(words[k]) = Meaning(l.head) <=> Reaches(l.head) /\ InRange(l.head))

(* The words stand in the order of the lines, and whatever the lines of    *)
(* the file are, an instruction that fits the buffer has one word: none is *)
(* lost, and nothing else that fits becomes one (a daddiu of an unknown    *)
(* symbol is left out with an error, one that overruns may do anything).   *)
(* A line that does not fit, whose rest is taken for lines of their own,   *)
(* has at most one word for each time that the buffer was filled.          *)
InStep ==
  /\ \A j, k \in DOMAIN from : j < k =>
       /\ from[j] <= from[k]
       /\ from[j] = from[k] => (k - j) * (LINE_MAX - 1) < file[from[k]].len
  /\ \A i \in 1 .. pos - 1 :
       LET head == file[i].head IN
         Fits(file[i]) /\ ~Overruns(head) =>
           ( /\ IsInstruction(head)
             /\ head.op = "daddiu" => OffsetOf[head.name] # -1
           <=> \E k \in DOMAIN from : from[k] = i )

=============================================================================
