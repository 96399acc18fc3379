------------------------- MODULE MachineCodeProofs -------------------------
(***************************************************************************)
(* Proofs about the encoder, for all names, addresses, lines, sizes of the *)
(* line buffer and lengths of the file.                                    *)
(***************************************************************************)
EXTENDS MachineCode, SequenceTheorems, TLAPS

(***************************************************************************)
(* One word: it decodes to what the line says.                             *)
(***************************************************************************)
(* Sign extension undoes the cut.                                          *)
Extension(low) == IF low >= 32768 THEN low - 65536 ELSE low

LEMMA Limits ==
  /\ \A k \in Int : k \in Halfword <=> 0 <= k /\ k <= 65535
  /\ \A k \in Offset : k \in Int /\ -32768 <= k /\ k <= 32767
<1>1. UINT16_MAX = 65535 /\ INT16_MAX = 32767
  BY DEF UINT16_MAX, INT16_MAX
<1>2. UINT16_MAX \in Int /\ INT16_MAX \in Int
  BY <1>1
<1>3. \A k \in Int : k \in Halfword <=> 0 <= k /\ k <= UINT16_MAX
  BY <1>2 DEF Halfword
<1>4. \A k \in Offset : k \in Int /\ -INT16_MAX - 1 <= k /\ k <= INT16_MAX
  BY <1>2 DEF Offset
<1> QED BY <1>1, <1>3, <1>4

LEMMA Extended ==
  ASSUME NEW k \in Offset
  PROVE  Extension(k % 65536) = k
<1>1. k \in Int /\ -32768 <= k /\ k <= 32767
  BY Limits
<1>2. CASE k >= 0
  <2>1. k % 65536 = k
    BY <1>1, <1>2
  <2> QED BY <1>1, <2>1 DEF Extension
<1>3. CASE k < 0
  <2>1. k % 65536 = k + 65536
    BY <1>1, <1>3
  <2> QED BY <1>1, <1>3, <2>1 DEF Extension
<1> QED BY <1>1, <1>2, <1>3

(* What the two make of any integer: an offset, the one that lies a        *)
(* multiple of 2^16 away.                                                  *)
LEMMA Wrapped ==
  ASSUME NEW k \in Int
  PROVE  /\ Extension(k % 65536) \in Offset
         /\ \A a \in Offset : Extension(k % 65536) = a <=> (k - a) % 65536 = 0
<1> DEFINE m == k % 65536
           q == k \div 65536
           x == Extension(m)
<1>1. m \in Int /\ 0 <= m /\ m <= 65535 /\ q \in Int /\ k = q * 65536 + m
  OBVIOUS
<1>2. /\ \A a \in Int : -32768 <= a /\ a <= 32767 => a \in Offset
      /\ \A a \in Offset : a \in Int /\ -32768 <= a /\ a <= 32767
  <2>1. INT16_MAX = 32767 /\ INT16_MAX \in Int
    BY DEF INT16_MAX
  <2>2. INT16_MAX \in Int
    BY <2>1
  <2>3. \A a \in Int : -INT16_MAX - 1 <= a /\ a <= INT16_MAX => a \in Offset
    BY <2>2 DEF Offset
  <2> QED BY <2>1, <2>3, Limits
<1> HIDE DEF m, q
<1>3. x = m \/ x = m - 65536
  BY <1>1 DEF Extension
<1>4. x \in Int /\ -32768 <= x /\ x <= 32767
  BY <1>1 DEF Extension
<1>5. x \in Offset
  BY <1>2, <1>4
<1>6. ASSUME NEW a \in Offset, x = a
      PROVE  (k - a) % 65536 = 0
  <2>1. k - a = q * 65536 \/ k - a = (q + 1) * 65536
    BY <1>1, <1>3, <1>4, <1>6
  <2>2. \A e \in Int : (e * 65536) % 65536 = 0
    OBVIOUS
  <2> QED BY <1>1, <2>1, <2>2
<1>7. ASSUME NEW a \in Offset, (k - a) % 65536 = 0
      PROVE  x = a
  <2>1. a \in Int /\ -32768 <= a /\ a <= 32767
    BY <1>2
  <2>2. PICK e \in Int : k - a = e * 65536
    BY <1>7, <2>1
  <2>3. x - a = (e - q) * 65536 \/ x - a = (e - q - 1) * 65536
    BY <1>1, <1>3, <1>4, <2>1, <2>2
  <2>4. \A f \in Int : -65535 <= f * 65536 /\ f * 65536 <= 65535 => f = 0
    OBVIOUS
  <2>5. x - a = 0
    <3>1. e - q \in Int /\ e - q - 1 \in Int /\ -65535 <= x - a /\ x - a <= 65535
      BY <1>1, <1>4, <2>1, <2>2
    <3>2. 0 * 65536 = 0
      OBVIOUS
    <3> QED BY <2>3, <2>4, <3>1, <3>2
  <2> QED BY <1>4, <2>1, <2>5
<1>8. Extension(k % 65536) = x
  BY DEF m
<1> HIDE DEF x
<1> QED BY <1>5, <1>6, <1>7, <1>8

LEMMA IFields ==
  ASSUME NEW opcode \in {OP_DADDIU, OP_LD, OP_SD}, NEW r \in Register, NEW k \in Int
  PROVE  LET w == Encode_I_Type(opcode, 0, r, k) IN
           /\ w \in Word
           /\ Opcode(w) = opcode /\ Rs(w) = 0 /\ Rt(w) = r
           /\ k \in Offset => SignedLow(w) = k
           /\ SignedLow(w) = Extension(k % 65536)
<1> DEFINE high == opcode * 1024 + 0 * 32 + r
           low == k % 65536
           w == Encode_I_Type(opcode, 0, r, k)
<1>1. w = [high |-> high, low |-> low]
  BY DEF Encode_I_Type
<1>2. opcode \in {25, 55, 63} /\ r \in 0 .. 31
  BY DEF OP_DADDIU, OP_LD, OP_SD, Register
<1>3. high = opcode * 1024 + r /\ high = (opcode * 32) * 32 + r
  BY <1>2
<1>4. high \div 1024 = opcode /\ high \div 32 = opcode * 32 /\ high % 32 = r
  <2>1. (opcode * 1024 + r) \div 1024 = opcode
    BY <1>2
  <2>2. ((opcode * 32) * 32 + r) \div 32 = opcode * 32 /\ ((opcode * 32) * 32 + r) % 32 = r
    BY <1>2
  <2> QED BY <1>3, <2>1, <2>2
<1>5. (opcode * 32) % 32 = 0
  BY <1>2
<1>6. high \in Int /\ 0 <= high /\ high <= 65535
  BY <1>2
<1>7. low \in Int /\ 0 <= low /\ low <= 65535
  OBVIOUS
<1>8. k \in Offset => Extension(low) = k
  BY Extended
<1> HIDE DEF high, low, w
<1>9. w \in Word
  BY <1>1, <1>6, <1>7, Limits DEF Word
<1>10. Opcode(w) = opcode /\ Rs(w) = 0 /\ Rt(w) = r
  BY <1>1, <1>4, <1>5 DEF Opcode, Rs, Rt
<1>11. k \in Offset => SignedLow(w) = k
  BY <1>1, <1>8 DEF SignedLow, Extension
<1>12. SignedLow(w) = Extension(low)
  BY <1>1 DEF SignedLow, Extension
<1> QED BY <1>9, <1>10, <1>11, <1>12 DEF w, low

LEMMA RFields ==
  ASSUME NEW s \in Register, NEW t \in Register, NEW d \in Register, NEW h \in Register,
         NEW f \in 0 .. 63
  PROVE  LET w == Encode_R_Type(s, t, d, h, f) IN
           /\ w \in Word
           /\ Opcode(w) = 0 /\ Rs(w) = s /\ Rt(w) = t
           /\ Rd(w) = d /\ Shamt(w) = h /\ Funct(w) = f
<1> DEFINE high == s * 32 + t
           low == d * 2048 + h * 64 + f
           w == Encode_R_Type(s, t, d, h, f)
<1>1. w = [high |-> high, low |-> low]
  BY DEF Encode_R_Type
<1>2. s \in 0 .. 31 /\ t \in 0 .. 31 /\ d \in 0 .. 31 /\ h \in 0 .. 31
  BY DEF Register
<1>3. high \in Int /\ 0 <= high /\ high <= 65535
  BY <1>2
<1>4. low \in Int /\ 0 <= low /\ low <= 65535
  BY <1>2
<1>5. high \div 1024 = 0
  BY <1>2
<1>6. high \div 32 = s /\ high % 32 = t /\ s % 32 = s
  BY <1>2
<1>7. low \div 2048 = d
  BY <1>2
<1>8. low \div 64 = d * 32 + h /\ low % 64 = f
  <2>1. d * 32 + h \in Nat /\ low = (d * 32 + h) * 64 + f
    BY <1>2
  <2>2. ((d * 32 + h) * 64 + f) \div 64 = d * 32 + h /\ ((d * 32 + h) * 64 + f) % 64 = f
    BY <2>1
  <2> QED BY <2>1, <2>2
<1>9. (d * 32 + h) % 32 = h
  BY <1>2
<1> HIDE DEF high, low, w
<1>10. w \in Word
  BY <1>1, <1>3, <1>4, Limits DEF Word
<1>11. Opcode(w) = 0 /\ Rs(w) = s /\ Rt(w) = t
  BY <1>1, <1>5, <1>6 DEF Opcode, Rs, Rt
<1>12. Rd(w) = d /\ Shamt(w) = h /\ Funct(w) = f
  BY <1>1, <1>7, <1>8, <1>9 DEF Rd, Shamt, Funct
<1> QED BY <1>10, <1>11, <1>12 DEF w

(* An instruction's encoding is a word, whatever it refers to.             *)
LEMMA EncodingIsWord ==
  ASSUME NEW i \in Instruction
  PROVE  Encoding(i) \in Word
<1> DEFINE address == OffsetOf[Operand[i.name]]
<1>1. 0 \in Register
  BY DEF Register
<1>2. CASE i.op = "daddiu_imm"
  <2>1. i.rt \in Register /\ i.imm \in Int
    BY <1>2 DEF Instruction
  <2>2. Encoding(i) = Encode_I_Type(OP_DADDIU, 0, i.rt, i.imm)
    BY <1>2 DEF Encoding
  <2> QED BY <2>1, <2>2, IFields
<1>3. CASE i.op \in {"ld", "sd", "daddiu"}
  <2>1. i.rt \in Register /\ i.name \in Name
    BY <1>3 DEF Instruction
  <2>2. OffsetOf[i.name] \in Int /\ address \in Int
    BY <2>1, NameAssumption
  <2>3. \/ Encoding(i) = Encode_I_Type(OP_DADDIU, 0, i.rt, OffsetOf[i.name])
        \/ Encoding(i) = Encode_I_Type(OP_LD, 0, i.rt, address)
        \/ Encoding(i) = Encode_I_Type(OP_SD, 0, i.rt, address)
    BY <1>3 DEF Encoding
  <2> HIDE DEF address
  <2> QED BY <2>1, <2>2, <2>3, IFields
<1>4. CASE i.op \in {"daddu", "dsubu"}
  <2>1. i.rd \in Register /\ i.rs \in Register /\ i.rt \in Register
    BY <1>4 DEF Instruction
  <2>2. \E f \in 0 .. 63 : Encoding(i) = Encode_R_Type(i.rs, i.rt, i.rd, 0, f)
    BY <1>4 DEF Encoding, FUNCT_DADDU, FUNCT_DSUBU
  <2> QED BY <1>1, <2>1, <2>2, RFields
<1>5. CASE i.op \in {"dmult", "ddiv"}
  <2>1. i.rs \in Register /\ i.rt \in Register
    BY <1>5 DEF Instruction
  <2>2. \E f \in 0 .. 63 : Encoding(i) = Encode_R_Type(i.rs, i.rt, 0, 0, f)
    BY <1>5 DEF Encoding, FUNCT_DMULT, FUNCT_DDIV
  <2> QED BY <1>1, <2>1, <2>2, RFields
<1>6. CASE i.op \in {"mflo", "mfhi"}
  <2>1. i.rd \in Register
    BY <1>6 DEF Instruction
  <2>2. \E f \in 0 .. 63 : Encoding(i) = Encode_R_Type(0, 0, i.rd, 0, f)
    BY <1>6 DEF Encoding, FUNCT_MFLO, FUNCT_MFHI
  <2> QED BY <1>1, <2>1, <2>2, RFields
<1>7. CASE i.op = "syscall"
  <2>1. i.imm \in Register
    BY <1>7 DEF Instruction, Register
  <2>2. \E f \in 0 .. 63 : Encoding(i) = Encode_R_Type(0, 0, 0, i.imm, f)
    BY <1>7 DEF Encoding, FUNCT_SYSCALL
  <2> QED BY <1>1, <2>1, <2>2, RFields
<1> QED BY <1>2, <1>3, <1>4, <1>5, <1>6, <1>7 DEF Instruction

(* The processor finds in it what was meant exactly under the              *)
(* circumstances.                                                          *)
LEMMA EncodingDecodes ==
  ASSUME NEW i \in Instruction
  PROVE  Decoded(Encoding(i)) = Meaning(i) <=> Reaches(i) /\ InRange(i)
<1> DEFINE w == Encoding(i)
<1>1. 0 \in Register
  BY DEF Register
<1>2. CASE i.op = "daddiu_imm"
  <2>1. i.rt \in Register /\ i.imm \in Int
    BY <1>2 DEF Instruction
  <2>2. w = Encode_I_Type(OP_DADDIU, 0, i.rt, i.imm)
    BY <1>2 DEF Encoding
  <2>3. /\ Opcode(w) = OP_DADDIU /\ Rs(w) = 0 /\ Rt(w) = i.rt
        /\ SignedLow(w) = Extension(i.imm % 65536)
    BY <2>1, <2>2, IFields
  <2> HIDE DEF w
  <2>4. Decoded(w) = <<"daddiu", i.rt, 0, Extension(i.imm % 65536)>>
    BY <2>3 DEF Decoded, OP_DADDIU
  <2>5. Meaning(i) = <<"daddiu", i.rt, 0, i.imm>>
    BY <1>2 DEF Meaning
  <2>6. Extension(i.imm % 65536) = i.imm <=> i.imm \in Offset
    BY <2>1, Wrapped, Extended
  <2>7. Reaches(i) /\ (InRange(i) <=> i.imm \in Offset)
    BY <1>2 DEF Reaches, InRange
  <2>8. Decoded(w) = Meaning(i) <=> Extension(i.imm % 65536) = i.imm
    BY <2>4, <2>5
  <2> QED BY <2>6, <2>7, <2>8 DEF w
<1>3. CASE i.op \in {"ld", "sd", "daddiu"}
  <2> DEFINE stated == OffsetOf[i.name]
             found == Found(i)
  <2>1. i.rt \in Register /\ i.name \in Name
    BY <1>3 DEF Instruction
  <2>2. stated \in Int /\ found \in Int /\ (stated = -1 \/ stated >= 0)
    BY <2>1, NameAssumption DEF Found
  <2>3. \/ i.op = "daddiu" /\ w = Encode_I_Type(OP_DADDIU, 0, i.rt, found)
        \/ i.op = "ld" /\ w = Encode_I_Type(OP_LD, 0, i.rt, found)
        \/ i.op = "sd" /\ w = Encode_I_Type(OP_SD, 0, i.rt, found)
    BY <1>3 DEF Encoding, Found
  <2>4. /\ stated = -1 => Meaning(i) = <<"no such address">>
        /\ stated # -1 => Meaning(i) = <<i.op, i.rt, 0, stated>>
    BY <1>3 DEF Meaning
  <2>5. InRange(i) /\ (Reaches(i) <=> stated \in Offset \ {-1} /\ (found - stated) % 65536 = 0)
    BY <1>3 DEF InRange, Reaches
  <2> HIDE DEF w, stated, found
  <2>6. /\ Rs(w) = 0 /\ Rt(w) = i.rt /\ SignedLow(w) = Extension(found % 65536)
        /\ \/ i.op = "daddiu" /\ Opcode(w) = OP_DADDIU
           \/ i.op = "ld" /\ Opcode(w) = OP_LD
           \/ i.op = "sd" /\ Opcode(w) = OP_SD
    BY <2>1, <2>2, <2>3, IFields
  <2>7. Decoded(w) = <<i.op, i.rt, 0, Extension(found % 65536)>>
    BY <2>6 DEF Decoded, OP_DADDIU, OP_LD, OP_SD
  <2>8. CASE stated = -1
    <3> DEFINE none == <<"no such address">>
               some == <<i.op, i.rt, 0, Extension(found % 65536)>>
    <3>1. Meaning(i) = none
      BY <2>4, <2>8
    <3>2. Decoded(w) = some
      BY <2>7
    <3>3. Len(none) = 1
      OBVIOUS
    <3>4. Len(some) = 4
      OBVIOUS
    <3> HIDE DEF none, some
    <3>5. Decoded(w) # Meaning(i)
      BY <3>1, <3>2, <3>3, <3>4
    <3> QED BY <2>5, <2>8, <3>5 DEF w
  <2>9. CASE stated # -1
    <3>1. Meaning(i) = <<i.op, i.rt, 0, stated>>
      BY <2>4, <2>9
    <3>2. Decoded(w) = Meaning(i) <=> Extension(found % 65536) = stated
      BY <2>7, <3>1
    <3>3. /\ Extension(found % 65536) \in Offset
          /\ stated \in Offset => (Extension(found % 65536) = stated <=> (found - stated) % 65536 = 0)
      BY <2>2, Wrapped
    <3> QED BY <2>5, <2>9, <3>2, <3>3 DEF w
  <2> QED BY <2>8, <2>9
<1>4. CASE i.op \in {"daddu", "dsubu"}
  <2>1. i.rd \in Register /\ i.rs \in Register /\ i.rt \in Register
    BY <1>4 DEF Instruction
  <2>2. PICK f \in 0 .. 63 :
          /\ w = Encode_R_Type(i.rs, i.rt, i.rd, 0, f)
          /\ (i.op = "daddu" /\ f = 45) \/ (i.op = "dsubu" /\ f = 47)
    BY <1>4 DEF Encoding, FUNCT_DADDU, FUNCT_DSUBU
  <2>3. /\ Opcode(w) = 0 /\ Funct(w) = f
        /\ Rs(w) = i.rs /\ Rt(w) = i.rt /\ Rd(w) = i.rd
    BY <1>1, <2>1, <2>2, RFields
  <2> HIDE DEF w
  <2>4. Decoded(w) = <<i.op, i.rd, i.rs, i.rt>>
    BY <2>2, <2>3 DEF Decoded
  <2> QED BY <1>4, <2>4 DEF Meaning, Reaches, InRange, w
<1>5. CASE i.op \in {"dmult", "ddiv"}
  <2>1. i.rs \in Register /\ i.rt \in Register
    BY <1>5 DEF Instruction
  <2>2. PICK f \in 0 .. 63 :
          /\ w = Encode_R_Type(i.rs, i.rt, 0, 0, f)
          /\ (i.op = "dmult" /\ f = 28) \/ (i.op = "ddiv" /\ f = 30)
    BY <1>5 DEF Encoding, FUNCT_DMULT, FUNCT_DDIV
  <2>3. Opcode(w) = 0 /\ Funct(w) = f /\ Rs(w) = i.rs /\ Rt(w) = i.rt
    BY <1>1, <2>1, <2>2, RFields
  <2> HIDE DEF w
  <2>4. Decoded(w) = <<i.op, i.rs, i.rt>>
    BY <2>2, <2>3 DEF Decoded
  <2> QED BY <1>5, <2>4 DEF Meaning, Reaches, InRange, w
<1>6. CASE i.op \in {"mflo", "mfhi"}
  <2>1. i.rd \in Register
    BY <1>6 DEF Instruction
  <2>2. PICK f \in 0 .. 63 :
          /\ w = Encode_R_Type(0, 0, i.rd, 0, f)
          /\ (i.op = "mflo" /\ f = 18) \/ (i.op = "mfhi" /\ f = 16)
    BY <1>6 DEF Encoding, FUNCT_MFLO, FUNCT_MFHI
  <2>3. Opcode(w) = 0 /\ Funct(w) = f /\ Rd(w) = i.rd
    BY <1>1, <2>1, <2>2, RFields
  <2> HIDE DEF w
  <2>4. Decoded(w) = <<i.op, i.rd>>
    BY <2>2, <2>3 DEF Decoded
  <2> QED BY <1>6, <2>4 DEF Meaning, Reaches, InRange, w
<1>7. CASE i.op = "syscall"
  <2>1. i.imm \in Register
    BY <1>7 DEF Instruction, Register
  <2>2. w = Encode_R_Type(0, 0, 0, i.imm, 12)
    BY <1>7 DEF Encoding, FUNCT_SYSCALL
  <2>3. Opcode(w) = 0 /\ Funct(w) = 12 /\ Shamt(w) = i.imm
    BY <1>1, <2>1, <2>2, RFields
  <2> HIDE DEF w
  <2>4. Decoded(w) = <<"syscall", i.imm>>
    BY <2>3 DEF Decoded
  <2> QED BY <1>7, <2>4 DEF Meaning, Reaches, InRange, w
<1> QED BY <1>2, <1>3, <1>4, <1>5, <1>6, <1>7 DEF Instruction

(***************************************************************************)
(* The whole file.                                                         *)
(***************************************************************************)
Places ==
  /\ file \in Seq(Lines)
  /\ pos \in 1 .. Len(file) + 1 /\ off \in Nat
  /\ pos <= Len(file) => off < file[pos].len
  /\ pos > Len(file) => off = 0
  /\ mode \in {"reading", "closed", "crashed"}

(* The middle of a line is only read when the line does not fit.           *)
MiddleOfLong == off # 0 => ~Fits(file[pos])

(* Words come from lines that were begun; those of a line that fits are    *)
(* the encoding of what it says.                                           *)
Made ==
  /\ words \in Seq(Word) /\ from \in Seq(Nat) /\ Len(from) = Len(words)
  /\ \A k \in DOMAIN from :
       /\ from[k] \in 1 .. Len(file) /\ from[k] <= pos
       /\ from[k] = pos => off # 0
       /\ Fits(file[from[k]]) /\ ~Overruns(file[from[k]].head) =>
            /\ file[from[k]].head \in Instruction
            /\ words[k] = Encoding(file[from[k]].head)

(* The characters that so many full buffers take.                          *)
Buffers(d) == d * (LINE_MAX - 1)

(* The words of one line are a buffer apart, and so are those of the line  *)
(* that is read from the place where its reading stands.                   *)
Spaced ==
  /\ \A j, k \in DOMAIN from : j < k =>
       /\ from[j] <= from[k]
       /\ from[j] = from[k] => Buffers(k - j) < file[from[k]].len
  /\ \A k \in DOMAIN from : from[k] = pos => Buffers(Len(from) - k + 1) <= off

(* An instruction that has a word, when its line fits.                     *)
Wanted(head) ==
  IsInstruction(head) /\ (head.op = "daddiu" => OffsetOf[head.name] # -1)

Settled ==
  \A i \in 1 .. pos - 1 :
    Fits(file[i]) /\ ~Overruns(file[i].head) =>
      (Wanted(file[i].head) <=> \E k \in DOMAIN from : from[k] = i)

IInv == Places /\ MiddleOfLong /\ Made /\ Spaced /\ Settled

LEMMA BufferSteps ==
  /\ LINE_MAX - 1 \in Nat
  /\ \A d \in Int : Buffers(d) \in Int /\ Buffers(d + 1) = Buffers(d) + (LINE_MAX - 1)
  /\ Buffers(1) = LINE_MAX - 1
<1>1. LINE_MAX - 1 \in Nat
  BY LineAssumption
<1> DEFINE m == LINE_MAX - 1
<1> HIDE DEF m
<1>2. m \in Nat
  BY <1>1 DEF m
<1>3. ASSUME NEW d \in Int
      PROVE  d * m \in Int /\ (d + 1) * m = d * m + m
  BY <1>2
<1>4. 1 * m = m
  BY <1>2
<1>5. m = LINE_MAX - 1 /\ \A d : Buffers(d) = d * m
  BY DEF Buffers, m
<1> HIDE DEF Buffers
<1>6. \A d \in Int : d + 1 \in Int
  OBVIOUS
<1>7. \A d \in Int : Buffers(d) \in Int /\ Buffers(d + 1) = Buffers(d) + m
  BY <1>3, <1>5, <1>6
<1> QED BY <1>1, <1>4, <1>5, <1>7

LEMMA Implied ==
  ASSUME IInv
  PROVE  TypeOK /\ WordsDecode /\ InStep
<1>1. TypeOK
  BY DEF IInv, Places, Made, TypeOK
<1>2. ASSUME NEW k \in DOMAIN words, Fits(file[from[k]]), ~Overruns(file[from[k]].head)
      PROVE  LET head == file[from[k]].head IN
               Decoded(words[k]) = Meaning(head) <=> Reaches(head) /\ InRange(head)
  <2>1. k \in DOMAIN from
    BY DEF IInv, Made
  <2>2. file[from[k]].head \in Instruction /\ words[k] = Encoding(file[from[k]].head)
    BY <1>2, <2>1 DEF IInv, Made
  <2> QED BY <2>2, EncodingDecodes
<1>3. WordsDecode
  BY <1>2 DEF WordsDecode
<1>4. InStep
  BY DEF IInv, Spaced, Settled, Buffers, Wanted, InStep
<1> QED BY <1>1, <1>3, <1>4

LEMMA InitInv ==
  ASSUME Init
  PROVE  IInv
<1>1. file \in Seq(Lines)
  BY LineAssumption, IsASeq DEF Init
<1>2. Len(file) \in Nat /\ \A l \in Lines : l.len \in Nat \ {0}
  BY <1>1, LineAssumption
<1>3. Places
  <2>1. pos = 1 /\ off = 0 /\ mode = "reading"
    BY DEF Init
  <2>2. 1 <= Len(file) => file[1] \in Lines
    BY <1>1, <1>2
  <2> QED BY <1>1, <1>2, <2>1, <2>2 DEF Places
<1>4. MiddleOfLong /\ Made
  BY DEF Init, MiddleOfLong, Made
<1>5. Spaced /\ Settled
  <2>1. pos = 1 /\ from = << >>
    BY DEF Init
  <2>2. 1 .. pos - 1 = {} /\ DOMAIN from = {}
    BY <2>1
  <2> QED BY <2>2 DEF Spaced, Settled
<1> QED BY <1>3, <1>4, <1>5 DEF IInv

(***************************************************************************)
(* One fgets.                                                              *)
(***************************************************************************)
LEMMA FgetsMoves ==
  ASSUME IInv, Reading, Fgets, UNCHANGED <<file, mode>>
  PROVE  /\ Places' /\ MiddleOfLong'
         /\ file[pos] \in Lines /\ pos \in 1 .. Len(file)
         /\ \/ pos' = pos + 1 /\ off' = 0
            \/ pos' = pos /\ off' = off + (LINE_MAX - 1) /\ off' # 0 /\ ~Fits(file[pos])
         /\ off < file[pos].len
<1> DEFINE line == file[pos]
<1>1. /\ file \in Seq(Lines) /\ Len(file) \in Nat /\ pos \in 1 .. Len(file)
      /\ off \in Nat /\ off < line.len /\ mode = "reading"
  BY DEF IInv, Places, Reading
<1>2. line \in Lines /\ line.len \in Nat /\ LINE_MAX \in Nat /\ LINE_MAX > 1
  BY <1>1, LineAssumption
<1>3. \A p \in 1 .. Len(file) : 0 < file[p].len
  BY <1>1, LineAssumption
<1>4. off # 0 => ~Fits(line)
  BY DEF IInv, MiddleOfLong
<1> HIDE DEF line
<1>5. Remaining = line.len - off
  BY DEF Remaining, line
<1>6. CASE Remaining <= LINE_MAX - 1
  <2>1. pos' = pos + 1 /\ off' = 0
    BY <1>6 DEF Fgets
  <2>2. pos' \in 1 .. Len(file) + 1 /\ (pos' <= Len(file) => 0 < file[pos'].len)
    BY <1>1, <1>3, <2>1
  <2>3. Places'
    BY <1>1, <2>1, <2>2 DEF Places
  <2>4. MiddleOfLong'
    BY <2>1 DEF MiddleOfLong
  <2> QED BY <1>1, <1>2, <2>1, <2>3, <2>4 DEF line
<1>7. CASE ~(Remaining <= LINE_MAX - 1)
  <2>1. pos' = pos /\ off' = off + LINE_MAX - 1
    BY <1>7 DEF Fgets
  <2>2. line.len - off > LINE_MAX - 1
    BY <1>1, <1>2, <1>5, <1>7
  <2>3. off' \in Nat /\ off' # 0 /\ off' < line.len /\ ~(line.len <= LINE_MAX - 1)
    BY <1>1, <1>2, <2>1, <2>2
  <2>4. ~Fits(line) /\ off' = off + (LINE_MAX - 1)
    BY <1>1, <1>2, <2>1, <2>3 DEF Fits
  <2>5. Places'
    BY <1>1, <2>1, <2>3 DEF Places, line
  <2>6. MiddleOfLong'
    BY <2>1, <2>4 DEF MiddleOfLong, Fits, line
  <2> QED BY <1>1, <1>2, <2>1, <2>3, <2>4, <2>5, <2>6 DEF line
<1> QED BY <1>6, <1>7

(* What is looked at is what the line says, or a piece of a line that does *)
(* not fit; anyhow it is one of the things that the lines are made of.     *)
LEMMA Looked ==
  ASSUME IInv, Reading, NEW look \in Looks
  PROVE  /\ look \in Instruction \cup {Skipped, Text, Garbled}
         /\ Fits(file[pos]) => look = file[pos].head
<1>1. file[pos] \in Lines
  BY DEF IInv, Places, Reading
<1>2. look \in {file[pos].head} \cup file[pos].tails \cup {Skipped}
  BY DEF Looks
<1>3. look \in Instruction \cup {Skipped, Text, Garbled}
  BY <1>1, <1>2, LookAssumption
<1>4. Fits(file[pos]) => off = 0
  BY DEF IInv, MiddleOfLong
<1> QED BY <1>3, <1>4 DEF Looks

(* What a parsed line adds: nothing, or a word; the encoding, when nothing *)
(* is overwritten.                                                         *)
LEMMA ResultsAre ==
  ASSUME NEW look \in Instruction \cup {Garbled}, NEW made \in Results(look)
  PROVE  /\ made = << >> \/ \E w \in Word : made = <<w>>
         /\ ~Overruns(look) =>
              made = IF Rejected(look) THEN << >> ELSE <<Encoding(look)>>
<1>1. CASE Overruns(look)
  BY <1>1, JunkAssumption DEF Results
<1>2. CASE ~Overruns(look)
  <2>1. Encoding(look) \in Word
    BY <1>2, EncodingIsWord DEF Overruns
  <2> QED BY <1>2, <2>1 DEF Results
<1> QED BY <1>1, <1>2

(* One buffer: at most one word is added, and the right one for a line     *)
(* that fits.                                                              *)
Same == words' = words /\ from' = from
Adds(w) == words' = Append(words, w) /\ from' = Append(from, pos)

LEMMA BufferInv ==
  ASSUME IInv, Reading, Fgets, UNCHANGED <<file, mode>>,
         Same \/ \E w \in Word : Adds(w),
         LET head == file[pos].head IN
           Fits(file[pos]) /\ ~Overruns(head) =>
             \/ Wanted(head) /\ head \in Instruction /\ Adds(Encoding(head))
             \/ ~Wanted(head) /\ Same
  PROVE  IInv'
<1> DEFINE head == file[pos].head
           Plain(i) == Fits(file[i]) /\ ~Overruns(file[i].head)
           Good(k, f, ws) ==
             Plain(f[k]) => file[f[k]].head \in Instruction /\ ws[k] = Encoding(file[f[k]].head)
<1>1. /\ Places' /\ MiddleOfLong' /\ pos \in 1 .. Len(file) /\ pos \in Nat
      /\ off \in Nat /\ off < file[pos].len /\ Len(file) \in Nat
      /\ \/ pos' = pos + 1 /\ off' = 0
         \/ pos' = pos /\ off' = off + (LINE_MAX - 1) /\ off' # 0 /\ ~Fits(file[pos])
  BY FgetsMoves DEF IInv, Places
<1>2. file[pos].len \in Nat
  BY <1>1, FgetsMoves, LineAssumption
<1>3. /\ words \in Seq(Word) /\ from \in Seq(Nat) /\ Len(from) = Len(words)
      /\ Len(from) \in Nat /\ DOMAIN from = 1 .. Len(from)
  BY DEF IInv, Made
<1>4. file' = file
  OBVIOUS
<1>5. \A k \in DOMAIN from :
        /\ from[k] \in 1 .. Len(file) /\ from[k] \in Nat /\ from[k] <= pos
        /\ from[k] = pos => off # 0
        /\ Good(k, from, words)
  BY <1>3 DEF IInv, Made
<1>6. Fits(file[pos]) => off = 0 /\ pos' = pos + 1
  BY <1>1 DEF IInv, MiddleOfLong
<1>7. \A j, k \in DOMAIN from : j < k =>
        /\ from[j] <= from[k]
        /\ from[j] = from[k] => Buffers(k - j) < file[from[k]].len
  BY DEF IInv, Spaced
<1>8. \A k \in DOMAIN from : from[k] = pos => Buffers(Len(from) - k + 1) <= off
  BY DEF IInv, Spaced
<1>9. \A i \in 1 .. pos - 1 : Plain(i) => (Wanted(file[i].head) <=> \E k \in DOMAIN from : from[k] = i)
  BY DEF IInv, Settled
<1>10. Plain(pos) => \/ Wanted(head) /\ head \in Instruction /\ Adds(Encoding(head))
                     \/ ~Wanted(head) /\ Same
  OBVIOUS
<1>11. \A i : Plain(i)' <=> Plain(i)
  BY <1>4 DEF Fits, Overruns
<1>12. \A i \in 1 .. pos' - 1 : i \in 1 .. pos - 1 \/ (i = pos /\ pos' = pos + 1)
  BY <1>1
<1> HIDE DEF Plain
<1>13. CASE Same
  <2>1. Made'
    <3>1. \A k \in DOMAIN from : from[k] <= pos' /\ (from[k] = pos' => off' # 0)
      BY <1>1, <1>5
    <3> QED BY <1>3, <1>4, <1>5, <1>11, <1>13, <3>1 DEF Made, Same, Plain
  <2>2. Spaced'
    <3>1. ASSUME NEW k \in DOMAIN from, from[k] = pos'
          PROVE  Buffers(Len(from) - k + 1) <= off'
      <4>1. from[k] = pos /\ off' = off + (LINE_MAX - 1)
        BY <1>1, <1>5, <3>1
      <4>2. Len(from) - k + 1 \in Int
        BY <1>3
      <4>3. Buffers(Len(from) - k + 1) <= off
        BY <1>8, <3>1, <4>1
      <4>4. Buffers(Len(from) - k + 1) \in Int
        BY <4>2, BufferSteps
      <4>5. off' = off + (LINE_MAX - 1) /\ LINE_MAX - 1 \in Nat /\ off \in Nat
        BY <1>1, <4>1, BufferSteps
      <4> QED BY <4>3, <4>4, <4>5
    <3> QED BY <1>4, <1>7, <1>13, <3>1 DEF Spaced, Same, Buffers
  <2>3. Settled'
    <3>1. ASSUME NEW i \in 1 .. pos' - 1, Plain(i)
          PROVE  Wanted(file[i].head) <=> \E k \in DOMAIN from : from[k] = i
      <4>1. CASE i \in 1 .. pos - 1
        BY <1>9, <3>1, <4>1
      <4>2. CASE i = pos
        <5>1. ~Wanted(head)
          <6>1. ASSUME Adds(Encoding(head)) PROVE FALSE
            <7>1. from' = from /\ from' = Append(from, pos)
              BY <1>13, <6>1 DEF Same, Adds
            <7>2. Len(Append(from, pos)) = Len(from) + 1
              BY <1>1, <1>3
            <7> QED BY <1>3, <7>1, <7>2
          <6> QED BY <1>10, <3>1, <4>2, <6>1
        <5>2. off = 0
          BY <1>6, <3>1, <4>2 DEF Plain
        <5> QED BY <1>5, <4>2, <5>1, <5>2
      <4> QED BY <1>12, <3>1, <4>1, <4>2
    <3> QED BY <1>4, <1>11, <1>13, <3>1 DEF Settled, Same, Plain, Wanted, IsInstruction
  <2> QED BY <1>1, <2>1, <2>2, <2>3 DEF IInv
<1>14. ASSUME NEW w \in Word, Adds(w)
       PROVE  IInv'
  <2> DEFINE n == Len(from) + 1
  <2>1. /\ words' \in Seq(Word) /\ from' \in Seq(Nat) /\ Len(from') = n /\ Len(words') = n
        /\ n \in Nat /\ DOMAIN from' = DOMAIN from \cup {n} /\ DOMAIN from' = 1 .. n
        /\ from'[n] = pos /\ words'[n] = w
        /\ \A k \in DOMAIN from : /\ k \in 1 .. n - 1 /\ k \in Nat
                                  /\ from'[k] = from[k] /\ words'[k] = words[k]
    BY <1>1, <1>3, <1>14 DEF Adds
  <2>2. Plain(pos) => Wanted(head) /\ head \in Instruction /\ w = Encoding(head)
    <3>1. ~(from' = from)
      BY <1>3, <2>1
    <3>2. ~Same
      BY <3>1 DEF Same
    <3>3. Adds(Encoding(head)) => words'[n] = Encoding(head)
      BY <1>3 DEF Adds
    <3> QED BY <1>10, <2>1, <3>2, <3>3
  <2> HIDE DEF n
  <2>3. Made'
    <3>1. ASSUME NEW k \in DOMAIN from'
          PROVE  /\ from'[k] \in 1 .. Len(file) /\ from'[k] <= pos'
                 /\ from'[k] = pos' => off' # 0
                 /\ Good(k, from', words')
      <4>1. CASE k \in DOMAIN from
        <5>1. from'[k] = from[k] /\ words'[k] = words[k]
          BY <2>1, <4>1
        <5>2. from[k] <= pos' /\ (from[k] = pos' => off' # 0)
          BY <1>1, <1>5, <4>1
        <5> QED BY <1>5, <4>1, <5>1, <5>2
      <4>2. CASE k = n
        <5>1. pos <= pos' /\ (pos = pos' => off' # 0)
          BY <1>1
        <5> QED BY <1>1, <2>1, <2>2, <4>2, <5>1
      <4> QED BY <2>1, <3>1, <4>1, <4>2
    <3> QED BY <1>4, <1>11, <2>1, <3>1 DEF Made, Plain
  <2>4. Spaced'
    <3>1. ASSUME NEW j \in DOMAIN from', NEW k \in DOMAIN from', j < k
          PROVE  /\ from'[j] <= from'[k]
                 /\ from'[j] = from'[k] => Buffers(k - j) < file[from'[k]].len
      <4>1. j \in DOMAIN from
        BY <1>3, <2>1, <3>1
      <4>2. CASE k \in DOMAIN from
        BY <1>7, <2>1, <3>1, <4>1, <4>2
      <4>3. CASE k = n
        <5>1. from'[j] = from[j] /\ from'[k] = pos /\ from[j] <= pos
          BY <1>5, <2>1, <4>1, <4>3
        <5>2. from[j] = pos => Buffers(k - j) <= off
          <6>1. k - j = Len(from) - j + 1
            BY <1>3, <2>1, <4>1, <4>3 DEF n
          <6> QED BY <1>8, <4>1, <6>1
        <5>3. Buffers(k - j) \in Int
          BY <2>1, <4>1, <4>3, BufferSteps
        <5> QED BY <1>1, <1>2, <5>1, <5>2, <5>3
      <4> QED BY <2>1, <3>1, <4>2, <4>3
    <3>2. ASSUME NEW k \in DOMAIN from', from'[k] = pos'
          PROVE  Buffers(n - k + 1) <= off'
      <4>1. pos' = pos /\ off' = off + (LINE_MAX - 1)
        BY <1>1, <1>5, <2>1, <3>2
      <4>2. CASE k \in DOMAIN from
        <5>1. Len(from) - k + 1 \in Int /\ n - k + 1 = (Len(from) - k + 1) + 1
          BY <1>3, <2>1, <4>2 DEF n
        <5>2. Buffers(Len(from) - k + 1) <= off
          BY <1>8, <2>1, <3>2, <4>1, <4>2
        <5>3. Buffers(n - k + 1) = Buffers(Len(from) - k + 1) + (LINE_MAX - 1)
          BY <5>1, BufferSteps
        <5>4. Buffers(Len(from) - k + 1) \in Int
          BY <5>1, BufferSteps
        <5> QED BY <1>1, <4>1, <5>2, <5>3, <5>4, BufferSteps
      <4>3. CASE k = n
        <5>1. n - k + 1 = 1
          BY <2>1, <4>3
        <5> QED BY <1>1, <4>1, <5>1, BufferSteps
      <4> QED BY <2>1, <3>2, <4>2, <4>3
    <3> QED BY <1>4, <2>1, <3>1, <3>2 DEF Spaced, Buffers
  <2>5. Settled'
    <3>1. ASSUME NEW i \in 1 .. pos' - 1, Plain(i)
          PROVE  Wanted(file[i].head) <=> \E k \in DOMAIN from' : from'[k] = i
      <4>1. CASE i \in 1 .. pos - 1
        <5>1. i # pos
          BY <1>1, <4>1
        <5>2. (\E k \in DOMAIN from' : from'[k] = i) <=> \E k \in DOMAIN from : from[k] = i
          BY <2>1, <5>1
        <5> QED BY <1>9, <3>1, <4>1, <5>2
      <4>2. CASE i = pos
        BY <2>1, <2>2, <3>1, <4>2
      <4> QED BY <1>12, <3>1, <4>1, <4>2
    <3> QED BY <1>4, <1>11, <3>1 DEF Settled, Plain, Wanted, IsInstruction
  <2> QED BY <1>1, <2>3, <2>4, <2>5 DEF IInv
<1> QED BY <1>13, <1>14

LEMMA IgnoreInv ==
  ASSUME IInv, Ignore
  PROVE  IInv'
<1>1. PICK look \in Looks : ~IsInstruction(look)
  BY DEF Ignore
<1>2. Reading /\ Fgets /\ UNCHANGED <<file, mode>> /\ Same
  BY DEF Ignore, Same
<1>3. Fits(file[pos]) => ~Wanted(file[pos].head)
  BY <1>1, <1>2, Looked DEF Wanted
<1> QED BY <1>2, <1>3, BufferInv

LEMMA TranslateInv ==
  ASSUME IInv, Translate
  PROVE  IInv'
<1>1. PICK look \in Looks :
        /\ IsInstruction(look)
        /\ \E made \in Results(look) :
             /\ words' = words \o made
             /\ from' = from \o [k \in DOMAIN made |-> pos]
  BY DEF Translate
<1>2. Reading /\ Fgets /\ UNCHANGED <<file, mode>>
  BY DEF Translate
<1>3. look \in Instruction \cup {Garbled} /\ (Fits(file[pos]) => look = file[pos].head)
  BY <1>1, <1>2, Looked DEF IsInstruction, Skipped, Text
<1>4. PICK made \in Results(look) :
        words' = words \o made /\ from' = from \o [k \in DOMAIN made |-> pos]
  BY <1>1
<1>5. words \in Seq(Word) /\ from \in Seq(Nat) /\ pos \in Nat
  BY <1>2 DEF IInv, Made, Places, Reading
<1>6. made = << >> => Same
  <2>1. SUFFICES ASSUME made = << >> PROVE Same
    OBVIOUS
  <2>2. [k \in DOMAIN made |-> pos] = << >>
    BY <2>1
  <2> QED BY <1>4, <1>5, <2>1, <2>2 DEF Same
<1>7. ASSUME NEW w, made = <<w>>, w \in Word
      PROVE  Adds(w)
  <2>1. [k \in DOMAIN made |-> pos] = <<pos>>
    BY <1>7
  <2>2. words \o <<w>> = Append(words, w) /\ from \o <<pos>> = Append(from, pos)
    BY <1>5, <1>7, AppendIsConcat
  <2> QED BY <1>4, <1>7, <2>1, <2>2 DEF Adds
<1>8. Same \/ \E w \in Word : Adds(w)
  BY <1>3, <1>4, <1>6, <1>7, ResultsAre
<1>9. ASSUME Fits(file[pos]), ~Overruns(file[pos].head)
      PROVE  LET head == file[pos].head IN
               \/ Wanted(head) /\ head \in Instruction /\ Adds(Encoding(head))
               \/ ~Wanted(head) /\ Same
  <2>1. look = file[pos].head /\ ~Overruns(look)
    BY <1>3, <1>9
  <2>2. look \in Instruction
    BY <1>3, <2>1 DEF Overruns
  <2>3. made = IF Rejected(look) THEN << >> ELSE <<Encoding(look)>>
    BY <1>3, <1>4, <2>1, ResultsAre
  <2>4. Wanted(look) <=> ~Rejected(look)
    BY <1>1 DEF Wanted, Rejected
  <2>5. Encoding(look) \in Word
    BY <2>2, EncodingIsWord
  <2>6. Rejected(look) => Same
    BY <1>6, <2>3
  <2>7. ~Rejected(look) => Adds(Encoding(look))
    BY <1>7, <2>3, <2>5
  <2> QED BY <2>1, <2>2, <2>4, <2>6, <2>7
<1> QED BY <1>2, <1>8, <1>9, BufferInv

(* The other steps read and write nothing.                                 *)
LEMMA StandInv ==
  ASSUME IInv, UNCHANGED <<file, pos, off, words, from>>,
         mode' \in {"reading", "closed", "crashed"}
  PROVE  IInv'
BY DEF IInv, Places, MiddleOfLong, Made, Spaced, Settled, Buffers, Wanted, Fits, Overruns,
     IsInstruction

LEMMA StepInv ==
  ASSUME IInv, [Next]_vars
  PROVE  IInv'
<1>1. CASE Ignore
  BY <1>1, IgnoreInv
<1>2. CASE Translate
  BY <1>2, TranslateInv
<1>3. CASE Overrun
  BY <1>3, StandInv DEF Overrun
<1>4. CASE Close
  BY <1>4, StandInv DEF Close
<1>5. CASE Finished \/ UNCHANGED vars
  BY <1>5, StandInv DEF Finished, vars, IInv, Places
<1> QED BY <1>1, <1>2, <1>3, <1>4, <1>5 DEF Next, Step

LEMMA Invariance == Spec => []IInv
BY InitInv, StepInv, PTL DEF Spec

(***************************************************************************)
(* The theorems.                                                           *)
(***************************************************************************)

(* The encoder is somewhere in the file, and all that it writes are words. *)
THEOREM TypeCorrect == Spec => []TypeOK
BY Invariance, Implied, PTL

(* Each word is the instruction on its line, whatever stands on the other  *)
(* lines, exactly when the symbol's own address is found and everything    *)
(* fits in 16 bits: for every table of symbols, buffer and file.           *)
THEOREM WordsStayTrue == Spec => []WordsDecode
BY Invariance, Implied, PTL

(* Whatever the lines of the file are, and however long: the words are in  *)
(* the order of the lines, each instruction that fits the buffer has its   *)
(* one word, nothing else that fits has any, and a line that does not fit  *)
(* has at most one for each time that the buffer was filled.               *)
THEOREM StaysInStep == Spec => []InStep
BY Invariance, Implied, PTL

=============================================================================
