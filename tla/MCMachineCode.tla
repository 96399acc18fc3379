---------------------------- MODULE MCMachineCode ----------------------------
(***************************************************************************)
(* Files of up to three lines.  Names: x and a label; "counter", which     *)
(* just fits the operand's seven characters; "counter2", which is cut to   *)
(* it; "elements", cut to a name that nobody has; "far", whose address is  *)
(* counter's when it is cut to 16 bits; and one too long for the           *)
(* buffer of daddiu's symbol.  What overruns a buffer becomes a syscall,   *)
(* a word of ones, or nothing.                                             *)
(***************************************************************************)
EXTENDS MachineCode

MCName == {"x", "str0", "counter", "counter2", "elements", "element", "huge", "hug", "gone", "far"}
MCOffsetOf == [n \in MCName |->
  CASE n = "x" -> 0 [] n = "counter" -> 8 [] n = "counter2" -> 16
    [] n = "elements" -> 24 [] n = "str0" -> 32 [] n = "far" -> 65544 [] OTHER -> -1]
MCOperand == [n \in MCName |->
  CASE n = "counter2" -> "counter" [] n = "elements" -> "element"
    [] n = "huge" -> "hug" [] OTHER -> n]

Instructions ==
  {Memory("ld", 10, n) : n \in {"x", "counter", "counter2", "elements", "far"}}
  \cup {Memory("sd", 4, n) : n \in {"x", "counter2", "gone"}}
  \cup {Address(4, n) : n \in {"str0", "element", "huge"}}
  \cup {Immediate(11, k) : k \in {10, -1, 32768}}
  \cup {Alu("daddu", 4, 10, 11), Alu("dsubu", 19, 18, 17)}
  \cup {Product("dmult", 10, 11), Product("ddiv", 12, 31)}
  \cup {Move("mflo", 4), Move("mfhi", 12), Syscall(11)}

(* Short instructions; one with a name that fills more than the buffer;    *)
(* and definitions around and above the size of the buffer, the last one   *)
(* a string whose text can look like anything.                             *)
MCLines ==
  {Line(20, i, {}) : i \in Instructions}
  \cup {Line(120, Memory("ld", 10, "huge"), {Text, Syscall(0)})}
  \cup {Line(k, Skipped, {Text}) : k \in {1, 99, 100, 101}}
  \cup {Line(250, Skipped, {Skipped, Text, Garbled, Syscall(4), Memory("ld", 10, "x")})}

MCJunk == {Encode_R_Type(0, 0, 0, 4, FUNCT_SYSCALL), [high |-> UINT16_MAX, low |-> UINT16_MAX]}

=============================================================================
