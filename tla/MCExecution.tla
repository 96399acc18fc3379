----------------------------- MODULE MCExecution -----------------------------
(***************************************************************************)
(* Three variables in an array for one; two literals, of which one is as   *)
(* long as the printf buffer and is shortened when it is unescaped again;  *)
(* ints of 4 bits, immediates of 3 and registers of 8; two temporaries, so *)
(* that a right operand of three nodes overwrites the left one.            *)
(***************************************************************************)
EXTENDS Execution

MCIdent == {"a", "b", "c"}
MCLiteral == {"s", "long"}
MCNumber == {0, 1, 3, 5}
MCSize == [l \in MCLiteral |-> IF l = "s" THEN 1 ELSE 3]
MCWidth == [v \in -8 .. 7 |-> IF v < 0 THEN 2 ELSE 1]
MCUnescape == [l \in MCLiteral |-> "s"]

=============================================================================
