----------------------------- MODULE MCAssembly -----------------------------
(***************************************************************************)
(* Three identifiers: an ordinary one, one spelled like a literal's        *)
(* label, and one that is too long for the table; four literals, two of   *)
(* which are the same text once unescaped, for two labels; two registers,  *)
(* r5 and r6, so that a third variable gets none.                          *)
(***************************************************************************)
EXTENDS Assembly

MCIdent == {"a", "str0", "long"}
MCName == MCIdent \cup {"str1", "lon"}
MCCut == [n \in MCName |-> IF n = "long" THEN "lon" ELSE n]
MCLiteral == {"s", "t", "t escaped", "u"}
MCUnescape == [l \in MCLiteral |-> IF l = "t escaped" THEN "t" ELSE l]
MCSizeOf == [l \in MCLiteral |-> CASE l = "s" -> 1 [] OTHER -> 3]
MCStrLabel == <<"str0", "str1">>

=============================================================================
