--------------------------- MODULE MCSymbolTable ---------------------------
(***************************************************************************)
(* A small instance: two short names, two over-long identifiers that are   *)
(* cut to the same name "c" (itself a possible identifier), and a name     *)
(* that is also a generated label.  Three registers (r5-r7), four entries. *)
(***************************************************************************)
EXTENDS SymbolTable

MCName == {"a", "c", "c_long1", "c_long2", "str0"}

MCCut == [n \in MCName |-> IF n \in {"c_long1", "c_long2"} THEN "c" ELSE n]

=============================================================================
