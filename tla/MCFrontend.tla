----------------------------- MODULE MCFrontend -----------------------------
(***************************************************************************)
(* Two names, a parser stack of three lines, two pending nodes per         *)
(* expression and two counted errors.                                      *)
(***************************************************************************)
EXTENDS Frontend, TLC

CONSTANTS x, y

Names == {x, y}

Symmetry == Permutations(Names)

=============================================================================
