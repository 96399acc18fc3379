-------------------------- MODULE MCTempRegisters --------------------------
(***************************************************************************)
(* The generator's own register range, r10-r19, and enough tree nodes for  *)
(* the counter to wrap.                                                    *)
(***************************************************************************)
EXTENDS TempRegisters

=============================================================================
