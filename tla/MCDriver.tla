------------------------------ MODULE MCDriver ------------------------------
(***************************************************************************)
(* Two invocations in one directory, with the default names, a name that   *)
(* ends in ".s", one that does not, and the driver's own AST.txt.          *)
(***************************************************************************)
EXTENDS Driver

MCArg == {"out.s", "out", "AST.txt"}
MCDotS == {"out.s"}
MCWithMc == [a \in MCArg |-> CASE a = "out.s" -> "out.s.mc"
                               [] a = "out" -> "out.mc"
                               [] OTHER -> "AST.txt.mc"]
MCFile == {"MIPS64.s", "MACHINE_CODE.mc", "AST.txt", "AST_DUMP.txt"}
            \cup MCArg \cup {MCWithMc[a] : a \in MCArg}

=============================================================================
