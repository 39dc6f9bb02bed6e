---------------------------- MODULE MCShellExecute ----------------------------
(* Children that write at most MaxWrites units, in every order, over pipes   *)
(* of two units: enough for either pipe to fill while the other is read.     *)
EXTENDS ShellExecute

CONSTANT MaxWrites

MCPrograms == UNION {[1 .. n -> Streams] : n \in 0 .. MaxWrites}
===============================================================================
