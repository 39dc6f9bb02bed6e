--------------------------- MODULE MCReviewPosition ---------------------------
(* Patches of one hunk of up to three lines, or of two hunks of up to two    *)
(* lines, of every origin, with or without a newline at the end of the file; *)
(* two diagnostics on any row from the first to one past the last hunk.      *)
EXTENDS ReviewPosition

CONSTANT MaxRow

Hunks(start, maxLines) ==
  {h \in [new_start : {start}, lines : UNION {[1 .. n -> Origins] : n \in 1 .. maxLines}] :
     WellFormed(<<h>>)}

MCPatches ==
  {<<h>> : h \in Hunks(2, 3)}
    \cup {p \in {<<h, k>> : h \in Hunks(1, 2), k \in UNION {Hunks(s, 2) : s \in 3 .. MaxRow - 2}} :
            WellFormed(p)}

MCRows == 1 .. MaxRow
===============================================================================
