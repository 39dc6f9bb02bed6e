------------------------------ MODULE MCLintTool ------------------------------
(* A small instance of LintTool: three changed paths, every option, every    *)
(* delta status that the loop tells apart and every answer of a child.       *)
EXTENDS LintTool

CONSTANTS f1, f2, f3

MCFiles == {f1, f2, f3}
MCStatuses == {"modified", "deleted"}

\* One answer for each way an answer is judged, and for each tool.
MCResults ==
  {[exit |-> "zero", out |-> "none"], [exit |-> "zero", out |-> "some"],
   [exit |-> "zero", out |-> "garbled"], [exit |-> "nonzero", out |-> "some"],
   [exit |-> "nonzero", out |-> "garbled"],
   [exit |-> "not_started", out |-> "none"]}
===============================================================================
