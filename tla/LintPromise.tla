----------------------------- MODULE LintPromise ------------------------------
(****************************************************************************)
(* What a whole run promises to the workflow that started it: first every   *)
(* enabled tool looks at its files, then every requested report is          *)
(* delivered, and only then the run turns green or red.  An error may end   *)
(* it anywhere, and nothing happens after its end.                          *)
(****************************************************************************)
CONSTANTS Tools, Files, Reports

VARIABLES
  enabled,    \* the tools to run
  requested,  \* the reports to deliver
  finished,   \* the tools that have given their verdict
  bad,        \* the <<tool, file>> pairs known not to be good
  delivered,  \* the reports that were delivered
  outcome     \* "pending", "green", "red" or "error"

vars == <<enabled, requested, finished, bad, delivered, outcome>>

Init ==
  /\ enabled \subseteq Tools
  /\ requested \subseteq Reports
  /\ finished = {}
  /\ bad = {}
  /\ delivered = {}
  /\ outcome = "pending"

Look(t, f) ==
  /\ outcome = "pending"
  /\ t \in enabled \ finished
  /\ bad' = bad \cup {<<t, f>>}
  /\ UNCHANGED <<enabled, requested, finished, delivered, outcome>>

FinishTool(t) ==
  /\ outcome = "pending"
  /\ t \in enabled \ finished
  /\ finished' = finished \cup {t}
  /\ UNCHANGED <<enabled, requested, bad, delivered, outcome>>

\* A report may reach its reader although the run fails while it sends it.
Deliver(r) ==
  /\ outcome = "pending"
  /\ finished = enabled
  /\ r \in requested \ delivered
  /\ delivered' = delivered \cup {r}
  /\ outcome' \in {"pending", "error"}
  /\ UNCHANGED <<enabled, requested, finished, bad>>

Conclude ==
  /\ outcome = "pending"
  /\ finished = enabled
  /\ delivered = requested
  /\ outcome' = IF bad = {} THEN "green" ELSE "red"
  /\ UNCHANGED <<enabled, requested, finished, bad, delivered>>

Fail ==
  /\ outcome = "pending"
  /\ outcome' = "error"
  /\ UNCHANGED <<enabled, requested, finished, bad, delivered>>

Next ==
  \/ \E t \in Tools : FinishTool(t) \/ \E f \in Files : Look(t, f)
  \/ \E r \in Reports : Deliver(r)
  \/ Conclude
  \/ Fail

Spec == Init /\ [][Next]_vars
===============================================================================
