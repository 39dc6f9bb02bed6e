----------------------------- MODULE LintVerdict -----------------------------
(****************************************************************************)
(* What one lint tool promises to tool::run_tools, without saying how: the  *)
(* verdict of each required file may become known once, "passed" is said    *)
(* only when every required file is known to be good, "failed" only when a  *)
(* file is known to be bad, and "aborted" stands for an exception, after    *)
(* which no verdict is ever given.                                          *)
(****************************************************************************)
CONSTANT Files

VARIABLES
  required,   \* the files that must be looked at
  good, bad,  \* the files known to satisfy the tool, and those known not to
  verdict     \* "pending", "passed", "failed" or "aborted"

vars == <<required, good, bad, verdict>>

TypeOK ==
  /\ required \subseteq Files
  /\ good \subseteq required
  /\ bad \subseteq required
  /\ verdict \in {"pending", "passed", "failed", "aborted"}

Init ==
  /\ required \in SUBSET Files
  /\ good = {}
  /\ bad = {}
  /\ verdict = "pending"

Unknown == required \ (good \cup bad)

LearnGood(f) ==
  /\ verdict = "pending"
  /\ f \in Unknown
  /\ good' = good \cup {f}
  /\ UNCHANGED <<required, bad, verdict>>

\* A tool may stop at the first bad file, without learning about the others.
LearnBad(f) ==
  /\ verdict = "pending"
  /\ f \in Unknown
  /\ bad' = bad \cup {f}
  /\ verdict' \in {"pending", "failed"}
  /\ UNCHANGED <<required, good>>

Conclude ==
  /\ verdict = "pending"
  /\ \/ good = required /\ verdict' = "passed"
     \/ bad # {} /\ Unknown = {} /\ verdict' = "failed"
  /\ UNCHANGED <<required, good, bad>>

Abort ==
  /\ verdict = "pending"
  /\ verdict' = "aborted"
  /\ UNCHANGED <<required, good, bad>>

Next ==
  \/ \E f \in Files : LearnGood(f) \/ LearnBad(f)
  \/ Conclude
  \/ Abort

Spec == Init /\ [][Next]_vars

\* A tool that is asked for a verdict does not stay silent for ever.
FairSpec == Spec /\ <>(verdict # "pending")
==============================================================================
