------------------------------- MODULE LintTool -------------------------------
(****************************************************************************)
(* One clang tool applied to the files a pull request changed: the loop of  *)
(* clang_tidy_general::check and of clang_format_general::check, which are  *)
(* the same loop around different check_single_file functions.              *)
(*                                                                          *)
(* The loop walks context.changed_files, whose order is that of an          *)
(* unordered_map: the model visits the files in every order.  Each visit    *)
(* runs the tool in a child process; what the child answers is the input.   *)
(****************************************************************************)
EXTENDS Naturals, Sequences, FiniteSets

CONSTANTS
  Files,     \* every path a diff can name
  Statuses,  \* the delta statuses that occur
  Results    \* the answers a child process can give

AllStatuses == {"added", "modified", "deleted"}

\* What shell::execute and the reading of its output amount to.  "exit" is the
\* exit code, or "not_started" when the binary could not be run.  "out" is
\* what standard output holds: no finding, some findings, or text that
\* cannot be read as findings.
AllResults ==
  [exit : {"zero", "nonzero", "not_started"}, out : {"none", "some", "garbled"}]

ASSUME LintToolAssumption ==
  /\ IsFiniteSet(Files)
  /\ Statuses \subseteq AllStatuses
  /\ Results \subseteq AllResults

VARIABLES
  kind,       \* which tool this is
  option,     \* its options, fixed by the command line
  deltas,     \* context.deltas: the changed files, with the status of each
  unvisited,  \* the changed files the loop has not finished with
  execs,      \* the child processes run so far, oldest first
  result,     \* the tool's result_t
  phase       \* "idle", "checking", "done" or "thrown"

vars == <<kind, option, deltas, unvisited, execs, result, phase>>

Kinds == {"clang_format", "clang_tidy"}

\* "selected" is the set of files the iregex matches; an iregex that is not a
\* regular expression is found out only when the loop first uses it.
Options ==
  [enabled_fastly_exit : BOOLEAN, valid_iregex : BOOLEAN, selected : SUBSET Files]

Execs == [file : Files, res : Results]

\* result_t: files in the two maps, and lists of them.  "diagnosed" are the files
\* of fails for which clang-tidy's result has a diagnostic, its diags.
ResultType ==
  [passes : SUBSET Files, fails : SUBSET Files, diagnosed : SUBSET Files, ignored : Seq(Files),
   failed_commands : Seq(Files), final_passed : BOOLEAN, fastly_exited : BOOLEAN]

EmptyResult ==
  [passes |-> {}, fails |-> {}, diagnosed |-> {}, ignored |-> <<>>, failed_commands |-> <<>>,
   final_passed |-> FALSE, fastly_exited |-> FALSE]

Changed == DOMAIN deltas
Ignored == {result.ignored[i] : i \in DOMAIN result.ignored}
Commands == {result.failed_commands[i] : i \in DOMAIN result.failed_commands}

TypeOK ==
  /\ kind \in Kinds
  /\ option \in Options
  /\ Changed \subseteq Files
  /\ deltas \in [Changed -> Statuses]
  /\ unvisited \subseteq Changed
  /\ execs \in Seq(Execs)
  /\ result \in ResultType
  /\ phase \in {"idle", "checking", "done", "thrown"}

-------------------------------------------------------------------------------
(* How one child's answer is judged: check_single_file.                     *)

\* A child that cannot be started makes shell::execute throw.  clang-format's
\* replacements are read as XML, and so is the file they point into.
Throws(res) ==
  \/ res.exit = "not_started"
  \/ kind = "clang_format" /\ res.exit = "zero" /\ res.out = "garbled"

PassesFormat(res) == res.exit = "zero" /\ res.out = "none"

\* clang-tidy may print warnings and still exit with 0.
PassesTidy(res) == res.exit = "zero"

Passes(res) ==
  /\ ~Throws(res)
  /\ IF kind = "clang_format" THEN PassesFormat(res) ELSE PassesTidy(res)

Fails(res) == ~Throws(res) /\ ~Passes(res)

\* clang-tidy may fail with nothing on its standard output that is read as a
\* diagnostic; clang-format's result has no diagnostics.
HasDiags(res) == kind = "clang_tidy" /\ res.out = "some"

-------------------------------------------------------------------------------
(* The loop.  A definition whose name ends in Slip is the definition after it *)
(* with a plausible mistake; no specification uses it.                         *)

Init ==
  /\ kind \in Kinds
  /\ option \in Options
  /\ \E changed \in SUBSET Files : deltas \in [changed -> Statuses]
  /\ unvisited = {}
  /\ execs = <<>>
  /\ result = EmptyResult
  /\ phase = "idle"

\* Every file of the repository is visited.
StartSlip ==
  /\ phase = "idle"
  /\ phase' = "checking"
  /\ unvisited' = Files
  /\ UNCHANGED <<kind, option, deltas, execs, result>>

\* check() is entered: the loop is set up over a copy of changed_files.
Start ==
  /\ phase = "idle"
  /\ phase' = "checking"
  /\ unvisited' = Changed
  /\ UNCHANGED <<kind, option, deltas, execs, result>>

\* The delta's status is never looked at.
IsDeletedSlip(f) == FALSE

IsDeleted(f) == deltas[f] = "deleted"

\* filter_file: the file is dropped when the iregex does not match it.
IsFiltered(f) == f \notin option.selected

Visits(f) == phase = "checking" /\ f \in unvisited

\* A deleted file counted among the ignored ones.
SkipDeletedSlip(f) ==
  /\ Visits(f)
  /\ IsDeleted(f)
  /\ unvisited' = unvisited \ {f}
  /\ result' = [result EXCEPT !.ignored = Append(@, f)]
  /\ UNCHANGED <<kind, option, deltas, execs, phase>>

SkipDeleted(f) ==
  /\ Visits(f)
  /\ IsDeleted(f)
  /\ unvisited' = unvisited \ {f}
  /\ UNCHANGED <<kind, option, deltas, execs, result, phase>>

\* The exception is swallowed and the same file is tried again.
RejectRegexSlip(f) ==
  /\ Visits(f)
  /\ ~option.valid_iregex
  /\ UNCHANGED vars

\* boost::regex throws at the first file that gets as far as the filter.
RejectRegex(f) ==
  /\ Visits(f)
  /\ ~IsDeleted(f)
  /\ ~option.valid_iregex
  /\ phase' = "thrown"
  /\ UNCHANGED <<kind, option, deltas, unvisited, execs, result>>

IgnoreFile(f) ==
  /\ Visits(f)
  /\ ~IsDeleted(f)
  /\ option.valid_iregex
  /\ IsFiltered(f)
  /\ unvisited' = unvisited \ {f}
  /\ result' = [result EXCEPT !.ignored = Append(@, f)]
  /\ UNCHANGED <<kind, option, deltas, execs, phase>>

\* The child is run on f and answers res.
Executes(f, res) ==
  /\ Visits(f)
  /\ ~IsDeleted(f)
  /\ option.valid_iregex
  /\ ~IsFiltered(f)
  /\ execs' = Append(execs, [file |-> f, res |-> res])

PassFile(f, res) ==
  /\ Executes(f, res)
  /\ Passes(res)
  /\ unvisited' = unvisited \ {f}
  /\ result' = [result EXCEPT !.passes = @ \cup {f}]
  /\ UNCHANGED <<kind, option, deltas, phase>>

\* A failed file without the command that reproduces it.
FailedSlip(f, res) == [result EXCEPT !.fails = @ \cup {f}]

\* The bookkeeping of a failed file: the command to reproduce it, and fails[f]
\* with the diagnostics that were read.
Failed(f, res) ==
  [result EXCEPT !.fails = @ \cup {f},
                 !.diagnosed = IF HasDiags(res) THEN @ \cup {f} ELSE @,
                 !.failed_commands = Append(@, f)]

\* The option is parsed and never read.
StopsEarlySlip == FALSE

StopsEarly == option.enabled_fastly_exit

FailFile(f, res) ==
  /\ Executes(f, res)
  /\ Fails(res)
  /\ ~StopsEarly
  /\ unvisited' = unvisited \ {f}
  /\ result' = Failed(f, res)
  /\ UNCHANGED <<kind, option, deltas, phase>>

FailFast(f, res) ==
  /\ Executes(f, res)
  /\ Fails(res)
  /\ StopsEarly
  /\ unvisited' = unvisited \ {f}
  /\ result' = [Failed(f, res) EXCEPT !.final_passed = FALSE, !.fastly_exited = TRUE]
  /\ phase' = "done"
  /\ UNCHANGED <<kind, option, deltas>>

\* An exception leaves the loop; the result stays as it was.
ThrowFile(f, res) ==
  /\ Executes(f, res)
  /\ Throws(res)
  /\ phase' = "thrown"
  /\ UNCHANGED <<kind, option, deltas, unvisited, result>>

\* One good file is enough.
FinalPassedSlip(r) == r.passes # {} \/ r.fails = {}

FinalPassed(r) == r.fails = {}

\* Off by one: the last file is left out.
LoopEndsSlip == Cardinality(unvisited) <= 1

LoopEnds == unvisited = {}

Finish ==
  /\ phase = "checking"
  /\ LoopEnds
  /\ result' = [result EXCEPT !.final_passed = FinalPassed(result)]
  /\ phase' = "done"
  /\ UNCHANGED <<kind, option, deltas, unvisited, execs>>

CheckFile(f, res) ==
  PassFile(f, res) \/ FailFile(f, res) \/ FailFast(f, res) \/ ThrowFile(f, res)

Next ==
  \/ Start
  \/ \E f \in Files : SkipDeleted(f) \/ RejectRegex(f) \/ IgnoreFile(f)
  \/ \E f \in Files, res \in Results : CheckFile(f, res)
  \/ Finish

\* The loop is sequential code: it goes on as long as each child comes back,
\* which is what module ShellExecute is about.
LoopFairness == WF_vars(Next)

Spec == Init /\ [][Next]_vars
FairSpec == Spec /\ LoopFairness
-------------------------------------------------------------------------------
(* What makes it correct.                                                   *)

Required == {f \in Changed : deltas[f] # "deleted" /\ f \in option.selected}

GoodFiles ==
  {f \in Files : \E i \in DOMAIN execs : execs[i].file = f /\ Passes(execs[i].res)}

BadFiles ==
  {f \in Files : \E i \in DOMAIN execs : execs[i].file = f /\ Fails(execs[i].res)}

DiagnosedFiles ==
  {f \in Files : \E i \in DOMAIN execs :
     execs[i].file = f /\ Fails(execs[i].res) /\ HasDiags(execs[i].res)}

\* A tool reports success exactly when the child answered "good" for every
\* file it had to look at: none is skipped, lost to the early exit or to an
\* exception, or judged by another file's answer.
VerdictSound ==
  phase = "done" => (result.final_passed <=> Required \subseteq GoodFiles)

\* When the loop ran to its end, the numbers the reports print add up: every
\* changed file is passed, failed, ignored or deleted, and only one of these.
Accounting ==
  phase = "done" /\ ~result.fastly_exited =>
    Cardinality(Changed) =
      Cardinality(result.passes) + Cardinality(result.fails)
        + Len(result.ignored)
        + Cardinality({f \in Changed : deltas[f] = "deleted"})

\* A child is run at most once per file, and never on a file that the source
\* commit does not have or that the user filtered out.
RunsOncePerRequiredFile ==
  /\ \A i \in DOMAIN execs : execs[i].file \in Required
  /\ \A i, j \in DOMAIN execs : execs[i].file = execs[j].file => i = j

\* The commands offered to reproduce the failures are those of the files that
\* failed, one for each, whatever ended the loop.
FailuresReproducible ==
  /\ result.fails = BadFiles
  /\ Commands = BadFiles
  /\ Len(result.failed_commands) = Cardinality(result.fails)

\* With enabled_fastly_exit no child is run after one has failed.
FastExitStops ==
  [][option.enabled_fastly_exit /\ BadFiles # {} => UNCHANGED execs]_vars

\* The loop comes to a verdict or leaves with an exception.
Terminates == <>(phase \in {"done", "thrown"})

\* The verdict a caller of check() sees.
ShownVerdict ==
  CASE phase = "thrown" -> "aborted"
    [] phase = "done" -> IF result.final_passed THEN "passed" ELSE "failed"
    [] OTHER -> "pending"

Verdict == INSTANCE LintVerdict WITH
  required <- Required, good <- GoodFiles, bad <- BadFiles, verdict <- ShownVerdict

\* Seen through its verdict, the loop is the abstract tool of LintVerdict: it
\* learns about one required file at a time, says "passed" only with all of them
\* good, "failed" only with a bad one, and nothing after an exception.
RefinesVerdict == Verdict!Spec
===============================================================================
