------------------------------- MODULE GithubEnv -------------------------------
(****************************************************************************)
(* What the run learns from the environment GitHub gives it: the event, the *)
(* commit, and the number of the pull request, which github::fill_context   *)
(* reads off GITHUB_REF.  An environment is a record: event, ref, sha, and  *)
(* unset, the variables without a value.                                    *)
(****************************************************************************)
EXTENDS Integers, Sequences

Events == {"push", "pull_request", "pull_request_target", "workflow_dispatch"}
EventsWithPrNumber == {"pull_request", "pull_request_target"}
EventsSupportComments == {"pull_request", "pull_request_target"}

\* env::get gives "" for what is not set.
IsSet(env, name) == name \notin env.unset

\* The type of the ref is read from GITHUB_REF itself.
GithubRefType == "GITHUB_REF"

\* What read_env reads and check_env insists on.
CheckedVariables ==
  {"GITHUB_REPOSITORY", "GITHUB_TOKEN", "GITHUB_EVENT_NAME", "GITHUB_REF", "GITHUB_SHA",
   GithubRefType, "GITHUB_WORKSPACE"}

CheckEnv(env) == \A name \in CheckedVariables : IsSet(env, name)

\* What the reports read when they are written; nothing checks it before.
ReportVariable == [action_output |-> "GITHUB_OUTPUT", step_summary |-> "GITHUB_STEP_SUMMARY"]

\* runtime_context.pr_number before it is filled.
NoPrNumber == -1

\* The pull request the run is about, when it is about one.
PrOfRun == 7

\* GITHUB_REF split at its slashes.  Only a pull_request run is given the merge
\* ref; every other run is given the ref of a branch, pull_request_target that of
\* the branch to merge into.
MergeRef == <<"refs", "pull", "7", "merge">>
BranchRefs ==
  {<<"refs", "heads", "main">>, <<"refs", "heads", "release", "v2">>,
   <<"refs", "heads", "18-x", "lts">>}

RefsOf(event) == IF event = "pull_request" THEN {MergeRef} ELSE BranchRefs

\* std::stoi reads the digits a string starts with, and throws when it starts
\* with none.
Stoi == [part \in {"7", "18-x"} |-> IF part = "7" THEN 7 ELSE 18]

CanParse(ref) == Len(ref) = 4 /\ ref[3] \in DOMAIN Stoi

ParsePrNumber(ref) == Stoi[ref[3]]

\* The review forgotten (a plausible mistake; no specification uses it).
NeedsPrNumberSlip(event, reports) ==
  /\ event \in EventsWithPrNumber
  /\ "issue_comment" \in reports

\* The number is read only for the reports that go to a pull request.
NeedsPrNumber(event, reports) ==
  /\ event \in EventsWithPrNumber
  /\ reports \cap {"issue_comment", "review"} # {}
===============================================================================
