-------------------------------- MODULE LintRun --------------------------------
(****************************************************************************)
(* One run of the program: main(), from the command line to the exit code.  *)
(* It composes the loop of module LintTool, run once for each enabled tool, *)
(* with the stages before and after it.  An exception or a failed assertion *)
(* anywhere ends the process: main() catches nothing.                       *)
(****************************************************************************)
EXTENDS GithubEnv, GitObjects, ToolOptions

CONSTANTS
  Files, Statuses, Results,   \* as in LintTool
  Inputs,                     \* what a run may be given: see IsInput
  Iregexes                    \* from file filters to whether they are valid, and what they select

VARIABLES
  cmd,         \* the command line
  env,         \* the environment
  host, git,   \* the machine, as in ToolOptions, and the repository, as in GitObjects
  stage,       \* where main() is
  pr_number,   \* context.pr_number
  repo,        \* libgit2: is it initialised, and the handles it gave out
  todo,        \* the option_t of the tools run_tools has still to run
  reporters,   \* the reporters it has collected: the option_t and the result_t of a tool
  said,        \* what the reports told: numbers, lines that name a file, and a title
  delivered,   \* the reports that went out whole
  exit_code,   \* what the process ended with
  judged,      \* history: what the children answered, for each finished tool
  kind, option, deltas, unvisited, execs, result, phase   \* the tool in hand

Tool == INSTANCE LintTool

toolVars == <<kind, option, unvisited, execs, result, phase>>
reportVars == <<said, delivered>>
inputVars == <<cmd, env, host, git>>
vars == <<inputVars, stage, pr_number, repo, todo, reporters, reportVars, exit_code,
          judged, toolVars, deltas>>

Reports == {"action_output", "step_summary", "issue_comment", "review"}

\* A command line: --help or --version, the general options that are given, and
\* those of each tool.
IsCommandLine(line) ==
  /\ line.info \in BOOLEAN
  /\ DOMAIN line.general \subseteq Reports \cup {"target_revision", "log_level"}
  /\ \A report \in Reports \cap DOMAIN line.general : line.general[report] \in BOOLEAN
  /\ DOMAIN line.tools = Tool!Kinds
  /\ \A k \in Tool!Kinds :
       /\ DOMAIN line.tools[k] \subseteq {"enable", "enable_fastly_exit", "file_iregex", "version", "binary"}
       /\ \A flag \in {"enable", "enable_fastly_exit"} \cap DOMAIN line.tools[k] :
            line.tools[k][flag] \in BOOLEAN
       /\ "file_iregex" \in DOMAIN line.tools[k] => line.tools[k].file_iregex \in DOMAIN Iregexes

IsInput(input) ==
  /\ IsCommandLine(input.cmd)
  /\ input.env.event \in Events /\ input.env.ref \in RefsOf(input.env.event)
  /\ IsRepository(input.git)
  /\ \A id \in DOMAIN input.git.commits : DOMAIN input.git.commits[id].tree \subseteq Files

ASSUME LintRunAssumption ==
  /\ \A input \in Inputs : IsInput(input)
  /\ "default" \in DOMAIN Iregexes
  /\ \A iregex \in DOMAIN Iregexes :
       Iregexes[iregex].valid \in BOOLEAN /\ Iregexes[iregex].selected \subseteq Files
  /\ IsFiniteSet(Files) /\ Statuses = Tool!AllStatuses /\ Results \subseteq Tool!AllResults

\* The stages of main(), in its order.
Setup ==
  {"parse", "create_format", "create_tidy", "fill_context", "fill_env", "git_setup",
   "git_info", "check_head"}
Sending == {"action_output", "step_summary", "comment_id", "issue_comment", "review"}
Stages == Setup \cup {"tools"} \cup Sending \cup {"shutdown", "return", "destroy", "ended"}

Handles == {"repo", "target_commit", "source_commit", "patches"}

NoFiles == [f \in {} |-> "modified"]
Unjudged == [good |-> {}, bad |-> {}, diagnosed |-> {}]

\* What the reports can say.  The action output and the table of the issue comment
\* give numbers, the details of the comment and the summary name files, and the
\* summary has a title.  The lines of clang-tidy hold one diagnostic each: what
\* they are about is the file, and a file of several diagnostics is named once.
Texts ==
  [numbers : SUBSET [report : {"action_output", "issue_comment"}, tool : Tool!Kinds,
                     failed : 0 .. Cardinality(Files)],
   lines : SUBSET [report : {"step_summary", "issue_comment"}, tool : Tool!Kinds, file : Files],
   title : {"none", "passed", "failed"}]

Nothing == [numbers |-> {}, lines |-> {}, title |-> "none"]

\* The options of the program and of one tool, as variables_map holds them.
General == Parse(cmd.general, GeneralDefaults)
OfTool(k) == Parse(cmd.tools[k], ToolDefaults)

\* The tools and reports this run is asked for; --help and --version ask for none.
Enabled == {k \in Tool!Kinds : ~cmd.info /\ OfTool(k).enable}
Requested == {report \in Reports : ~cmd.info /\ General[report]}

\* What create_tool can make for this run.
OptionTs == UNION {CreateOption(k, OfTool(k), host) : k \in Enabled}

TypeOK ==
  /\ IsInput([cmd |-> cmd, env |-> env, host |-> host, git |-> git])
  /\ stage \in Stages
  /\ pr_number \in Int
  /\ repo \in [inits : 0 .. 1, live : SUBSET Handles]
  /\ todo \in Seq(OptionTs)
  /\ reporters \in Seq([option : OptionTs, result : Tool!ResultType])
  /\ said \in Texts
  /\ delivered \subseteq Requested
  /\ exit_code \in {"none", "0", "1", "abort"}
  /\ judged \in [Tool!Kinds -> [good : SUBSET Files, bad : SUBSET Files, diagnosed : SUBSET Files]]
  /\ Tool!TypeOK

-------------------------------------------------------------------------------
(* Starting up.  As in LintTool, a definition whose name ends in Slip is the *)
(* one after it with a plausible mistake.                                     *)

\* What the loop needs of an option_t.
LoopOption(fastly_exit, iregex) ==
  [enabled_fastly_exit |-> fastly_exit, valid_iregex |-> Iregexes[iregex].valid,
   selected |-> Iregexes[iregex].selected]

NoToolYet ==
  /\ kind = "clang_format"
  /\ option = LoopOption(FALSE, "default")
  /\ unvisited = {}
  /\ execs = <<>>
  /\ result = Tool!EmptyResult
  /\ phase = "idle"

Init ==
  /\ \E input \in Inputs :
       cmd = input.cmd /\ env = input.env /\ host = input.host /\ git = input.git
  /\ stage = "parse"
  /\ pr_number = NoPrNumber
  /\ repo = [inits |-> 0, live |-> {}]
  /\ todo = <<>>
  /\ reporters = <<>>
  /\ said = Nothing
  /\ delivered = {}
  /\ exit_code = "none"
  /\ judged = [k \in Tool!Kinds |-> Unjudged]
  /\ deltas = NoFiles
  /\ NoToolYet

\* The parts that a stage outside run_tools leaves alone.
KeepsTools == UNCHANGED <<todo, reporters, judged, toolVars>>

\* An exception, or an assertion that does not hold: no handler, no unwinding.
Abort == stage' = "ended" /\ exit_code' = "abort"

\* --help and --version print and return.
PrintInfo ==
  /\ stage = "parse"
  /\ cmd.info
  /\ stage' = "ended"
  /\ exit_code' = "0"
  /\ UNCHANGED <<inputVars, pr_number, repo, reportVars, deltas>> /\ KeepsTools

ParseOptions ==
  /\ stage = "parse"
  /\ ~cmd.info
  /\ SetsLogLevel(General)
  /\ stage' = "create_format"
  /\ UNCHANGED <<inputVars, pr_number, repo, reportVars, exit_code, deltas>> /\ KeepsTools

\* set_log comes after --help and --version.
NoSuchLevel ==
  /\ stage = "parse"
  /\ ~cmd.info
  /\ ~SetsLogLevel(General)
  /\ Abort
  /\ UNCHANGED <<inputVars, pr_number, repo, reportVars, deltas>> /\ KeepsTools

\* The tool run_tools comes to next, as its creator made it.
TakeUp(tools) ==
  IF tools = <<>>
    THEN UNCHANGED toolVars
    ELSE /\ kind' = Head(tools).tool
         /\ option' = LoopOption(Head(tools).enabled_fastly_exit, Head(tools).file_iregex)
         /\ unvisited' = {}
         /\ execs' = <<>>
         /\ result' = Tool!EmptyResult
         /\ phase' = "idle"

\* create_tool of one creator: no tool when it is not enabled.
Creates(k, next) ==
  /\ IF k \in Enabled
       THEN \E option_t \in CreateOption(k, OfTool(k), host) : todo' = Append(todo, option_t)
       ELSE todo' = todo
  /\ TakeUp(todo')
  /\ stage' = next
  /\ UNCHANGED <<inputVars, pr_number, repo, reporters, reportVars, exit_code, judged, deltas>>

\* A version with a binary, no such binary, or none that tells its version.
CreatorThrows(k) ==
  /\ k \in Enabled
  /\ CreateOption(k, OfTool(k), host) = {}
  /\ Abort
  /\ UNCHANGED <<inputVars, pr_number, repo, reportVars, deltas>> /\ KeepsTools

CreateFormat ==
  stage = "create_format" /\ (Creates("clang_format", "create_tidy") \/ CreatorThrows("clang_format"))

CreateTidy ==
  stage = "create_tidy" /\ (Creates("clang_tidy", "fill_context") \/ CreatorThrows("clang_tidy"))

FillContext ==
  /\ stage = "fill_context"
  /\ MustSpecify(General, {"target_revision"})
  /\ stage' = "fill_env"
  /\ UNCHANGED <<inputVars, pr_number, repo, reportVars, exit_code, deltas>> /\ KeepsTools

NoTarget ==
  /\ stage = "fill_context"
  /\ ~MustSpecify(General, {"target_revision"})
  /\ Abort
  /\ UNCHANGED <<inputVars, pr_number, repo, reportVars, deltas>> /\ KeepsTools

NeedsPr == NeedsPrNumber(env.event, Requested)

FillEnv ==
  /\ stage = "fill_env"
  /\ CheckEnv(env)
  /\ NeedsPr => CanParse(env.ref)
  /\ pr_number' = IF NeedsPr THEN ParsePrNumber(env.ref) ELSE pr_number
  /\ stage' = "git_setup"
  /\ UNCHANGED <<inputVars, repo, reportVars, exit_code, deltas>> /\ KeepsTools

NotSet ==
  /\ stage = "fill_env"
  /\ ~CheckEnv(env)
  /\ Abort
  /\ UNCHANGED <<inputVars, pr_number, repo, reportVars, deltas>> /\ KeepsTools

RefIsNoPr ==
  /\ stage = "fill_env"
  /\ CheckEnv(env)
  /\ NeedsPr /\ ~CanParse(env.ref)
  /\ Abort
  /\ UNCHANGED <<inputVars, pr_number, repo, reportVars, deltas>> /\ KeepsTools

GitSetup ==
  /\ stage = "git_setup"
  /\ repo' = [repo EXCEPT !.inits = @ + 1]
  /\ stage' = "git_info"
  /\ UNCHANGED <<inputVars, pr_number, reportVars, exit_code, deltas>> /\ KeepsTools

Target == General.target_revision
HaveCommits == IsCommit(git, Target) /\ IsCommit(git, env.sha)
TargetTree == git.commits[Commit(git, Target)].tree
SourceTree == git.commits[Commit(git, env.sha)].tree

\* The diff itself is freed on return; the patches keep what they need of it.
FillGitInfo ==
  /\ stage = "git_info"
  /\ HaveCommits
  /\ LET diff == CommitToCommit(git, Commit(git, Target), Commit(git, env.sha)) IN
       deltas' = [path \in ChangedFiles(Patches(diff)) |-> Deltas(diff)[path]]
  /\ repo' = [repo EXCEPT !.live = Handles]
  /\ stage' = "check_head"
  /\ UNCHANGED <<inputVars, pr_number, reportVars, exit_code>> /\ KeepsTools

IsOnSource == SameObject(git, HeadCommit(git), Commit(git, env.sha))

CheckHead ==
  /\ stage = "check_head"
  /\ IsOnSource
  /\ stage' = "tools"
  /\ UNCHANGED <<inputVars, pr_number, repo, reportVars, exit_code, deltas>> /\ KeepsTools

\* A revision that is no commit, or a check-out of another commit.
GitRefuses ==
  /\ \/ stage = "git_info" /\ ~HaveCommits
     \/ stage = "check_head" /\ ~IsOnSource
  /\ Abort
  /\ UNCHANGED <<inputVars, pr_number, repo, reportVars, deltas>> /\ KeepsTools

\* Options that cannot be read, or a workspace that is no repository.
SetupFails ==
  /\ stage \in {"parse", "git_info"}
  /\ Abort
  /\ UNCHANGED <<inputVars, pr_number, repo, reportVars, deltas>> /\ KeepsTools

-------------------------------------------------------------------------------
(* run_tools.                                                               *)

StepTool ==
  /\ stage = "tools"
  /\ todo # <<>>
  /\ Tool!Next
  /\ UNCHANGED <<inputVars, stage, pr_number, repo, todo, reporters, reportVars, exit_code, judged>>

\* check() has returned: its reporter is kept and the next tool is taken up.
EndTool ==
  /\ stage = "tools"
  /\ todo # <<>>
  /\ phase = "done"
  /\ reporters' = Append(reporters, [option |-> Head(todo), result |-> result])
  /\ judged' = [judged EXCEPT ![kind] = [good |-> Tool!GoodFiles, bad |-> Tool!BadFiles,
                                          diagnosed |-> Tool!DiagnosedFiles]]
  /\ todo' = Tail(todo)
  /\ TakeUp(todo')
  /\ UNCHANGED <<inputVars, stage, pr_number, repo, reportVars, exit_code, deltas>>

\* An exception that a forgiving run_tools would drop, with the tool.
ToolThrowsSlip ==
  /\ stage = "tools"
  /\ todo # <<>>
  /\ phase = "thrown"
  /\ todo' = Tail(todo)
  /\ TakeUp(todo')
  /\ UNCHANGED <<inputVars, stage, pr_number, repo, reporters, reportVars, exit_code, judged, deltas>>

\* A tool that threw is run once more.
ToolThrowsRetriesSlip ==
  /\ stage = "tools"
  /\ todo # <<>>
  /\ phase = "thrown"
  /\ TakeUp(todo)
  /\ UNCHANGED <<inputVars, stage, pr_number, repo, todo, reporters, reportVars, exit_code, judged, deltas>>

ToolThrows ==
  /\ stage = "tools"
  /\ todo # <<>>
  /\ phase = "thrown"
  /\ Abort
  /\ UNCHANGED <<inputVars, pr_number, repo, reportVars, deltas>> /\ KeepsTools

\* The loop is left after the first tool.
NoMoreToolsSlip == reporters # <<>> \/ todo = <<>>

NoMoreTools == todo = <<>>

EndTools ==
  /\ stage = "tools"
  /\ NoMoreTools
  /\ stage' = "action_output"
  /\ UNCHANGED <<inputVars, pr_number, repo, reportVars, exit_code, deltas>> /\ KeepsTools

-------------------------------------------------------------------------------
(* The reports.                                                             *)

AllPassed == \A i \in DOMAIN reporters : reporters[i].result.final_passed

\* The files that passed, taken for those that failed.
FailedNumberSlip(i) == Cardinality(reporters[i].result.passes)

FailedNumber(i) == Cardinality(reporters[i].result.fails)

Says(report, i) ==
  [report |-> report, tool |-> reporters[i].option.tool, failed |-> FailedNumber(i)]

\* The tools a report has given the number of.
Told(report) == {m.tool : m \in {m \in said.numbers : m.report = report}}

\* clang-format's files are looked for where clang-tidy keeps its own.
BriefSlip(i) == reporters[i].result.diagnosed

\* make_brief_result lists the failed files of clang-format, make_brief every
\* diagnostic of the failed files of clang-tidy: a file that failed with none is
\* not named.
Brief(i) ==
  IF reporters[i].option.tool = "clang_format"
    THEN reporters[i].result.fails
    ELSE reporters[i].result.diagnosed

Lines(report, i) ==
  [report : {report}, tool : {reporters[i].option.tool}, file : Brief(i)]

Sends(report) == stage = report /\ report \in Requested
Skips(report) == stage = report /\ report \notin Requested

\* The call of one report returns.
Delivers(report, next) ==
  /\ Sends(report)
  /\ delivered' = delivered \cup {report}
  /\ stage' = next

\* Each reporter opens GITHUB_OUTPUT and appends a line of its own.
WriteOutput(i) ==
  /\ Sends("action_output")
  /\ IsSet(env, ReportVariable.action_output)
  /\ i = Cardinality(Told("action_output")) + 1
  /\ said' = [said EXCEPT !.numbers = @ \cup {Says("action_output", i)}]
  /\ UNCHANGED <<inputVars, stage, pr_number, repo, delivered, exit_code, deltas>> /\ KeepsTools

EndOutput ==
  /\ Cardinality(Told("action_output")) = Len(reporters)
  /\ Delivers("action_output", "step_summary")
  /\ UNCHANGED <<inputVars, pr_number, repo, said, exit_code, deltas>> /\ KeepsTools

\* Under a title that all passed, nothing; else the lines of every tool.
Summary ==
  IF AllPassed
    THEN [said EXCEPT !.title = "passed"]
    ELSE [said EXCEPT !.title = "failed",
                      !.lines = @ \cup UNION {Lines("step_summary", i) : i \in DOMAIN reporters}]

\* One text, written at once.
WriteSummary ==
  /\ IsSet(env, ReportVariable.step_summary)
  /\ Delivers("step_summary", "comment_id")
  /\ said' = Summary
  /\ UNCHANGED <<inputVars, pr_number, repo, exit_code, deltas>> /\ KeepsTools

SupportsComments == env.event \in EventsSupportComments

\* comment_on_github_issue begins with a request for the comment to update.
GetCommentId ==
  /\ stage = "comment_id"
  /\ "issue_comment" \in Requested
  /\ SupportsComments
  /\ stage' = "issue_comment"
  /\ UNCHANGED <<inputVars, pr_number, repo, reportVars, exit_code, deltas>> /\ KeepsTools

AssertSupportsComments ==
  /\ stage = "comment_id"
  /\ "issue_comment" \in Requested
  /\ ~SupportsComments
  /\ Abort
  /\ UNCHANGED <<inputVars, pr_number, repo, reportVars, deltas>> /\ KeepsTools

\* assert(failed != 0), for each tool that did not pass.
AssertFailed(i) == reporters[i].result.final_passed \/ FailedNumber(i) # 0

NotPassed == {i \in DOMAIN reporters : ~reporters[i].result.final_passed}

\* A row of the table for every tool, details for those that did not pass.
Comment ==
  [said EXCEPT !.numbers = @ \cup {Says("issue_comment", i) : i \in DOMAIN reporters},
               !.lines = @ \cup UNION {Lines("issue_comment", i) : i \in NotPassed}]

PostComment ==
  /\ \A i \in DOMAIN reporters : AssertFailed(i)
  /\ Delivers("issue_comment", "review")
  /\ said' = Comment
  /\ UNCHANGED <<inputVars, pr_number, repo, exit_code, deltas>> /\ KeepsTools

PostReview ==
  /\ Delivers("review", "shutdown")
  /\ UNCHANGED <<inputVars, pr_number, repo, said, exit_code, deltas>> /\ KeepsTools

\* A report that was not asked for.
SkipReport ==
  /\ \/ Skips("action_output") /\ stage' = "step_summary"
     \/ Skips("step_summary") /\ stage' = "comment_id"
     \/ stage = "comment_id" /\ "issue_comment" \notin Requested /\ stage' = "review"
     \/ Skips("review") /\ stage' = "shutdown"
  /\ UNCHANGED <<inputVars, pr_number, repo, reportVars, exit_code, deltas>> /\ KeepsTools

\* A file that does not open, no connection, an answer that is not a success.
SendFails ==
  /\ \/ \E r \in Reports : Sends(r)
     \/ stage = "comment_id" /\ "issue_comment" \in Requested
  /\ Abort
  /\ UNCHANGED <<inputVars, pr_number, repo, reportVars, deltas>> /\ KeepsTools

\* GitHub did what it was asked and the answer was lost or could not be read.
AnswerLost ==
  /\ \/ Sends("issue_comment") /\ said' = Comment
     \/ Sends("review") /\ UNCHANGED said
  /\ delivered' = delivered \cup {stage}
  /\ Abort
  /\ UNCHANGED <<inputVars, pr_number, repo, deltas>> /\ KeepsTools

-------------------------------------------------------------------------------
(* The end.                                                                 *)

\* The destructors shut libgit2 down as well.
GitShutdownSlip ==
  /\ stage = "shutdown"
  /\ repo' = [repo EXCEPT !.inits = @ - 2]
  /\ stage' = "return"
  /\ UNCHANGED <<inputVars, pr_number, reportVars, exit_code, deltas>> /\ KeepsTools

GitShutdown ==
  /\ stage = "shutdown"
  /\ repo' = [repo EXCEPT !.inits = @ - 1]
  /\ stage' = "return"
  /\ UNCHANGED <<inputVars, pr_number, reportVars, exit_code, deltas>> /\ KeepsTools

Return ==
  /\ stage = "return"
  /\ exit_code' = IF AllPassed THEN "0" ELSE "1"
  /\ stage' = "destroy"
  /\ UNCHANGED <<inputVars, pr_number, repo, reportVars, deltas>> /\ KeepsTools

\* The destructor of the runtime context frees the handles.
DestroyContext ==
  /\ stage = "destroy"
  /\ repo' = [repo EXCEPT !.live = {}]
  /\ stage' = "ended"
  /\ UNCHANGED <<inputVars, pr_number, reportVars, exit_code, deltas>> /\ KeepsTools

Starts ==
  PrintInfo \/ ParseOptions \/ NoSuchLevel \/ CreateFormat \/ CreateTidy \/ FillContext \/ NoTarget
    \/ FillEnv \/ NotSet \/ RefIsNoPr
    \/ GitSetup \/ FillGitInfo \/ CheckHead \/ GitRefuses \/ SetupFails
RunsTools == StepTool \/ EndTool \/ ToolThrows \/ EndTools
SendsReports ==
  \/ \E i \in DOMAIN reporters : WriteOutput(i)
  \/ EndOutput \/ WriteSummary \/ GetCommentId \/ AssertSupportsComments
  \/ PostComment \/ PostReview \/ SkipReport \/ SendFails \/ AnswerLost
Ends == GitShutdown \/ Return \/ DestroyContext

Next == Starts \/ RunsTools \/ SendsReports \/ Ends

Spec == Init /\ [][Next]_vars

\* A sequential program: each call returns or throws.
FairSpec == Spec /\ WF_vars(Next)

-------------------------------------------------------------------------------
(* What makes it correct.                                                   *)

\* The files a tool has to look at, by what the run was given: those that differ
\* between the target and the source, are in the source, and pass the filter.
Required(k) ==
  Differing(TargetTree, SourceTree) \cap DOMAIN SourceTree
    \cap Iregexes[OfTool(k).file_iregex].selected

\* The workflow step is green only if every enabled tool was run and its child
\* answered "good" for every file the tool had to look at: no exception, early
\* exit, skipped tool, report of another tool or path with two deltas can turn
\* the run green.
GreenMeansChecked ==
  exit_code = "0" => \A k \in Enabled : Required(k) \subseteq judged[k].good

\* Every verdict is that of the tool that was asked for: the version or the binary
\* given, or else the one on the PATH, never one of both when both are given; and
\* with the early exit and the filter that were given.
ToolAsAsked ==
  \A i \in DOMAIN reporters :
    LET used == reporters[i].option
        given == cmd.tools[used.tool]
    IN /\ {"version", "binary"} \cap DOMAIN given = {} => used.binary = host.plain[used.tool]
       /\ "binary" \in DOMAIN given => used.binary = given.binary
       /\ "version" \in DOMAIN given => used.binary = host.versioned[used.tool][given.version]
       /\ ~({"version", "binary"} \subseteq DOMAIN given)
       /\ used.enabled_fastly_exit = OfTool(used.tool).enable_fastly_exit
       /\ used.file_iregex = OfTool(used.tool).file_iregex

Named(report, k) == {line.file : line \in {line \in said.lines : line.report = report /\ line.tool = k}}

\* The bad files that a text need not name: clang-tidy ended with a failure and
\* printed nothing that was read as a diagnostic.
Undiagnosed(k) == IF k = "clang_tidy" THEN judged[k].bad \ judged[k].diagnosed ELSE {}

\* What a report that went out has to say.
SaysAll(report) ==
  /\ report \in {"action_output", "issue_comment"} => Told(report) = Enabled
  /\ report \in {"step_summary", "issue_comment"} =>
       \A k \in Enabled : judged[k].bad \subseteq Named(report, k) \cup Undiagnosed(k)
  /\ report = "step_summary" =>
       said.title = IF \A k \in Enabled : judged[k].bad = {} THEN "passed" ELSE "failed"

\* Whatever a report says is what the children answered: each number counts the
\* bad files of its tool and each file named is a bad one.  A report that went out
\* leaves nothing out: the action output and the comment give the number of every
\* enabled tool, the summary and the comment name every bad file that clang-format
\* found and every one that clang-tidy explained, and the title of the summary is
\* "passed" exactly when no child found anything.  A file that clang-tidy failed
\* without a diagnostic is named nowhere, and the summary does not even count it.
ReportsTruthful ==
  /\ \A m \in said.numbers : m.failed = Cardinality(judged[m.tool].bad)
  /\ \A line \in said.lines : line.file \in judged[line.tool].bad
  /\ \A report \in delivered : SaysAll(report)

\* The assertion of comment_on_github_issue: a tool that did not pass has failed
\* files, whichever way its loop ended.
NotPassedMeansFailed ==
  stage = "issue_comment" => \A i \in DOMAIN reporters : AssertFailed(i)

\* In a pull_request run, whatever is sent to GitHub is addressed to the pull
\* request of the run, although its number is read at the start and only if a
\* report is expected to want it.
PullRequestKnown ==
  /\ env.event = "pull_request"
  /\ Sends("issue_comment") \/ Sends("review")
  => pr_number = PrOfRun

\* The process ends.
RunEnds == <>(stage = "ended")

Outcome ==
  IF exit_code = "none" THEN "pending"
  ELSE IF exit_code = "0" THEN "green"
  ELSE IF exit_code = "1" THEN "red"
  ELSE "error"

BadPairs ==
  (UNION {{k} \X judged[k].bad : k \in Tool!Kinds}) \cup ({kind} \X Tool!BadFiles)

Promise == INSTANCE LintPromise WITH
  Tools <- Tool!Kinds,
  enabled <- Enabled, requested <- Requested,
  finished <- {reporters[i].option.tool : i \in DOMAIN reporters},
  bad <- BadPairs, outcome <- Outcome

\* Seen from outside, a run is one of LintPromise: no report before every enabled
\* tool gave its verdict, each report once, green or red only with all of them
\* delivered and red exactly when a child found a bad file, nothing after an error.
KeepsPromise == Promise!Spec

-------------------------------------------------------------------------------
(* What the code says of itself and does not do.                            *)

\* The assertion of client::get_issue_comment_id: it is asked for on events that
\* support comments only.
CommentsOnlyWhereSupported ==
  stage = "comment_id" /\ "issue_comment" \in Requested => SupportsComments

\* git::shutdown comes after all git operations: once it has been called no
\* handle is left to be freed.
ShutdownComesLast == stage \in {"return", "destroy"} => repo.live = {}

\* The number read off GITHUB_REF is that of the pull request.
NumberIsThePullRequests == pr_number \in {NoPrNumber, PrOfRun}
===============================================================================
