----------------------------- MODULE LintRunProofs -----------------------------
(****************************************************************************)
(* What a run guarantees for every command line, environment, machine and   *)
(* repository, and every sequence of answers of the child processes.        *)
(****************************************************************************)
EXTENDS LintRun, GitObjectsProofs, FiniteSetTheorems, SequenceTheorems

\* The loop of a tool, with what is proved of it.
Loop == INSTANCE LintToolProofs

\* The loop that LintRun steps is that of the proofs.
LEMMA SameNext == Tool!Next <=> Loop!Next
BY DEF Tool!Next, Tool!Start, Tool!SkipDeleted, Tool!RejectRegex, Tool!IgnoreFile, Tool!CheckFile,
       Tool!PassFile, Tool!FailFile, Tool!FailFast, Tool!ThrowFile, Tool!Finish, Tool!Visits,
       Tool!IsDeleted, Tool!IsFiltered, Tool!Executes, Tool!Passes, Tool!Fails, Tool!Throws,
       Tool!PassesFormat, Tool!PassesTidy, Tool!HasDiags, Tool!Failed, Tool!StopsEarly, Tool!FinalPassed,
       Tool!LoopEnds, Tool!Changed,
       Loop!Next, Loop!Start, Loop!SkipDeleted, Loop!RejectRegex, Loop!IgnoreFile, Loop!CheckFile,
       Loop!PassFile, Loop!FailFile, Loop!FailFast, Loop!ThrowFile, Loop!Finish, Loop!Visits,
       Loop!IsDeleted, Loop!IsFiltered, Loop!Executes, Loop!Passes, Loop!Fails, Loop!Throws,
       Loop!PassesFormat, Loop!PassesTidy, Loop!HasDiags, Loop!Failed, Loop!StopsEarly, Loop!FinalPassed,
       Loop!LoopEnds, Loop!Changed

LEMMA SameType == Tool!TypeOK <=> Loop!TypeOK
BY DEF Tool!TypeOK, Tool!Kinds, Tool!Options, Tool!Changed, Tool!Execs, Tool!ResultType,
       Loop!TypeOK, Loop!Kinds, Loop!Options, Loop!Changed, Loop!Execs, Loop!ResultType

LEMMA SameTypePrimed == (Tool!TypeOK <=> Loop!TypeOK)'
BY SameType, PTL

LEMMA SameFiles ==
  /\ Tool!GoodFiles = Loop!GoodFiles /\ Tool!BadFiles = Loop!BadFiles
  /\ Tool!DiagnosedFiles = Loop!DiagnosedFiles
BY DEF Tool!GoodFiles, Tool!BadFiles, Tool!DiagnosedFiles, Tool!Passes, Tool!Fails, Tool!Throws,
       Tool!PassesFormat, Tool!PassesTidy, Tool!HasDiags,
       Loop!GoodFiles, Loop!BadFiles, Loop!DiagnosedFiles, Loop!Passes, Loop!Fails, Loop!Throws,
       Loop!PassesFormat, Loop!PassesTidy, Loop!HasDiags

LEMMA SameFilesPrimed == (Tool!GoodFiles = Loop!GoodFiles /\ Tool!BadFiles = Loop!BadFiles)'
BY SameFiles, PTL

LEMMA LoopAssumption ==
  Loop!IsFiniteSet(Files) /\ Statuses \subseteq Loop!AllStatuses /\ Results \subseteq Loop!AllResults
BY LintRunAssumption DEF IsFiniteSet, Loop!IsFiniteSet, Tool!AllStatuses, Tool!AllResults,
                         Loop!AllStatuses, Loop!AllResults

LEMMA LoopInit == Loop!Init => Loop!IInv
BY Loop!InvInit, LoopAssumption

LEMMA LoopNext == Loop!IInv /\ [Loop!Next]_(Loop!vars) => Loop!IInv'
BY Loop!InvStep, LoopAssumption

LEMMA LoopInitPrimed == (Loop!Init => Loop!IInv)'
BY LoopInit, PTL

LEMMA LoopIdle == Loop!IInv /\ phase = "idle" => Loop!Init
BY Loop!IdleIsInitial, LoopAssumption

LEMMA LoopDone ==
  Loop!IInv /\ phase = "done" =>
    /\ result.fails = Tool!BadFiles /\ result.diagnosed = Tool!DiagnosedFiles
    /\ result.final_passed <=> Tool!BadFiles = {}
    /\ result.final_passed => Tool!Required \subseteq Tool!GoodFiles
<1>1. Tool!Required = Loop!Required
  BY DEF Tool!Required, Tool!Changed, Loop!Required, Loop!Changed
<1> QED BY <1>1, Loop!DoneMeans, LoopAssumption, SameFiles

LEMMA LoopLearns ==
  ASSUME Loop!IInv, Tool!Next
  PROVE  /\ UNCHANGED <<kind, option, deltas>>
         /\ \/ Tool!BadFiles' = Tool!BadFiles
            \/ \E f \in Files : Tool!BadFiles' = Tool!BadFiles \cup {f}
<1>1. Loop!Next
  BY SameNext
<1>2. Tool!BadFiles' = Loop!BadFiles' /\ Tool!BadFiles = Loop!BadFiles
  BY SameFiles, SameFilesPrimed
<1>3. /\ UNCHANGED <<kind, option, deltas>>
      /\ Loop!BadFiles' = Loop!BadFiles \/ \E f \in Files : Loop!BadFiles' = Loop!BadFiles \cup {f}
  BY <1>1, Loop!OneBadFileAtATime, LoopAssumption
<1> QED BY <1>2, <1>3

-------------------------------------------------------------------------------
(* The inductive invariant.  GreenMeansChecked speaks of the end of a run;   *)
(* what it rests on is followed from the diff to the loop, from the loop to  *)
(* the reporters, and from these to what is told and to the exit code.       *)

Aborted == exit_code = "abort"

ToolsOf(options) == {options[i].tool : i \in DOMAIN options}
Reported == {reporters[i].option.tool : i \in DOMAIN reporters}

Exits ==
  /\ exit_code = "none" <=> stage \notin {"destroy", "ended"}
  /\ Aborted => stage = "ended"
  /\ exit_code = "0" => AllPassed
  /\ cmd.info => stage \in {"parse", "ended"}

\* Every enabled tool is made, then waits in todo, and then has its reporter.
Ordered ==
  /\ stage \in {"parse", "create_format"} => todo = <<>>
  /\ stage = "create_tidy" => ToolsOf(todo) = Enabled \cap {"clang_format"}
  /\ stage \in Setup => reporters = <<>> /\ phase = "idle"
  /\ stage \notin {"parse", "create_format", "create_tidy"} /\ ~Aborted =>
       ToolsOf(todo) \cup Reported = Enabled
  /\ stage \notin Setup \cup {"tools"} /\ ~Aborted => todo = <<>>

\* No tool is run twice.
Once ==
  /\ \A i, j \in DOMAIN todo : todo[i].tool = todo[j].tool => i = j
  /\ \A i, j \in DOMAIN reporters :
       reporters[i].option.tool = reporters[j].option.tool => i = j
  /\ ToolsOf(todo) \cap Reported = {}

\* The loop is that of the next tool, with its options.
InHand ==
  todo # <<>> =>
    /\ kind = Head(todo).tool
    /\ option = LoopOption(Head(todo).enabled_fastly_exit, Head(todo).file_iregex)

\* The loops are given the files of the diff.
FilesKnown ==
  stage \in {"check_head", "tools"} =>
    /\ DOMAIN deltas = Differing(TargetTree, SourceTree)
    /\ \A path \in DOMAIN deltas : deltas[path] = "deleted" <=> path \notin DOMAIN SourceTree

\* A result_t says what the children of its tool answered.
Verdict(i) ==
  LET tool == reporters[i].option.tool  res == reporters[i].result IN
  /\ res.fails = judged[tool].bad
  /\ res.diagnosed = judged[tool].diagnosed /\ judged[tool].diagnosed \subseteq judged[tool].bad
  /\ res.final_passed <=> judged[tool].bad = {}
  /\ res.final_passed => Required(tool) \subseteq judged[tool].good

Verdicts ==
  /\ \A i \in DOMAIN reporters : Verdict(i)
  /\ \A k \in Tool!Kinds \ Reported : judged[k] = Unjudged
  /\ todo = <<>> => Tool!BadFiles \subseteq judged[kind].bad

Honest ==
  /\ \A m \in said.numbers : m.tool \in Reported /\ m.failed = Cardinality(judged[m.tool].bad)
  /\ \A line \in said.lines : line.tool \in Reported /\ line.file \in judged[line.tool].bad
  /\ \A report \in delivered : SaysAll(report)

\* The reports go out in the order of main().
Sent ==
  /\ stage \in Setup \cup {"tools", "action_output"} => delivered = {}
  /\ stage = "step_summary" => delivered = Requested \cap {"action_output"}
  /\ stage \in {"comment_id", "issue_comment"} =>
       delivered = Requested \cap {"action_output", "step_summary"}
  /\ stage = "issue_comment" => "issue_comment" \in Requested
  /\ stage = "review" => delivered = Requested \ {"review"}
  /\ stage \in {"shutdown", "return"} => delivered = Requested

Addressed ==
  /\ stage \in {"git_setup", "git_info", "check_head", "tools"} \cup Sending
  /\ NeedsPr
  => CanParse(env.ref) /\ pr_number = ParsePrNumber(env.ref)

Initialised ==
  /\ stage \in Setup \ {"git_info", "check_head"} => repo.inits = 0
  /\ stage \in {"git_info", "check_head", "tools", "shutdown"} \cup Sending => repo.inits = 1

IInv ==
  /\ TypeOK
  /\ Loop!IInv
  /\ Exits /\ Ordered /\ Once /\ InHand /\ FilesKnown
  /\ Verdicts /\ Honest /\ Sent /\ Addressed /\ Initialised

-------------------------------------------------------------------------------
(* What a run is given stays, and so does what is asked of it.              *)

LEMMA GivenStays ==
  ASSUME UNCHANGED inputVars
  PROVE  /\ Enabled' = Enabled /\ Requested' = Requested /\ OptionTs' = OptionTs
         /\ NeedsPr' = NeedsPr /\ TargetTree' = TargetTree /\ SourceTree' = SourceTree
         /\ \A k : OfTool(k)' = OfTool(k) /\ Required(k)' = Required(k)
<1> USE DEF inputVars
<1>1. General' = General /\ \A k : OfTool(k)' = OfTool(k)
  BY DEF General, OfTool
<1>2. Enabled' = Enabled /\ Requested' = Requested
  BY <1>1 DEF Enabled, Requested
<1>3. OptionTs' = OptionTs
  BY <1>1, <1>2 DEF OptionTs
<1>4. NeedsPr' = NeedsPr
  BY <1>2 DEF NeedsPr
<1>5. TargetTree' = TargetTree /\ SourceTree' = SourceTree
  BY <1>1 DEF TargetTree, SourceTree, Target
<1>6. \A k : Required(k)' = Required(k)
  BY <1>1, <1>5 DEF Required
<1> QED BY <1>1, <1>2, <1>3, <1>4, <1>5, <1>6

\* The tools and the reports asked for.
LEMMA AskedFor ==
  /\ Enabled \subseteq Tool!Kinds /\ Requested \subseteq Reports
  /\ cmd.info => Enabled = {} /\ Requested = {}
BY DEF Enabled, Requested

\* A loop in which nothing moves.
LEMMA LoopStays ==
  ASSUME Loop!IInv, UNCHANGED <<toolVars, deltas>>
  PROVE  Loop!IInv' /\ Tool!BadFiles' = Tool!BadFiles /\ Tool!TypeOK'
<1>1. UNCHANGED Loop!vars
  BY DEF Loop!vars, toolVars
<1>2. Loop!IInv'
  BY <1>1, LoopNext
<1>3. Tool!BadFiles' = Tool!BadFiles
  BY DEF toolVars, Tool!BadFiles, Tool!Fails, Tool!Passes, Tool!Throws, Tool!PassesFormat,
         Tool!PassesTidy
<1>4. Loop!TypeOK'
  BY <1>2 DEF Loop!IInv
<1>5. Tool!TypeOK'
  BY <1>4, SameTypePrimed
<1> QED BY <1>2, <1>3, <1>5

-------------------------------------------------------------------------------
(* Steps that leave the tools alone.                                        *)

LEMMA Passive ==
  ASSUME IInv, UNCHANGED <<inputVars, deltas>>, KeepsTools,
         stage' \in Stages, pr_number' \in Int,
         repo' \in [inits : 0 .. 1, live : SUBSET Handles],
         exit_code' \in {"none", "0", "1", "abort"},
         said' \in Texts,
         delivered' \subseteq Requested,
         Exits', Ordered', FilesKnown', Honest', Sent', Addressed', Initialised'
  PROVE  IInv'
<1> USE DEF IInv, KeepsTools
<1>1. Loop!IInv' /\ Tool!BadFiles' = Tool!BadFiles /\ Tool!TypeOK'
  BY LoopStays
<1>2. Reported' = Reported /\ ToolsOf(todo)' = ToolsOf(todo)
  BY DEF Reported, ToolsOf
<1>3. TypeOK'
  BY <1>1, GivenStays DEF TypeOK, inputVars
<1>4. Once' /\ InHand'
  BY <1>2 DEF Once, InHand, toolVars
<1>5. \A i \in DOMAIN reporters' : Verdict(i)'
  <2>1. \A k : Required(k)' = Required(k)
    BY GivenStays
  <2> QED BY <2>1 DEF Verdicts, Verdict
<1>6. Verdicts'
  BY <1>1, <1>2, <1>5 DEF Verdicts, toolVars
<1> QED BY <1>1, <1>3, <1>4, <1>6

LEMMA AbortStep ==
  ASSUME IInv, Abort, UNCHANGED <<inputVars, pr_number, repo, reportVars, deltas>>, KeepsTools
  PROVE  IInv'
<1> USE DEF Abort, reportVars, IInv
<1>1. Exits' /\ Sent' /\ Addressed' /\ Initialised' /\ FilesKnown'
  BY DEF Exits, Sent, Addressed, Initialised, FilesKnown, Aborted, Setup, Sending
<1>2. Ordered'
  BY DEF Ordered, Aborted, Setup
<1>3. Honest'
  <2>1. Reported' = Reported /\ judged' = judged /\ Enabled' = Enabled
    BY GivenStays DEF Reported, KeepsTools
  <2>2. \A report : SaysAll(report)' = SaysAll(report)
    BY <2>1 DEF SaysAll, Told, Named, Undiagnosed
  <2> QED BY <2>1, <2>2 DEF Honest
<1> QED BY <1>1, <1>2, <1>3, Passive, GivenStays DEF TypeOK, Stages

\* Nothing is told by a step that sends nothing.
LEMMA QuietStep ==
  ASSUME IInv, UNCHANGED <<inputVars, reporters, judged, said, delivered>>
  PROVE  Honest'
<1>1. Reported' = Reported /\ Enabled' = Enabled
  BY GivenStays DEF Reported
<1>2. \A report : SaysAll(report)' = SaysAll(report)
  BY <1>1 DEF SaysAll, Told, Named, Undiagnosed
<1> QED BY <1>1, <1>2 DEF IInv, Honest

LEMMA StartSteps ==
  ASSUME IInv, PrintInfo \/ ParseOptions \/ FillContext \/ FillEnv \/ GitSetup \/ CheckHead
  PROVE  IInv'
<1> USE DEF IInv, reportVars
<1>1. /\ UNCHANGED <<inputVars, deltas, said, delivered>> /\ KeepsTools
      /\ stage \in Setup /\ stage' \in Stages
  BY DEF PrintInfo, ParseOptions, FillContext, FillEnv, GitSetup, CheckHead, Setup, Stages
<1>2. Honest'
  BY <1>1, QuietStep DEF KeepsTools
<1>3. /\ Enabled' = Enabled /\ Requested' = Requested /\ NeedsPr' = NeedsPr
      /\ TargetTree' = TargetTree /\ SourceTree' = SourceTree
      /\ UNCHANGED <<cmd, env, todo, reporters, phase>>
      /\ Reported' = Reported /\ ToolsOf(todo)' = ToolsOf(todo)
  BY <1>1, GivenStays DEF KeepsTools, toolVars, inputVars, Reported, ToolsOf
<1>4. reporters = <<>> /\ phase = "idle" /\ delivered = {} /\ exit_code = "none"
  BY <1>1 DEF Ordered, Sent, Exits, Setup
<1>5. said' \in Texts
      /\ delivered' \subseteq Requested
  BY <1>1 DEF TypeOK
<1>6. CASE PrintInfo
  <2>1. /\ stage = "parse" /\ stage' = "ended" /\ exit_code' = "0" /\ cmd.info
        /\ UNCHANGED <<pr_number, repo>>
    BY <1>6 DEF PrintInfo
  <2>2. Enabled = {} /\ todo = <<>>
    BY <2>1, AskedFor DEF Ordered
  <2>3. Exits' /\ Sent' /\ Addressed' /\ Initialised' /\ FilesKnown'
    <3>1. AllPassed'
      BY <1>3, <1>4 DEF AllPassed
    <3> QED BY <2>1, <1>3, <3>1
        DEF Exits, Sent, Addressed, Initialised, FilesKnown, Aborted, Setup, Sending
  <2>4. Ordered'
    BY <1>3, <1>4, <2>1, <2>2 DEF Ordered, Aborted, Setup, Reported, ToolsOf
  <2> QED BY <1>1, <1>2, <1>5, <2>1, <2>3, <2>4, Passive DEF TypeOK
<1>7. CASE ParseOptions
  <2>1. /\ stage = "parse" /\ stage' = "create_format" /\ ~cmd.info
        /\ UNCHANGED <<pr_number, repo, exit_code>>
    BY <1>7 DEF ParseOptions
  <2>2. Exits' /\ Sent' /\ Addressed' /\ Initialised' /\ FilesKnown' /\ Ordered'
    BY <1>1, <1>3, <1>4, <2>1
    DEF Exits, Sent, Addressed, Initialised, FilesKnown, Ordered, Aborted, Setup, Sending
  <2> QED BY <1>1, <1>2, <1>5, <2>1, <2>2, Passive DEF TypeOK
<1>8. CASE FillContext
  <2>1. /\ stage = "fill_context" /\ stage' = "fill_env"
        /\ UNCHANGED <<pr_number, repo, exit_code>>
    BY <1>8 DEF FillContext
  <2>2. Exits' /\ Sent' /\ Addressed' /\ Initialised' /\ FilesKnown' /\ Ordered'
    BY <1>1, <1>3, <1>4, <2>1
    DEF Exits, Sent, Addressed, Initialised, FilesKnown, Ordered, Aborted, Setup, Sending
  <2> QED BY <1>1, <1>2, <1>5, <2>1, <2>2, Passive DEF TypeOK
<1>9. CASE FillEnv
  <2>1. /\ stage = "fill_env" /\ stage' = "git_setup"
        /\ UNCHANGED <<repo, exit_code>>
    BY <1>9 DEF FillEnv
  <2>2. /\ NeedsPr => CanParse(env.ref)
        /\ pr_number' = IF NeedsPr THEN ParsePrNumber(env.ref) ELSE pr_number
    BY <1>9 DEF FillEnv
  <2>3. \A ref : CanParse(ref) => ParsePrNumber(ref) \in Int
    <3>1. \A part \in DOMAIN Stoi : Stoi[part] \in Int
      BY DEF Stoi
    <3> QED BY <3>1 DEF CanParse, ParsePrNumber
  <2>4. pr_number' \in Int
    BY <2>2, <2>3 DEF TypeOK
  <2>5. Addressed'
    BY <1>3, <2>2 DEF Addressed, CanParse, ParsePrNumber
  <2>6. Exits' /\ Sent' /\ Initialised' /\ FilesKnown' /\ Ordered'
    BY <1>1, <1>3, <1>4, <2>1
    DEF Exits, Sent, Initialised, FilesKnown, Ordered, Aborted, Setup, Sending
  <2> QED BY <1>1, <1>2, <1>5, <2>1, <2>4, <2>5, <2>6, Passive DEF TypeOK
<1>10. CASE GitSetup
  <2>1. /\ stage = "git_setup" /\ stage' = "git_info"
        /\ repo' = [repo EXCEPT !.inits = @ + 1]
        /\ UNCHANGED <<pr_number, exit_code>>
    BY <1>10 DEF GitSetup
  <2>2. repo.inits = 0 /\ repo \in [inits : 0 .. 1, live : SUBSET Handles]
    BY <2>1 DEF Initialised, Setup, TypeOK
  <2>3. repo' \in [inits : 0 .. 1, live : SUBSET Handles] /\ repo'.inits = 1
    BY <2>1, <2>2
  <2>4. Addressed' /\ Initialised'
    BY <1>3, <2>1, <2>3 DEF Addressed, Initialised, Setup, Sending
  <2>5. Exits' /\ Sent' /\ FilesKnown' /\ Ordered'
    BY <1>1, <1>3, <1>4, <2>1
    DEF Exits, Sent, FilesKnown, Ordered, Aborted, Setup, Sending
  <2> QED BY <1>1, <1>2, <1>5, <2>1, <2>3, <2>4, <2>5, Passive DEF TypeOK
<1>11. CASE CheckHead
  <2>1. /\ stage = "check_head" /\ stage' = "tools"
        /\ UNCHANGED <<pr_number, repo, exit_code>>
    BY <1>11 DEF CheckHead
  <2>2. FilesKnown'
    BY <1>1, <1>3, <2>1 DEF FilesKnown
  <2>3. Exits' /\ Sent' /\ Addressed' /\ Initialised' /\ Ordered'
    BY <1>1, <1>3, <1>4, <2>1
    DEF Exits, Sent, Addressed, Initialised, Ordered, Aborted, Setup, Sending
  <2> QED BY <1>1, <1>2, <1>5, <2>1, <2>2, <2>3, Passive DEF TypeOK
<1> QED BY <1>6, <1>7, <1>8, <1>9, <1>10, <1>11

-------------------------------------------------------------------------------
(* Making the tools and taking them up.                                     *)

\* The options of a tool, given or by default.
LEMMA ParsedIs ==
  ASSUME NEW given, NEW defaults, NEW name
  PROVE  /\ name \in DOMAIN given => Parse(given, defaults)[name] = given[name]
         /\ name \in DOMAIN defaults /\ name \notin DOMAIN given =>
              Parse(given, defaults)[name] = defaults[name]
BY DEF Parse

LEMMA ParsedDomain ==
  ASSUME NEW given, NEW defaults
  PROVE  DOMAIN Parse(given, defaults) = DOMAIN given \cup DOMAIN defaults
BY DEF Parse

LEMMA OfToolTyped ==
  ASSUME TypeOK, NEW k \in Tool!Kinds
  PROVE  /\ OfTool(k).enable_fastly_exit \in BOOLEAN
         /\ OfTool(k).file_iregex \in DOMAIN Iregexes
<1>1. /\ \A flag \in {"enable", "enable_fastly_exit"} \cap DOMAIN cmd.tools[k] :
           cmd.tools[k][flag] \in BOOLEAN
      /\ "file_iregex" \in DOMAIN cmd.tools[k] => cmd.tools[k].file_iregex \in DOMAIN Iregexes
  BY DEF TypeOK, IsInput, IsCommandLine
<1>2. /\ {"enable", "enable_fastly_exit", "file_iregex"} = DOMAIN ToolDefaults
      /\ ToolDefaults["enable_fastly_exit"] \in BOOLEAN
      /\ ToolDefaults["file_iregex"] \in DOMAIN Iregexes
  BY LintRunAssumption DEF ToolDefaults
<1>3. OfTool(k)["enable_fastly_exit"] \in BOOLEAN
  BY <1>1, <1>2, ParsedIs DEF OfTool
<1>4. OfTool(k)["file_iregex"] \in DOMAIN Iregexes
  BY <1>1, <1>2, ParsedIs DEF OfTool
<1> QED BY <1>3, <1>4

\* What a creator makes is for its tool, with the options of that tool.
LEMMA MadeIs ==
  ASSUME TypeOK, NEW made \in OptionTs
  PROVE  /\ made.tool \in Enabled
         /\ made \in CreateOption(made.tool, OfTool(made.tool), host)
         /\ made.enabled_fastly_exit = OfTool(made.tool).enable_fastly_exit
         /\ made.file_iregex = OfTool(made.tool).file_iregex
         /\ LoopOption(made.enabled_fastly_exit, made.file_iregex) \in Tool!Options
<1>1. PICK k \in Enabled : made \in CreateOption(k, OfTool(k), host)
  BY DEF OptionTs
<1>2. /\ made.tool = k
      /\ made.enabled_fastly_exit = OfTool(k).enable_fastly_exit
      /\ made.file_iregex = OfTool(k).file_iregex
  BY <1>1 DEF CreateOption
<1>3. k \in Tool!Kinds
  BY <1>1, AskedFor
<1>4. LoopOption(made.enabled_fastly_exit, made.file_iregex) \in Tool!Options
  BY <1>2, <1>3, OfToolTyped, LintRunAssumption DEF LoopOption, Tool!Options
<1> QED BY <1>1, <1>2, <1>4

\* The set of the tools of a list, when an option is appended, and head and tail.
LEMMA ToolsOfAppend ==
  ASSUME NEW S, NEW options \in Seq(S), NEW o \in S
  PROVE  /\ ToolsOf(Append(options, o)) = ToolsOf(options) \cup {o.tool}
         /\ Append(options, o) \in Seq(S) /\ Append(options, o) # <<>>
<1>1. /\ DOMAIN options = 1 .. Len(options) /\ Len(options) \in Nat
      /\ Append(options, o) \in Seq(S) /\ Len(Append(options, o)) = Len(options) + 1
      /\ DOMAIN Append(options, o) = 1 .. Len(options) + 1
      /\ \A i \in 1 .. Len(options) : Append(options, o)[i] = options[i]
      /\ Append(options, o)[Len(options) + 1] = o
  BY AppendProperties, LenProperties
<1>2. DOMAIN Append(options, o) = DOMAIN options \cup {Len(options) + 1}
  BY <1>1
<1> QED BY <1>1, <1>2 DEF ToolsOf

LEMMA HeadTail ==
  ASSUME NEW S, NEW options \in Seq(S), options # <<>>
  PROVE  /\ Head(options) \in S /\ Head(options) = options[1] /\ 1 \in DOMAIN options
         /\ Tail(options) \in Seq(S)
         /\ DOMAIN options = 1 .. Len(options) /\ Len(options) \in Nat \ {0}
         /\ DOMAIN Tail(options) = 1 .. Len(options) - 1
         /\ \A i \in DOMAIN Tail(options) : Tail(options)[i] = options[i + 1]
         /\ ToolsOf(options) = {Head(options).tool} \cup ToolsOf(Tail(options))
<1>1. /\ Head(options) \in S /\ Head(options) = options[1]
      /\ Tail(options) \in Seq(S) /\ Len(options) \in Nat \ {0}
      /\ DOMAIN options = 1 .. Len(options)
      /\ Len(Tail(options)) = Len(options) - 1
      /\ \A i \in 1 .. Len(Tail(options)) : Tail(options)[i] = options[i + 1]
  BY HeadTailProperties, LenProperties, EmptySeq
<1>2. DOMAIN Tail(options) = 1 .. Len(options) - 1
  BY <1>1, LenProperties
<1>3. ToolsOf(options) = {Head(options).tool} \cup ToolsOf(Tail(options))
  <2>1. ASSUME NEW i \in DOMAIN options
        PROVE  options[i].tool \in {Head(options).tool} \cup ToolsOf(Tail(options))
    <3>1. CASE i = 1
      BY <1>1, <3>1
    <3>2. CASE i # 1
      <4>1. i - 1 \in DOMAIN Tail(options) /\ Tail(options)[i - 1] = options[i]
        BY <1>1, <1>2, <3>2
      <4> QED BY <4>1 DEF ToolsOf
    <3> QED BY <3>1, <3>2
  <2>2. ASSUME NEW i \in DOMAIN Tail(options)
        PROVE  Tail(options)[i].tool \in ToolsOf(options)
    <3>1. i + 1 \in DOMAIN options /\ Tail(options)[i] = options[i + 1]
      BY <1>1, <1>2
    <3> QED BY <3>1 DEF ToolsOf
  <2>3. Head(options).tool \in ToolsOf(options)
    BY <1>1 DEF ToolsOf
  <2> QED BY <2>1, <2>2, <2>3 DEF ToolsOf
<1> QED BY <1>1, <1>2, <1>3

\* A loop set up anew knows of no file.
LEMMA FreshLoop ==
  ASSUME kind' \in Tool!Kinds, option' \in Tool!Options,
         NEW changed \in SUBSET Files, deltas' \in [changed -> Statuses],
         unvisited' = {}, execs' = <<>>, result' = Tool!EmptyResult, phase' = "idle"
  PROVE  Loop!IInv' /\ Tool!TypeOK' /\ Tool!BadFiles' = {}
<1>1. Loop!Init'
  BY DEF Loop!Init, Loop!Kinds, Loop!Options, Loop!EmptyResult,
         Tool!Kinds, Tool!Options, Tool!EmptyResult
<1>2. Loop!IInv'
  BY <1>1, LoopInitPrimed
<1>3. Loop!TypeOK'
  BY <1>2 DEF Loop!IInv
<1>4. Tool!TypeOK'
  BY <1>3, SameTypePrimed
<1>5. DOMAIN execs' = {}
  OBVIOUS
<1>6. Tool!BadFiles' = {}
  BY <1>5 DEF Tool!BadFiles
<1> QED BY <1>2, <1>4, <1>6

\* The next tool is taken up with its options, or nothing moves.
LEMMA TakesUp ==
  ASSUME IInv, UNCHANGED <<inputVars, deltas>>, todo' \in Seq(OptionTs), TakeUp(todo')
  PROVE  /\ Loop!IInv' /\ Tool!TypeOK' /\ InHand'
         /\ IF todo' = <<>> THEN UNCHANGED toolVars /\ Tool!BadFiles' = Tool!BadFiles
                            ELSE Tool!BadFiles' = {} /\ phase' = "idle"
<1>1. CASE todo' = <<>>
  <2>1. UNCHANGED toolVars
    BY <1>1 DEF TakeUp
  <2> QED BY <1>1, <2>1, LoopStays DEF IInv, InHand
<1>2. CASE todo' # <<>>
  <2>1. /\ kind' = Head(todo').tool
        /\ option' = LoopOption(Head(todo').enabled_fastly_exit, Head(todo').file_iregex)
        /\ unvisited' = {} /\ execs' = <<>> /\ result' = Tool!EmptyResult /\ phase' = "idle"
    BY <1>2 DEF TakeUp
  <2>2. Head(todo') \in OptionTs
    BY <1>2, HeadTail
  <2>3. kind' \in Tool!Kinds /\ option' \in Tool!Options
    BY <2>1, <2>2, MadeIs, AskedFor DEF IInv
  <2>4. DOMAIN deltas \in SUBSET Files /\ deltas' \in [DOMAIN deltas -> Statuses]
    BY DEF IInv, TypeOK, Tool!TypeOK, Tool!Changed
  <2>5. Loop!IInv' /\ Tool!TypeOK' /\ Tool!BadFiles' = {}
    BY <2>1, <2>3, <2>4, FreshLoop
  <2>6. InHand'
    BY <2>1 DEF InHand, LoopOption
  <2> QED BY <1>2, <2>1, <2>5, <2>6
<1> QED BY <1>1, <1>2

\* A creator appends its tool when it is enabled.
LEMMA CreatesStep ==
  ASSUME IInv, NEW k \in Tool!Kinds, NEW next \in {"create_tidy", "fill_context"},
         stage \in {"create_format", "create_tidy"}, k \notin ToolsOf(todo),
         Creates(k, next),
         next = "create_tidy" => k = "clang_format" /\ todo = <<>>,
         next = "fill_context" => Enabled \ ToolsOf(todo) \subseteq {k}
  PROVE  IInv'
<1> USE DEF IInv
<1>1. /\ UNCHANGED <<inputVars, pr_number, repo, reporters, said, delivered, exit_code,
                     judged, deltas>>
      /\ stage' = next /\ TakeUp(todo')
  BY DEF Creates, reportVars
<1>2. todo \in Seq(OptionTs) /\ reporters = <<>> /\ phase = "idle" /\ exit_code = "none" /\ ~cmd.info
      /\ delivered = {} /\ repo.inits = 0
  BY DEF TypeOK, Ordered, Exits, Sent, Initialised, Setup
<1>3. /\ todo' \in Seq(OptionTs)
      /\ ToolsOf(todo') = ToolsOf(todo) \cup (Enabled \cap {k})
      /\ \A i, j \in DOMAIN todo' : todo'[i].tool = todo'[j].tool => i = j
  <2>1. CASE k \in Enabled
    <3>1. PICK o \in CreateOption(k, OfTool(k), host) : todo' = Append(todo, o)
      BY <2>1 DEF Creates
    <3>2. o \in OptionTs /\ o.tool = k
      BY <2>1, <3>1 DEF OptionTs, CreateOption
    <3>3. todo' \in Seq(OptionTs) /\ ToolsOf(todo') = ToolsOf(todo) \cup {k}
      BY <1>2, <3>1, <3>2, ToolsOfAppend
    <3>4. /\ DOMAIN todo = 1 .. Len(todo) /\ Len(todo) \in Nat
          /\ DOMAIN todo' = 1 .. Len(todo) + 1
          /\ \A i \in 1 .. Len(todo) : todo'[i] = todo[i]
          /\ todo'[Len(todo) + 1] = o
      BY <1>2, <3>1, <3>2, AppendProperties, LenProperties
    <3>5. \A i \in DOMAIN todo : todo[i].tool # k
      BY DEF ToolsOf
    <3>6. \A i, j \in DOMAIN todo' : todo'[i].tool = todo'[j].tool => i = j
      BY <3>2, <3>4, <3>5 DEF Once
    <3> QED BY <2>1, <3>3, <3>6
  <2>2. CASE k \notin Enabled
    <3>1. todo' = todo
      BY <2>2 DEF Creates
    <3> QED BY <1>2, <2>2, <3>1 DEF Once
  <2> QED BY <2>1, <2>2
<1>4. /\ Loop!IInv' /\ Tool!TypeOK' /\ InHand' /\ phase' = "idle"
      /\ todo' = <<>> => kind' = kind /\ Tool!BadFiles' = Tool!BadFiles
  BY <1>1, <1>2, <1>3, TakesUp DEF toolVars
<1>5. /\ Enabled' = Enabled /\ Requested' = Requested /\ OptionTs' = OptionTs
      /\ Reported' = {} /\ Reported = {}
  BY <1>1, <1>2, GivenStays DEF Reported
<1>6. TypeOK'
  BY <1>1, <1>3, <1>4, <1>5 DEF TypeOK, Stages, Setup, inputVars
<1>7. Exits' /\ Sent' /\ Initialised' /\ FilesKnown' /\ Addressed'
  BY <1>1, <1>2 DEF Exits, Sent, Initialised, FilesKnown, Addressed, Aborted, Setup, Sending,
                    inputVars
<1>8. Ordered'
  <2>1. ToolsOf(todo)' = ToolsOf(todo) \cup (Enabled \cap {k})
    BY <1>3 DEF ToolsOf
  <2>2. ToolsOf(todo) \subseteq Enabled
    BY <1>2, MadeIs DEF ToolsOf
  <2>3. stage' = "create_tidy" => ToolsOf(todo)' = Enabled \cap {"clang_format"}
    BY <1>1, <2>1 DEF ToolsOf
  <2>4. stage' = "fill_context" => ToolsOf(todo)' = Enabled
    BY <1>1, <2>1, <2>2
  <2>5. reporters' = <<>>
    BY <1>1, <1>2
  <2> QED BY <1>1, <1>4, <1>5, <2>3, <2>4, <2>5 DEF Ordered, Setup
<1>9. Once'
  BY <1>1, <1>2, <1>3, <1>5 DEF Once, ToolsOf
<1>10. Verdicts'
  <2>1. \A l \in Tool!Kinds : judged[l] = Unjudged
    BY <1>5 DEF Verdicts
  <2>2. todo' = <<>> => todo = <<>>
    BY <1>2, <1>3, ToolsOfAppend DEF Creates
  <2> QED BY <1>1, <1>2, <1>4, <1>5, <2>1, <2>2 DEF Verdicts
<1>11. Honest'
  BY <1>1, QuietStep
<1> QED BY <1>4, <1>6, <1>7, <1>8, <1>9, <1>10, <1>11

LEMMA CreateSteps ==
  ASSUME IInv, CreateFormat \/ CreateTidy
  PROVE  IInv'
<1> USE DEF IInv
<1>1. CASE \E k : CreatorThrows(k)
  BY <1>1, AbortStep DEF CreatorThrows
<1>2. CASE stage = "create_format" /\ Creates("clang_format", "create_tidy")
  <2>1. todo = <<>> /\ ToolsOf(todo) = {} /\ "clang_format" \in Tool!Kinds
    BY <1>2 DEF Ordered, ToolsOf, Tool!Kinds
  <2> QED BY <1>2, <2>1, CreatesStep
<1>3. CASE stage = "create_tidy" /\ Creates("clang_tidy", "fill_context")
  <2>1. ToolsOf(todo) = Enabled \cap {"clang_format"}
    BY <1>3 DEF Ordered
  <2>2. Enabled \ ToolsOf(todo) \subseteq {"clang_tidy"} /\ "clang_tidy" \in Tool!Kinds
    BY <2>1, AskedFor DEF Tool!Kinds
  <2>3. "clang_tidy" \notin ToolsOf(todo)
    BY <2>1
  <2> QED BY <1>3, <2>2, <2>3, CreatesStep
<1> QED BY <1>1, <1>2, <1>3 DEF CreateFormat, CreateTidy

\* A stage that ends with an exception or an assertion.
LEMMA AbortSteps ==
  ASSUME IInv, NoSuchLevel \/ NoTarget \/ NotSet \/ RefIsNoPr \/ GitRefuses \/ SetupFails
                 \/ ToolThrows \/ AssertSupportsComments \/ SendFails
  PROVE  IInv'
BY AbortStep DEF NoSuchLevel, NoTarget, NotSet, RefIsNoPr, GitRefuses, SetupFails, ToolThrows,
                 AssertSupportsComments, SendFails

\* The files of the diff are handed to the loops.
LEMMA FillGitInfoStep ==
  ASSUME IInv, FillGitInfo
  PROVE  IInv'
<1> USE DEF IInv
<1>1. /\ stage = "git_info" /\ stage' = "check_head" /\ HaveCommits
      /\ repo' = [repo EXCEPT !.live = Handles]
      /\ UNCHANGED <<inputVars, pr_number, said, delivered, exit_code, todo, reporters, judged,
                     kind, option, unvisited, execs, result, phase>>
  BY DEF FillGitInfo, KeepsTools, reportVars, toolVars
<1> DEFINE diff == CommitToCommit(git, Commit(git, Target), Commit(git, env.sha))
<1>2. deltas' = [path \in ChangedFiles(Patches(diff)) |-> Deltas(diff)[path]]
  BY DEF FillGitInfo
<1>3. phase = "idle" /\ reporters = <<>> /\ delivered = {} /\ exit_code = "none" /\ ~cmd.info
  BY <1>1 DEF Ordered, Sent, Exits, Setup
<1>4. \A id \in DOMAIN git.commits : DOMAIN git.commits[id].tree \subseteq Files
  BY DEF TypeOK, IsInput
<1>5. /\ Commit(git, Target) \in DOMAIN git.commits
      /\ Commit(git, env.sha) \in DOMAIN git.commits
  BY <1>1, CommitType DEF HaveCommits, TypeOK, IsInput
<1>6. DOMAIN TargetTree \subseteq Files /\ DOMAIN SourceTree \subseteq Files
  BY <1>4, <1>5 DEF TargetTree, SourceTree
<1>7. diff = TreeToTree(TargetTree, SourceTree)
  BY DEF CommitToCommit, TargetTree, SourceTree
<1>8. /\ ChangedFiles(Patches(diff)) = Differing(TargetTree, SourceTree)
      /\ \A path \in Differing(TargetTree, SourceTree) :
           /\ Deltas(diff)[path] \in {"added", "modified", "deleted"}
           /\ Deltas(diff)[path] = "deleted" <=> path \notin DOMAIN SourceTree
  <2> HIDE DEF diff
  <2> QED BY <1>7, DiffTellsTheTrees DEF ChangedFiles
<1>9. /\ DOMAIN deltas' = Differing(TargetTree, SourceTree)
      /\ \A path \in DOMAIN deltas' : deltas'[path] = Deltas(diff)[path]
  BY <1>2, <1>8
<1>10. Differing(TargetTree, SourceTree) \in SUBSET Files
  BY <1>6 DEF Differing
<1>11. {"added", "modified", "deleted"} \subseteq Statuses
  BY LintRunAssumption DEF Tool!AllStatuses
<1>12. deltas' \in [Differing(TargetTree, SourceTree) -> Statuses]
  <2> HIDE DEF diff
  <2> QED BY <1>2, <1>8, <1>11
<1>13. /\ kind \in Tool!Kinds /\ option \in Tool!Options
       /\ unvisited = {} /\ execs = <<>> /\ result = Tool!EmptyResult
  <2>1. Loop!Init
    BY <1>3, LoopIdle
  <2> QED BY <2>1 DEF Loop!Init, Loop!Kinds, Loop!Options, Loop!EmptyResult,
                      Tool!Kinds, Tool!Options, Tool!EmptyResult
<1>14. Loop!IInv' /\ Tool!TypeOK' /\ Tool!BadFiles' = {}
  BY <1>1, <1>3, <1>10, <1>12, <1>13, FreshLoop
<1>15. /\ Enabled' = Enabled /\ Requested' = Requested /\ OptionTs' = OptionTs
       /\ NeedsPr' = NeedsPr /\ TargetTree' = TargetTree /\ SourceTree' = SourceTree
       /\ Reported' = Reported /\ ToolsOf(todo)' = ToolsOf(todo)
  BY <1>1, GivenStays DEF Reported, ToolsOf
<1>16. repo' \in [inits : 0 .. 1, live : SUBSET Handles] /\ repo'.inits = repo.inits
  BY <1>1 DEF TypeOK
<1>17. TypeOK'
  BY <1>1, <1>14, <1>15, <1>16 DEF TypeOK, Stages, Setup, inputVars
<1>18. FilesKnown'
  <2> HIDE DEF diff
  <2> QED BY <1>8, <1>9, <1>15 DEF FilesKnown
<1>19. Exits' /\ Ordered' /\ Once' /\ InHand'
  BY <1>1, <1>3, <1>15 DEF Exits, Ordered, Once, InHand, Aborted, Setup, inputVars, LoopOption
<1>20. Sent' /\ Addressed' /\ Initialised'
  BY <1>1, <1>3, <1>15, <1>16 DEF Sent, Addressed, Initialised, Setup, Sending, inputVars,
                                  CanParse, ParsePrNumber
<1>21. Verdicts'
  BY <1>1, <1>3, <1>14, <1>15 DEF Verdicts, Verdict
<1>22. Honest'
  BY <1>1, QuietStep
<1> QED BY <1>14, <1>17, <1>18, <1>19, <1>20, <1>21, <1>22

-------------------------------------------------------------------------------
(* run_tools.                                                               *)

LEMMA FilesOfLoop ==
  /\ Tool!GoodFiles \subseteq Files /\ Tool!BadFiles \subseteq Files
  /\ Tool!DiagnosedFiles \subseteq Tool!BadFiles
BY DEF Tool!GoodFiles, Tool!BadFiles, Tool!DiagnosedFiles

LEMMA StepToolStep ==
  ASSUME IInv, StepTool
  PROVE  IInv'
<1> USE DEF IInv
<1>1. /\ stage = "tools" /\ todo # <<>> /\ Tool!Next
      /\ UNCHANGED <<inputVars, stage, pr_number, repo, todo, reporters, said, delivered,
                     exit_code, judged>>
  BY DEF StepTool, reportVars
<1>2. UNCHANGED <<kind, option, deltas>>
  BY <1>1, LoopLearns
<1>3. Loop!IInv'
  BY <1>1, LoopNext, SameNext
<1>4. Tool!TypeOK'
  <2>1. Loop!TypeOK'
    BY <1>3 DEF Loop!IInv
  <2> QED BY <2>1, SameTypePrimed
<1>5. /\ Enabled' = Enabled /\ Requested' = Requested /\ OptionTs' = OptionTs
      /\ NeedsPr' = NeedsPr /\ TargetTree' = TargetTree /\ SourceTree' = SourceTree
      /\ Reported' = Reported /\ ToolsOf(todo)' = ToolsOf(todo)
      /\ \A k : Required(k)' = Required(k)
  BY <1>1, GivenStays DEF Reported, ToolsOf
<1>6. TypeOK'
  BY <1>1, <1>4, <1>5 DEF TypeOK, inputVars
<1>7. Exits' /\ Ordered' /\ Once' /\ InHand' /\ FilesKnown'
  BY <1>1, <1>2, <1>5 DEF Exits, Ordered, Once, InHand, FilesKnown, Aborted, Setup, inputVars,
                          LoopOption
<1>8. Sent' /\ Addressed' /\ Initialised'
  BY <1>1, <1>5 DEF Sent, Addressed, Initialised, Setup, Sending, inputVars, CanParse,
                    ParsePrNumber
<1>9. Verdicts'
  BY <1>1, <1>5 DEF Verdicts, Verdict
<1>10. Honest'
  BY <1>1, QuietStep
<1> QED BY <1>3, <1>6, <1>7, <1>8, <1>9, <1>10

\* A loop that is done hands over what its children answered.
LEMMA HandsOver ==
  ASSUME IInv, stage = "tools", todo # <<>>, phase = "done"
  PROVE  /\ kind = Head(todo).tool
         /\ result.fails = Tool!BadFiles /\ result.diagnosed = Tool!DiagnosedFiles
         /\ result.final_passed <=> Tool!BadFiles = {}
         /\ result.final_passed => Required(kind) \subseteq Tool!GoodFiles
<1> USE DEF IInv
<1>1. /\ result.fails = Tool!BadFiles /\ result.diagnosed = Tool!DiagnosedFiles
      /\ result.final_passed <=> Tool!BadFiles = {}
      /\ result.final_passed => Tool!Required \subseteq Tool!GoodFiles
  BY LoopDone
<1>2. /\ kind = Head(todo).tool
      /\ option = LoopOption(Head(todo).enabled_fastly_exit, Head(todo).file_iregex)
  BY DEF InHand
<1>3. Head(todo).file_iregex = OfTool(kind).file_iregex
  BY <1>2, HeadTail, MadeIs DEF TypeOK
<1>4. option.selected = Iregexes[OfTool(kind).file_iregex].selected
  BY <1>2, <1>3 DEF LoopOption
<1>5. Required(kind) \subseteq Tool!Required
  BY <1>4 DEF Required, Tool!Required, Tool!Changed, FilesKnown
<1> QED BY <1>1, <1>2, <1>5

LEMMA EndToolStep ==
  ASSUME IInv, EndTool
  PROVE  IInv'
<1> USE DEF IInv
<1> DEFINE done == [option |-> Head(todo), result |-> result]
<1>1. /\ stage = "tools" /\ todo # <<>> /\ phase = "done"
      /\ reporters' = Append(reporters, done)
      /\ judged' = [judged EXCEPT ![kind] = [good |-> Tool!GoodFiles, bad |-> Tool!BadFiles,
                                              diagnosed |-> Tool!DiagnosedFiles]]
      /\ todo' = Tail(todo) /\ TakeUp(todo')
      /\ UNCHANGED <<inputVars, stage, pr_number, repo, said, delivered, exit_code, deltas>>
  BY DEF EndTool, reportVars
<1>2. /\ kind = Head(todo).tool
      /\ result.fails = Tool!BadFiles /\ result.diagnosed = Tool!DiagnosedFiles
      /\ result.final_passed <=> Tool!BadFiles = {}
      /\ result.final_passed => Required(kind) \subseteq Tool!GoodFiles
  BY <1>1, HandsOver
<1>3. /\ kind \in Tool!Kinds /\ result \in Tool!ResultType
      /\ Tool!GoodFiles \subseteq Files /\ Tool!BadFiles \subseteq Files
      /\ Tool!DiagnosedFiles \subseteq Tool!BadFiles
      /\ judged \in [Tool!Kinds -> [good : SUBSET Files, bad : SUBSET Files, diagnosed : SUBSET Files]]
  BY FilesOfLoop DEF TypeOK, Tool!TypeOK
<1>4. /\ judged' \in [Tool!Kinds -> [good : SUBSET Files, bad : SUBSET Files, diagnosed : SUBSET Files]]
      /\ judged'[kind].good = Tool!GoodFiles /\ judged'[kind].bad = Tool!BadFiles
      /\ judged'[kind].diagnosed = Tool!DiagnosedFiles
      /\ \A k \in Tool!Kinds \ {kind} : judged'[k] = judged[k]
  BY <1>1, <1>3
<1>5. /\ todo \in Seq(OptionTs) /\ Head(todo) \in OptionTs /\ todo' \in Seq(OptionTs)
      /\ DOMAIN todo' = 1 .. Len(todo) - 1 /\ DOMAIN todo = 1 .. Len(todo) /\ Len(todo) \in Nat
      /\ \A i \in DOMAIN todo' : todo'[i] = todo[i + 1]
      /\ todo[1] = Head(todo) /\ 1 \in DOMAIN todo
      /\ ToolsOf(todo) = {kind} \cup ToolsOf(todo')
  BY <1>1, <1>2, HeadTail DEF TypeOK
<1>6. done \in [option : OptionTs, result : Tool!ResultType]
  BY <1>3, <1>5
<1>7. /\ reporters' \in Seq([option : OptionTs, result : Tool!ResultType])
      /\ DOMAIN reporters = 1 .. Len(reporters) /\ Len(reporters) \in Nat
      /\ DOMAIN reporters' = 1 .. Len(reporters) + 1
      /\ \A i \in DOMAIN reporters : reporters'[i] = reporters[i]
      /\ reporters'[Len(reporters) + 1] = done
  <2> HIDE DEF done
  <2> QED BY <1>1, <1>6, AppendProperties, LenProperties DEF TypeOK
<1>8. kind \notin Reported /\ kind \notin ToolsOf(todo')
  <2>1. kind \notin Reported
    BY <1>5 DEF Once
  <2>2. ASSUME NEW i \in DOMAIN todo'
        PROVE  todo'[i].tool # kind
    <3>1. i + 1 \in DOMAIN todo /\ i + 1 # 1 /\ todo'[i] = todo[i + 1]
      BY <1>5
    <3> QED BY <1>2, <1>5, <3>1 DEF Once
  <2> QED BY <2>1, <2>2 DEF ToolsOf
<1>9. Reported' = Reported \cup {kind}
  <2> HIDE DEF done
  <2>1. done.option.tool = kind
    BY <1>2 DEF done
  <2>2. DOMAIN reporters' = DOMAIN reporters \cup {Len(reporters) + 1}
    BY <1>7
  <2> QED BY <1>7, <2>1, <2>2 DEF Reported
<1>10. /\ Enabled' = Enabled /\ Requested' = Requested /\ OptionTs' = OptionTs
       /\ NeedsPr' = NeedsPr /\ TargetTree' = TargetTree /\ SourceTree' = SourceTree
       /\ \A k : Required(k)' = Required(k)
  BY <1>1, GivenStays
<1>11. /\ Loop!IInv' /\ Tool!TypeOK' /\ InHand'
       /\ todo' = <<>> => kind' = kind /\ Tool!BadFiles' = Tool!BadFiles
  BY <1>1, <1>5, TakesUp DEF toolVars
<1>12. TypeOK'
  BY <1>1, <1>4, <1>5, <1>7, <1>10, <1>11 DEF TypeOK, inputVars
<1>13. Ordered'
  <2>1. ToolsOf(todo)' \cup Reported' = ToolsOf(todo) \cup Reported
    BY <1>5, <1>9 DEF ToolsOf
  <2> QED BY <1>1, <1>10, <2>1 DEF Ordered, Aborted, Setup
<1>14. Once'
  <2>1. \A i, j \in DOMAIN todo' : todo'[i].tool = todo'[j].tool => i = j
    <3>1. SUFFICES ASSUME NEW i \in DOMAIN todo', NEW j \in DOMAIN todo',
                          todo'[i].tool = todo'[j].tool
                   PROVE  i = j
      OBVIOUS
    <3>2. i + 1 \in DOMAIN todo /\ j + 1 \in DOMAIN todo
      BY <1>5
    <3>3. i + 1 = j + 1
      BY <1>5, <3>1, <3>2 DEF Once
    <3> QED BY <1>5, <3>3
  <2>2. \A i, j \in DOMAIN reporters' :
          reporters'[i].option.tool = reporters'[j].option.tool => i = j
    <3>1. \A i \in DOMAIN reporters : reporters'[i].option.tool # kind
      BY <1>7, <1>8 DEF Reported
    <3>2. reporters'[Len(reporters) + 1].option.tool = kind
      BY <1>2, <1>7
    <3>3. \A i \in DOMAIN reporters' : i \in DOMAIN reporters \/ i = Len(reporters) + 1
      BY <1>7
    <3> HIDE DEF done
    <3> QED BY <1>7, <3>1, <3>2, <3>3 DEF Once
  <2>3. ToolsOf(todo)' \cap Reported' = {}
    BY <1>5, <1>8, <1>9 DEF Once, ToolsOf
  <2> QED BY <2>1, <2>2, <2>3 DEF Once
<1>15. Exits' /\ FilesKnown' /\ Sent' /\ Addressed' /\ Initialised'
  BY <1>1, <1>10 DEF Exits, FilesKnown, Sent, Addressed, Initialised, Aborted, Setup, Sending,
                     inputVars, CanParse, ParsePrNumber
<1>16. Verdicts'
  <2>1. ASSUME NEW i \in DOMAIN reporters
        PROVE  Verdict(i)'
    <3>1. reporters'[i] = reporters[i] /\ reporters[i].option.tool \in Reported
      BY <1>7 DEF Reported
    <3>2. reporters[i] \in [option : OptionTs, result : Tool!ResultType]
      BY <1>7, ElementOfSeq DEF TypeOK
    <3>3. reporters[i].option.tool \in Tool!Kinds \ {kind}
      BY <1>8, <3>1, <3>2, MadeIs, AskedFor
    <3>4. judged'[reporters[i].option.tool] = judged[reporters[i].option.tool]
      BY <1>4, <3>3
    <3> QED BY <1>10, <3>1, <3>4 DEF Verdicts, Verdict
  <2>2. ASSUME NEW i, i = Len(reporters) + 1
        PROVE  Verdict(i)'
    BY <1>2, <1>3, <1>4, <1>7, <1>10, <2>2 DEF Verdict
  <2>3. \A i \in DOMAIN reporters' : Verdict(i)'
    <3>1. \A i \in DOMAIN reporters' : i \in DOMAIN reporters \/ i = Len(reporters) + 1
      BY <1>7
    <3> QED BY <2>1, <2>2, <3>1
  <2>4. \A k \in Tool!Kinds \ Reported' : judged'[k] = Unjudged
    BY <1>4, <1>9 DEF Verdicts
  <2>5. todo' = <<>> => Tool!BadFiles' \subseteq judged'[kind'].bad
    BY <1>4, <1>11
  <2> QED BY <2>3, <2>4, <2>5 DEF Verdicts, Unjudged
<1>17. Honest'
  <2>1. delivered' = {} /\ said' = said
    BY <1>1 DEF Sent
  <2>2. ASSUME NEW m \in said.numbers
        PROVE  m.tool \in Reported' /\ m.failed = Cardinality(judged'[m.tool].bad)
    <3>1. m.tool \in Reported /\ m.tool \in Tool!Kinds
      BY DEF Honest, TypeOK, Texts
    <3> QED BY <1>4, <1>8, <1>9, <3>1 DEF Honest
  <2>3. ASSUME NEW line \in said.lines
        PROVE  line.tool \in Reported' /\ line.file \in judged'[line.tool].bad
    <3>1. line.tool \in Reported /\ line.tool \in Tool!Kinds
      BY DEF Honest, TypeOK, Texts
    <3> QED BY <1>4, <1>8, <1>9, <3>1 DEF Honest
  <2> QED BY <2>1, <2>2, <2>3 DEF Honest
<1> QED BY <1>11, <1>12, <1>13, <1>14, <1>15, <1>16, <1>17

LEMMA EndToolsStep ==
  ASSUME IInv, EndTools
  PROVE  IInv'
<1> USE DEF IInv
<1>1. /\ stage = "tools" /\ todo = <<>> /\ stage' = "action_output"
      /\ UNCHANGED <<inputVars, pr_number, repo, said, delivered, exit_code, deltas>> /\ KeepsTools
  BY DEF EndTools, NoMoreTools, reportVars
<1>2. /\ Enabled' = Enabled /\ Requested' = Requested /\ NeedsPr' = NeedsPr
      /\ UNCHANGED <<cmd, env, todo, reporters, phase>>
      /\ Reported' = Reported /\ ToolsOf(todo)' = ToolsOf(todo)
  BY <1>1, GivenStays DEF KeepsTools, toolVars, inputVars, Reported, ToolsOf
<1>3. Exits' /\ Ordered' /\ FilesKnown' /\ Sent' /\ Addressed' /\ Initialised'
  BY <1>1, <1>2 DEF Exits, Ordered, FilesKnown, Sent, Addressed, Initialised, Aborted, Setup,
                    Sending, CanParse, ParsePrNumber
<1>4. Honest'
  BY <1>1, QuietStep DEF KeepsTools
<1>5. stage' \in Stages
  BY <1>1 DEF Stages, Sending
<1> QED BY <1>1, <1>2, <1>3, <1>4, <1>5, Passive DEF TypeOK

-------------------------------------------------------------------------------
(* The reports.                                                             *)

\* From run_tools on every enabled tool has its one reporter.
LEMMA AllReported ==
  ASSUME IInv, stage \in Sending \cup {"shutdown", "return"}
  PROVE  /\ todo = <<>> /\ Reported = Enabled /\ ~Aborted
         /\ exit_code = "none" /\ ~cmd.info
<1>1. ~Aborted /\ exit_code = "none" /\ ~cmd.info
  BY DEF IInv, Exits, Sending
<1>2. /\ stage \notin Setup \cup {"tools"}
      /\ stage \notin {"parse", "create_format", "create_tidy"}
  BY DEF Sending, Setup
<1>3. todo = <<>> /\ ToolsOf(todo) \cup Reported = Enabled
  BY <1>1, <1>2 DEF IInv, Ordered
<1>4. ToolsOf(todo) = {}
  BY <1>3 DEF ToolsOf
<1> QED BY <1>1, <1>3, <1>4

LEMMA ReporterTyped ==
  ASSUME TypeOK, NEW i \in DOMAIN reporters
  PROVE  /\ reporters[i].option \in OptionTs /\ reporters[i].result \in Tool!ResultType
         /\ reporters[i].option.tool \in Enabled
         /\ DOMAIN reporters = 1 .. Len(reporters) /\ Len(reporters) \in Nat
<1>1. /\ reporters \in Seq([option : OptionTs, result : Tool!ResultType])
      /\ DOMAIN reporters = 1 .. Len(reporters) /\ Len(reporters) \in Nat
  BY LenProperties DEF TypeOK
<1>2. reporters[i] \in [option : OptionTs, result : Tool!ResultType]
  BY <1>1, ElementOfSeq
<1>3. reporters[i].option \in OptionTs /\ reporters[i].result \in Tool!ResultType
  BY <1>2
<1> QED BY <1>1, <1>3, MadeIs

\* The tools have a reporter each: as many reporters as tools.
LEMMA OneReporterEach ==
  ASSUME IInv
  PROVE  IsFiniteSet(Reported) /\ Cardinality(Reported) = Len(reporters)
<1> DEFINE places == 1 .. Len(reporters)
           tool == [i \in places |-> reporters[i].option.tool]
<1>1. DOMAIN reporters = places /\ Len(reporters) \in Nat
  BY LenProperties DEF IInv, TypeOK
<1>2. IsFiniteSet(places) /\ Cardinality(places) = Len(reporters)
  <2>1. Len(reporters) \in Int /\ (1 > Len(reporters) => Len(reporters) = 0)
        /\ Len(reporters) - 1 + 1 = Len(reporters)
    BY <1>1
  <2> QED BY <2>1, FS_Interval
<1>3. tool \in [places -> Reported]
  BY <1>1 DEF Reported
<1>4. \A t \in Reported : \E i \in places : tool[i] = t
  BY <1>1 DEF Reported
<1>5. tool \in Surjection(places, Reported)
  BY <1>3, <1>4 DEF Surjection
<1>6. \A i, j \in places : tool[i] = tool[j] => i = j
  BY <1>1 DEF IInv, Once
<1>7. tool \in Injection(places, Reported)
  BY <1>3, <1>6 DEF Injection, IsInjective
<1> QED BY <1>2, <1>5, <1>7, FS_Surjection

\* What a report says of a tool is what its children answered ...
LEMMA NumberIsTrue ==
  ASSUME IInv, NEW i \in DOMAIN reporters, NEW report \in {"action_output", "issue_comment"}
  PROVE  LET m == Says(report, i) IN
           /\ m \in [report : {"action_output", "issue_comment"}, tool : Tool!Kinds,
                     failed : 0 .. Cardinality(Files)]
           /\ m.report = report /\ m.tool = reporters[i].option.tool /\ m.tool \in Reported
           /\ m.failed = Cardinality(judged[m.tool].bad)
<1>1. reporters[i].result.fails = judged[reporters[i].option.tool].bad
  BY DEF IInv, Verdicts, Verdict
<1>2. /\ reporters[i].result.fails \subseteq Files
      /\ reporters[i].option.tool \in Tool!Kinds
  BY ReporterTyped, AskedFor DEF IInv, Tool!ResultType
<1>3. /\ IsFiniteSet(reporters[i].result.fails)
      /\ Cardinality(reporters[i].result.fails) <= Cardinality(Files)
  BY <1>2, LintRunAssumption, FS_Subset
<1>4. FailedNumber(i) \in 0 .. Cardinality(Files)
  <2>1. Cardinality(reporters[i].result.fails) \in Nat /\ Cardinality(Files) \in Nat
    BY <1>3, LintRunAssumption, FS_CardinalityType
  <2> QED BY <1>3, <2>1 DEF FailedNumber
<1>5. reporters[i].option.tool \in Reported
  BY DEF Reported
<1>6. FailedNumber(i) = Cardinality(judged[reporters[i].option.tool].bad)
  BY <1>1 DEF FailedNumber
<1> HIDE DEF FailedNumber
<1> QED BY <1>2, <1>4, <1>5, <1>6 DEF Says

\* ... a brief names the bad files that need be named ...
LEMMA BriefIs ==
  ASSUME IInv, NEW i \in DOMAIN reporters
  PROVE  LET tool == reporters[i].option.tool IN
           /\ tool \in Tool!Kinds \cap Reported
           /\ Brief(i) = judged[tool].bad \ Undiagnosed(tool)
           /\ Brief(i) \subseteq judged[tool].bad /\ Brief(i) \subseteq Files
           /\ reporters[i].result.final_passed <=> judged[tool].bad = {}
<1> DEFINE tool == reporters[i].option.tool
<1>1. /\ reporters[i].result.fails = judged[tool].bad
      /\ reporters[i].result.diagnosed = judged[tool].diagnosed
      /\ judged[tool].diagnosed \subseteq judged[tool].bad
      /\ reporters[i].result.final_passed <=> judged[tool].bad = {}
  BY DEF IInv, Verdicts, Verdict
<1>2. reporters[i].result.fails \subseteq Files /\ tool \in Tool!Kinds /\ tool \in Reported
  BY ReporterTyped, AskedFor DEF IInv, Tool!ResultType, Reported
<1>3. tool \in {"clang_format", "clang_tidy"}
  BY <1>2 DEF Tool!Kinds
<1>4. Brief(i) = judged[tool].bad \ Undiagnosed(tool)
  BY <1>1, <1>3 DEF Brief, Undiagnosed
<1> QED BY <1>1, <1>2, <1>4

\* ... and each of its lines names one of them.
LEMMA LineIsTrue ==
  ASSUME IInv, NEW i \in DOMAIN reporters, NEW report \in {"step_summary", "issue_comment"},
         NEW line \in Lines(report, i)
  PROVE  /\ line \in [report : {"step_summary", "issue_comment"}, tool : Tool!Kinds, file : Files]
         /\ line.tool \in Reported /\ line.file \in judged[line.tool].bad
<1>1. /\ line = [report |-> line.report, tool |-> line.tool, file |-> line.file]
      /\ line.report = report /\ line.tool = reporters[i].option.tool /\ line.file \in Brief(i)
  BY DEF Lines
<1>2. /\ reporters[i].option.tool \in Tool!Kinds \cap Reported
      /\ Brief(i) \subseteq judged[reporters[i].option.tool].bad /\ Brief(i) \subseteq Files
  BY BriefIs
<1> QED BY <1>1, <1>2

\* The numbers of every tool.
LEMMA AllNumbers ==
  ASSUME IInv, NEW report \in {"action_output", "issue_comment"},
         said'.numbers = said.numbers \cup {Says(report, i) : i \in DOMAIN reporters}
  PROVE  /\ \A m \in said'.numbers \ said.numbers :
              /\ m \in [report : {"action_output", "issue_comment"}, tool : Tool!Kinds,
                        failed : 0 .. Cardinality(Files)]
              /\ m.tool \in Reported /\ m.failed = Cardinality(judged[m.tool].bad)
         /\ Reported \subseteq Told(report)'
<1>1. ASSUME NEW m \in said'.numbers \ said.numbers
      PROVE  /\ m \in [report : {"action_output", "issue_comment"}, tool : Tool!Kinds,
                       failed : 0 .. Cardinality(Files)]
             /\ m.tool \in Reported /\ m.failed = Cardinality(judged[m.tool].bad)
  <2>1. PICK i \in DOMAIN reporters : m = Says(report, i)
    OBVIOUS
  <2> QED BY <2>1, NumberIsTrue
<1>2. ASSUME NEW t \in Reported
      PROVE  t \in Told(report)'
  <2>1. PICK i \in DOMAIN reporters : t = reporters[i].option.tool
    BY DEF Reported
  <2>2. Says(report, i) \in said'.numbers
    OBVIOUS
  <2>3. Says(report, i).report = report /\ Says(report, i).tool = t
    BY <2>1 DEF Says
  <2> QED BY <2>2, <2>3 DEF Told
<1> QED BY <1>1, <1>2

\* The lines of the tools in places, when these hold all that did not pass.
LEMMA AllLines ==
  ASSUME IInv, NEW report \in {"step_summary", "issue_comment"},
         NEW places \in SUBSET DOMAIN reporters, NotPassed \subseteq places,
         said'.lines = said.lines \cup UNION {Lines(report, i) : i \in places},
         judged' = judged
  PROVE  /\ \A line \in said'.lines \ said.lines :
              /\ line \in [report : {"step_summary", "issue_comment"}, tool : Tool!Kinds, file : Files]
              /\ line.tool \in Reported /\ line.file \in judged[line.tool].bad
         /\ \A k \in Reported : judged'[k].bad \subseteq Named(report, k)' \cup Undiagnosed(k)'
<1>1. \A line : line \in UNION {Lines(report, i) : i \in places}
                  <=> \E i \in places : line \in Lines(report, i)
  OBVIOUS
<1>2. ASSUME NEW line \in said'.lines \ said.lines
      PROVE  /\ line \in [report : {"step_summary", "issue_comment"}, tool : Tool!Kinds, file : Files]
             /\ line.tool \in Reported /\ line.file \in judged[line.tool].bad
  <2>1. PICK i \in places : line \in Lines(report, i)
    BY <1>1
  <2> QED BY <2>1, LineIsTrue
<1>3. ASSUME NEW k \in Reported, NEW f \in judged[k].bad, f \notin Undiagnosed(k)
      PROVE  f \in Named(report, k)'
  <2>1. PICK i \in DOMAIN reporters : k = reporters[i].option.tool
    BY DEF Reported
  <2>2. f \in Brief(i) /\ ~reporters[i].result.final_passed
    BY <1>3, <2>1, BriefIs
  <2>3. i \in places
    BY <2>2 DEF NotPassed
  <2> DEFINE line == [report |-> report, tool |-> k, file |-> f]
  <2>4. line \in Lines(report, i)
    BY <2>1, <2>2 DEF Lines
  <2>5. line \in said'.lines
    BY <1>1, <2>3, <2>4
  <2>6. line.report = report /\ line.tool = k /\ line.file = f
    OBVIOUS
  <2> HIDE DEF line
  <2> QED BY <2>5, <2>6 DEF Named
<1>4. \A k : Undiagnosed(k)' = Undiagnosed(k)
  BY DEF Undiagnosed
<1>5. ASSUME NEW k \in Reported
      PROVE  judged'[k].bad \subseteq Named(report, k)' \cup Undiagnosed(k)'
  BY <1>3, <1>4
<1> QED BY <1>2, <1>5

\* A step that sends keeps the reports honest when it adds what is true, and a
\* report that is now out says all it has to.
LEMMA HonestStep ==
  ASSUME IInv, UNCHANGED <<inputVars, reporters, judged>>, Reported = Enabled,
         said.numbers \subseteq said'.numbers, said.lines \subseteq said'.lines,
         \A m \in said'.numbers \ said.numbers :
           m.tool \in Reported /\ m.failed = Cardinality(judged[m.tool].bad),
         \A line \in said'.lines \ said.lines :
           line.tool \in Reported /\ line.file \in judged[line.tool].bad,
         "step_summary" \in delivered => said'.title = said.title,
         \A report \in delivered' \ delivered : SaysAll(report)'
  PROVE  Honest'
<1>1. Reported' = Reported /\ Enabled' = Enabled /\ judged' = judged
  BY GivenStays DEF Reported
<1>2. \A m \in said'.numbers : m.tool \in Reported /\ m.failed = Cardinality(judged[m.tool].bad)
  BY DEF IInv, Honest
<1>3. \A line \in said'.lines : line.tool \in Reported /\ line.file \in judged[line.tool].bad
  BY DEF IInv, Honest
<1>4. /\ \A report : Told(report) \subseteq Told(report)' /\ Told(report)' \subseteq Reported
      /\ \A report, k : Named(report, k) \subseteq Named(report, k)'
      /\ \A k : Undiagnosed(k)' = Undiagnosed(k)
  BY <1>1, <1>2 DEF Told, Named, Undiagnosed
<1>5. ASSUME NEW report \in delivered
      PROVE  SaysAll(report)'
  <2>1. SaysAll(report)
    BY DEF IInv, Honest
  <2>2. report \in {"action_output", "issue_comment"} => Told(report)' = Enabled'
    BY <1>1, <1>4, <2>1 DEF SaysAll
  <2>3. report \in {"step_summary", "issue_comment"} =>
          \A k \in Enabled' : judged'[k].bad \subseteq Named(report, k)' \cup Undiagnosed(k)'
    BY <1>1, <1>4, <2>1 DEF SaysAll
  <2>4. report = "step_summary" =>
          said'.title = IF \A k \in Enabled' : judged'[k].bad = {} THEN "passed" ELSE "failed"
    BY <1>1, <2>1 DEF SaysAll
  <2> QED BY <2>2, <2>3, <2>4 DEF SaysAll
<1>6. \A report \in delivered' : SaysAll(report)'
  BY <1>5
<1> QED BY <1>1, <1>2, <1>3, <1>6 DEF Honest

\* A report of which it is shown what it tells.
LEMMA SaysAllPrimed ==
  ASSUME NEW report, UNCHANGED inputVars, Reported = Enabled,
         report \in {"action_output", "issue_comment"} => Told(report)' = Reported,
         report \in {"step_summary", "issue_comment"} =>
           \A k \in Reported : judged'[k].bad \subseteq Named(report, k)' \cup Undiagnosed(k)',
         report = "step_summary" =>
           said'.title = IF \A k \in Reported : judged'[k].bad = {} THEN "passed" ELSE "failed"
  PROVE  SaysAll(report)'
<1>1. Enabled' = Enabled
  BY GivenStays
<1> QED BY <1>1 DEF SaysAll

\* A step from one report to the next.
LEMMA SendingStep ==
  ASSUME IInv, UNCHANGED <<inputVars, pr_number, repo, exit_code, deltas>>, KeepsTools,
         stage \in Sending, stage' \in Sending \cup {"shutdown"},
         said' \in Texts,
         delivered' \subseteq Requested, Honest', Sent'
  PROVE  IInv'
<1> USE DEF IInv
<1>1. /\ Enabled' = Enabled /\ NeedsPr' = NeedsPr
      /\ UNCHANGED <<cmd, env, todo, reporters, phase>>
      /\ Reported' = Reported /\ ToolsOf(todo)' = ToolsOf(todo)
  BY GivenStays DEF KeepsTools, toolVars, inputVars, Reported, ToolsOf
<1>2. todo = <<>> /\ Reported = Enabled /\ exit_code = "none" /\ ~cmd.info
  BY AllReported
<1>3. ToolsOf(todo) = {}
  BY <1>2 DEF ToolsOf
<1>4. Exits' /\ Ordered' /\ FilesKnown' /\ Initialised'
  BY <1>1, <1>2, <1>3 DEF Exits, Ordered, FilesKnown, Initialised, Aborted, Setup, Sending
<1>5. Addressed'
  BY <1>1 DEF Addressed, CanParse, ParsePrNumber
<1>6. stage' \in Stages
  BY DEF Stages
<1> QED BY <1>4, <1>5, <1>6, Passive DEF TypeOK

LEMMA WriteOutputStep ==
  ASSUME IInv, NEW i \in DOMAIN reporters, WriteOutput(i)
  PROVE  IInv'
<1> DEFINE line == Says("action_output", i)
<1>1. /\ stage = "action_output" /\ stage' = stage
      /\ said' = [said EXCEPT !.numbers = @ \cup {line}]
      /\ UNCHANGED <<inputVars, pr_number, repo, exit_code, delivered, deltas>> /\ KeepsTools
  BY DEF WriteOutput, Sends
<1>2. stage \in Sending
  BY <1>1 DEF Sending
<1>3. /\ line \in [report : {"action_output", "issue_comment"}, tool : Tool!Kinds,
                   failed : 0 .. Cardinality(Files)]
      /\ line.tool \in Reported /\ line.failed = Cardinality(judged[line.tool].bad)
  BY NumberIsTrue
<1> HIDE DEF line
<1>4. said' \in Texts
  BY <1>1, <1>3 DEF IInv, TypeOK, Texts
<1>5. said'.numbers = said.numbers \cup {line} /\ said'.lines = said.lines /\ said'.title = said.title
  BY <1>1 DEF IInv, TypeOK, Texts
<1>6. Honest'
  BY <1>1, <1>2, <1>3, <1>5, AllReported, HonestStep DEF KeepsTools
<1>7. Sent' /\ delivered' \subseteq Requested
  BY <1>1, GivenStays DEF IInv, Sent, TypeOK
<1> QED BY <1>1, <1>2, <1>4, <1>6, <1>7, SendingStep

LEMMA EndOutputStep ==
  ASSUME IInv, EndOutput
  PROVE  IInv'
<1>1. /\ stage = "action_output" /\ "action_output" \in Requested /\ stage' = "step_summary"
      /\ delivered' = delivered \cup {"action_output"}
      /\ Cardinality(Told("action_output")) = Len(reporters)
      /\ UNCHANGED <<inputVars, pr_number, repo, said, exit_code, deltas>> /\ KeepsTools
  BY DEF EndOutput, Delivers, Sends
<1>2. stage \in Sending /\ stage' \in Sending
  BY <1>1 DEF Sending
<1>3. Told("action_output") \subseteq Reported
  BY DEF IInv, Honest, Told
<1>4. Told("action_output") = Reported
  BY <1>1, <1>3, OneReporterEach, FS_Subset
<1>5. Told("action_output")' = Told("action_output")
  BY <1>1 DEF Told
<1>6. SaysAll("action_output")'
  BY <1>1, <1>2, <1>4, <1>5, AllReported, SaysAllPrimed
<1>7. Honest'
  BY <1>1, <1>2, <1>6, AllReported, HonestStep DEF KeepsTools
<1>8. Sent' /\ delivered' \subseteq Requested
  BY <1>1, GivenStays DEF IInv, Sent, TypeOK, Setup
<1>9. said' \in Texts
  BY <1>1 DEF IInv, TypeOK
<1> QED BY <1>1, <1>2, <1>7, <1>8, <1>9, SendingStep

LEMMA WriteSummaryStep ==
  ASSUME IInv, WriteSummary
  PROVE  IInv'
<1>1. /\ stage = "step_summary" /\ "step_summary" \in Requested /\ stage' = "comment_id"
      /\ delivered' = delivered \cup {"step_summary"} /\ said' = Summary
      /\ UNCHANGED <<inputVars, pr_number, repo, exit_code, deltas>> /\ KeepsTools
  BY DEF WriteSummary, Delivers, Sends
<1>2. stage \in Sending /\ stage' \in Sending /\ said \in Texts /\ UNCHANGED <<reporters, judged>>
  BY <1>1 DEF Sending, IInv, TypeOK, KeepsTools
<1>3. Reported = Enabled /\ "step_summary" \notin delivered
  BY <1>1, <1>2, AllReported DEF IInv, Sent
<1>4. ASSUME AllPassed PROVE Honest' /\ said' \in Texts
  <2>1. /\ said'.numbers = said.numbers /\ said'.lines = said.lines /\ said'.title = "passed"
        /\ said' \in Texts
    BY <1>1, <1>2, <1>4 DEF Summary, Texts
  <2>2. \A k \in Reported : judged'[k].bad = {}
    BY <1>2, <1>4, BriefIs DEF AllPassed, Reported
  <2>3. SaysAll("step_summary")'
    BY <1>1, <1>3, <2>1, <2>2, SaysAllPrimed
  <2>4. Honest'
    BY <1>1, <1>2, <1>3, <2>1, <2>3, HonestStep
  <2> QED BY <2>1, <2>4
<1>5. ASSUME ~AllPassed PROVE Honest' /\ said' \in Texts
  <2>1. /\ said'.numbers = said.numbers /\ said'.title = "failed"
        /\ said'.lines = said.lines \cup UNION {Lines("step_summary", i) : i \in DOMAIN reporters}
    BY <1>1, <1>2, <1>5 DEF Summary, Texts
  <2>2. \E k \in Reported : judged'[k].bad # {}
    BY <1>2, <1>5, BriefIs DEF AllPassed, Reported
  <2>3. /\ \A line \in said'.lines \ said.lines :
             /\ line \in [report : {"step_summary", "issue_comment"}, tool : Tool!Kinds, file : Files]
             /\ line.tool \in Reported /\ line.file \in judged[line.tool].bad
        /\ \A k \in Reported :
             judged'[k].bad \subseteq Named("step_summary", k)' \cup Undiagnosed(k)'
    BY <1>2, <2>1, AllLines DEF NotPassed
  <2>4. SaysAll("step_summary")'
    BY <1>1, <1>3, <2>1, <2>2, <2>3, SaysAllPrimed
  <2>5. Honest'
    BY <1>1, <1>2, <1>3, <2>1, <2>3, <2>4, HonestStep
  <2>6. said' = [numbers |-> said'.numbers, lines |-> said'.lines, title |-> said'.title]
    BY <1>1, <1>2, <1>5 DEF Summary, Texts
  <2>7. said' \in Texts
    BY <1>2, <2>1, <2>3, <2>6 DEF Texts
  <2> QED BY <2>5, <2>7
<1>6. Sent' /\ delivered' \subseteq Requested
  BY <1>1, GivenStays DEF IInv, Sent, TypeOK, Setup
<1>7. Honest' /\ said' \in Texts
  BY <1>4, <1>5
<1> QED BY <1>1, <1>2, <1>6, <1>7, SendingStep

\* What the issue comment says, whether or not its answer comes back.
LEMMA CommentIsTrue ==
  ASSUME IInv, UNCHANGED inputVars, KeepsTools, Reported = Enabled, said' = Comment,
         delivered' = delivered \cup {"issue_comment"}
  PROVE  Honest' /\ said' \in Texts
<1>1. said \in Texts /\ UNCHANGED <<reporters, judged>>
  BY DEF IInv, TypeOK, KeepsTools
<1>2. /\ said'.numbers = said.numbers \cup {Says("issue_comment", i) : i \in DOMAIN reporters}
      /\ said'.lines = said.lines \cup UNION {Lines("issue_comment", i) : i \in NotPassed}
      /\ said'.title = said.title
      /\ said' = [numbers |-> said'.numbers, lines |-> said'.lines, title |-> said'.title]
  BY <1>1 DEF Comment, Texts
<1>3. /\ \A m \in said'.numbers \ said.numbers :
           /\ m \in [report : {"action_output", "issue_comment"}, tool : Tool!Kinds,
                     failed : 0 .. Cardinality(Files)]
           /\ m.tool \in Reported /\ m.failed = Cardinality(judged[m.tool].bad)
      /\ Reported \subseteq Told("issue_comment")'
  BY <1>2, AllNumbers
<1>4. /\ \A line \in said'.lines \ said.lines :
           /\ line \in [report : {"step_summary", "issue_comment"}, tool : Tool!Kinds, file : Files]
           /\ line.tool \in Reported /\ line.file \in judged[line.tool].bad
      /\ \A k \in Reported :
           judged'[k].bad \subseteq Named("issue_comment", k)' \cup Undiagnosed(k)'
  <2>1. NotPassed \in SUBSET DOMAIN reporters
    BY DEF NotPassed
  <2> QED BY <1>1, <1>2, <2>1, AllLines
<1>5. Told("issue_comment")' = Reported
  <2>1. \A m \in said'.numbers : m.tool \in Reported
    BY <1>3 DEF IInv, Honest
  <2>2. Told("issue_comment")' \subseteq Reported
    BY <2>1 DEF Told
  <2> QED BY <1>3, <2>2
<1>6. SaysAll("issue_comment")'
  BY <1>4, <1>5, SaysAllPrimed
<1>7. Honest'
  BY <1>1, <1>2, <1>3, <1>4, <1>6, HonestStep
<1>8. said' \in Texts
  BY <1>1, <1>2, <1>3, <1>4 DEF Texts
<1> QED BY <1>7, <1>8

LEMMA PostStep ==
  ASSUME IInv, PostComment \/ PostReview \/ GetCommentId \/ SkipReport
  PROVE  IInv'
<1> USE DEF IInv
<1>1. CASE PostComment
  <2>1. /\ stage = "issue_comment" /\ "issue_comment" \in Requested /\ stage' = "review"
        /\ delivered' = delivered \cup {"issue_comment"} /\ said' = Comment
        /\ UNCHANGED <<inputVars, pr_number, repo, exit_code, deltas>> /\ KeepsTools
    BY <1>1 DEF PostComment, Delivers, Sends
  <2>2. stage \in Sending /\ stage' \in Sending
    BY <2>1 DEF Sending
  <2>3. Honest' /\ said' \in Texts
    BY <2>1, <2>2, AllReported, CommentIsTrue
  <2>4. Requested \ {"review"} = Requested \cap {"action_output", "step_summary", "issue_comment"}
    BY AskedFor DEF Reports
  <2>5. Sent' /\ delivered' \subseteq Requested
    BY <2>1, <2>4, GivenStays DEF Sent, TypeOK, Setup
  <2> QED BY <2>1, <2>2, <2>3, <2>5, SendingStep
<1>2. CASE PostReview
  <2>1. /\ stage = "review" /\ "review" \in Requested /\ stage' = "shutdown"
        /\ delivered' = delivered \cup {"review"}
        /\ UNCHANGED <<inputVars, pr_number, repo, said, exit_code, deltas>> /\ KeepsTools
    BY <1>2 DEF PostReview, Delivers, Sends
  <2>2. stage \in Sending
    BY <2>1 DEF Sending
  <2>3. SaysAll("review")'
    BY <2>1, <2>2, AllReported, SaysAllPrimed
  <2>4. Honest'
    BY <2>1, <2>2, <2>3, AllReported, HonestStep DEF KeepsTools
  <2>5. Sent' /\ delivered' \subseteq Requested
    BY <2>1, GivenStays DEF Sent, TypeOK, Setup
  <2>6. said' \in Texts
    BY <2>1 DEF TypeOK
  <2> QED BY <2>1, <2>2, <2>4, <2>5, <2>6, SendingStep
<1>3. CASE GetCommentId \/ SkipReport
  <2>1. /\ UNCHANGED <<inputVars, pr_number, repo, said, delivered, exit_code, deltas>> /\ KeepsTools
        /\ stage \in Sending /\ stage' \in Sending \cup {"shutdown"}
    BY <1>3 DEF GetCommentId, SkipReport, Skips, Sending, reportVars
  <2>2. Honest'
    BY <2>1, QuietStep DEF KeepsTools
  <2>3. Requested \subseteq {"action_output", "step_summary", "issue_comment", "review"}
    BY AskedFor DEF Reports
  <2>4. Requested' = Requested
    BY <2>1, GivenStays
  <2>5. Sent'
    <3>1. CASE GetCommentId
      BY <2>1, <2>4, <3>1 DEF GetCommentId, Sent, Setup
    <3>2. CASE Skips("action_output") /\ stage' = "step_summary"
      BY <2>1, <2>4, <3>2 DEF Skips, Sent, Setup
    <3>3. CASE Skips("step_summary") /\ stage' = "comment_id"
      BY <2>1, <2>4, <3>3 DEF Skips, Sent, Setup
    <3>4. CASE stage = "comment_id" /\ "issue_comment" \notin Requested /\ stage' = "review"
      BY <2>1, <2>3, <2>4, <3>4 DEF Sent, Setup
    <3>5. CASE Skips("review") /\ stage' = "shutdown"
      BY <2>1, <2>4, <3>5 DEF Skips, Sent, Setup
    <3> QED BY <1>3, <3>1, <3>2, <3>3, <3>4, <3>5 DEF SkipReport
  <2>6. /\ said' \in Texts
        /\ delivered' \subseteq Requested
    BY <2>1 DEF TypeOK
  <2> QED BY <2>1, <2>2, <2>5, <2>6, SendingStep
<1> QED BY <1>1, <1>2, <1>3

\* The run ends on a lost answer, but what GitHub was sent is there.
LEMMA AnswerLostStep ==
  ASSUME IInv, AnswerLost
  PROVE  IInv'
<1> USE DEF IInv
<1>1. /\ stage \in {"issue_comment", "review"} /\ stage \in Requested
      /\ stage' = "ended" /\ exit_code' = "abort"
      /\ delivered' = delivered \cup {stage}
      /\ UNCHANGED <<inputVars, pr_number, repo, deltas>> /\ KeepsTools
      /\ \/ stage = "issue_comment" /\ said' = Comment
         \/ stage = "review" /\ said' = said
  BY DEF AnswerLost, Sends, Abort
<1>2. stage \in Sending
  BY <1>1 DEF Sending
<1>3. Honest' /\ said' \in Texts
  <2>1. CASE stage = "issue_comment"
    BY <1>1, <1>2, <2>1, AllReported, CommentIsTrue
  <2>2. CASE stage = "review"
    <3>1. SaysAll("review")'
      BY <1>1, <1>2, AllReported, SaysAllPrimed
    <3>2. said' = said /\ delivered' = delivered \cup {"review"}
      BY <1>1, <2>2
    <3>3. Honest'
      BY <1>1, <1>2, <3>1, <3>2, AllReported, HonestStep DEF KeepsTools
    <3> QED BY <3>2, <3>3 DEF TypeOK
  <2> QED BY <1>1, <2>1, <2>2
<1>4. Exits' /\ Sent' /\ Addressed' /\ Initialised' /\ FilesKnown'
  BY <1>1 DEF Exits, Sent, Addressed, Initialised, FilesKnown, Aborted, Setup, Sending
<1>5. Ordered'
  BY <1>1 DEF Ordered, Aborted, Setup
<1>6. delivered' \subseteq Requested /\ stage' \in Stages
  BY <1>1 DEF TypeOK, Stages
<1> QED BY <1>1, <1>3, <1>4, <1>5, <1>6, Passive DEF TypeOK

-------------------------------------------------------------------------------
(* The end.                                                                 *)

LEMMA EndSteps ==
  ASSUME IInv, GitShutdown \/ Return \/ DestroyContext
  PROVE  IInv'
<1> USE DEF IInv
<1>1. /\ UNCHANGED <<inputVars, pr_number, said, delivered, deltas>> /\ KeepsTools
      /\ stage \in {"shutdown", "return", "destroy"}
      /\ stage' \in {"return", "destroy", "ended"}
      /\ exit_code' \in {"none", "0", "1", "abort"}
  BY DEF GitShutdown, Return, DestroyContext, reportVars, TypeOK
<1>2. Honest'
  BY <1>1, QuietStep DEF KeepsTools
<1>3. /\ Enabled' = Enabled /\ Requested' = Requested
      /\ UNCHANGED <<cmd, env, todo, reporters, phase>>
      /\ Reported' = Reported /\ ToolsOf(todo)' = ToolsOf(todo)
  BY <1>1, GivenStays DEF KeepsTools, toolVars, inputVars, Reported, ToolsOf
<1>4. repo' \in [inits : 0 .. 1, live : SUBSET Handles]
  <2>1. stage = "shutdown" => repo.inits = 1
    BY DEF Initialised
  <2> QED BY <2>1 DEF GitShutdown, Return, DestroyContext, TypeOK
<1>5. Exits' /\ Ordered'
  <2>1. AllPassed' = AllPassed
    BY <1>3 DEF AllPassed
  <2>2. exit_code' = "0" => AllPassed
    BY DEF GitShutdown, Return, DestroyContext, Exits
  <2>3. Ordered'
    BY <1>1, <1>3 DEF Exits, Ordered, Aborted, Setup, GitShutdown, Return, DestroyContext
  <2>4. /\ exit_code' = "none" <=> stage' \notin {"destroy", "ended"}
        /\ ~Aborted' /\ ~cmd.info'
    BY <1>1, <1>3 DEF Exits, Aborted, GitShutdown, Return, DestroyContext
  <2> QED BY <2>1, <2>2, <2>3, <2>4 DEF Exits
<1>6. Sent' /\ Addressed' /\ Initialised' /\ FilesKnown'
  BY <1>1, <1>3 DEF Sent, Addressed, Initialised, FilesKnown, Setup, Sending,
                    GitShutdown, Return, DestroyContext
<1>7. stage' \in Stages
  BY <1>1 DEF Stages
<1> QED BY <1>1, <1>2, <1>4, <1>5, <1>6, <1>7, Passive DEF TypeOK

-------------------------------------------------------------------------------
(* The invariant.                                                           *)

LEMMA InvInit == Init => IInv
<1> SUFFICES ASSUME Init PROVE IInv
  OBVIOUS
<1>1. /\ stage = "parse" /\ pr_number = NoPrNumber /\ repo = [inits |-> 0, live |-> {}]
      /\ todo = <<>> /\ reporters = <<>> /\ said = Nothing /\ delivered = {} /\ exit_code = "none"
      /\ judged = [k \in Tool!Kinds |-> Unjudged] /\ deltas = NoFiles
      /\ kind = "clang_format" /\ option = LoopOption(FALSE, "default")
      /\ unvisited = {} /\ execs = <<>> /\ result = Tool!EmptyResult /\ phase = "idle"
  BY DEF Init, NoToolYet
<1>2. IsInput([cmd |-> cmd, env |-> env, host |-> host, git |-> git])
  <2>1. PICK input \in Inputs :
          cmd = input.cmd /\ env = input.env /\ host = input.host /\ git = input.git
    BY DEF Init
  <2>2. IsInput(input)
    BY LintRunAssumption
  <2> QED BY <2>1, <2>2 DEF IsInput
<1>3. /\ kind \in Tool!Kinds /\ option \in Tool!Options
  BY <1>1, LintRunAssumption DEF Tool!Kinds, LoopOption, Tool!Options
<1>4. DOMAIN deltas = {}
  BY <1>1 DEF NoFiles
<1>5. Loop!IInv
  <2>1. deltas \in [DOMAIN deltas -> Statuses]
    BY <1>1, <1>4 DEF NoFiles
  <2>2. Loop!Init
    BY <1>1, <1>3, <1>4, <2>1 DEF Loop!Init, Loop!Kinds, Loop!Options, Loop!EmptyResult,
                           Tool!Kinds, Tool!Options, Tool!EmptyResult
  <2> QED BY <2>2, LoopInit
<1>6. Tool!TypeOK /\ Tool!BadFiles = {}
  <2>1. Loop!TypeOK
    BY <1>5 DEF Loop!IInv
  <2>2. DOMAIN execs = {}
    BY <1>1
  <2> QED BY <2>1, <2>2, SameType DEF Tool!BadFiles
<1>7. TypeOK
  <2>1. judged \in [Tool!Kinds -> [good : SUBSET Files, bad : SUBSET Files, diagnosed : SUBSET Files]]
    BY <1>1 DEF Unjudged
  <2>2. said \in Texts
    BY <1>1 DEF Nothing, Texts
  <2>3. repo \in [inits : 0 .. 1, live : SUBSET Handles]
    BY <1>1
  <2>4. todo \in Seq(OptionTs) /\ reporters \in Seq([option : OptionTs, result : Tool!ResultType])
    BY <1>1, EmptySeq
  <2> QED BY <1>1, <1>2, <1>6, <2>1, <2>3, <2>4, <2>2 DEF TypeOK, Stages, Setup, NoPrNumber
<1>8. Reported = {}
  BY <1>1 DEF Reported
<1>9. Exits /\ Ordered /\ Once /\ InHand /\ FilesKnown
  BY <1>1, <1>8 DEF Exits, Ordered, Once, InHand, FilesKnown, Aborted, Setup, ToolsOf
<1>10. Verdicts
  BY <1>1, <1>6, <1>8 DEF Verdicts
<1>11. Honest /\ Sent /\ Addressed /\ Initialised
  BY <1>1 DEF Honest, Nothing, Sent, Addressed, Initialised, Setup, Sending
<1> QED BY <1>5, <1>7, <1>9, <1>10, <1>11 DEF IInv

LEMMA InvStep == IInv /\ [Next]_vars => IInv'
<1> SUFFICES ASSUME IInv, [Next]_vars PROVE IInv'
  OBVIOUS
<1>1. CASE Starts
  BY <1>1, StartSteps, CreateSteps, AbortSteps, FillGitInfoStep DEF Starts
<1>2. CASE RunsTools
  BY <1>2, StepToolStep, EndToolStep, EndToolsStep, AbortSteps DEF RunsTools
<1>3. CASE SendsReports
  BY <1>3, WriteOutputStep, EndOutputStep, WriteSummaryStep, PostStep, AnswerLostStep, AbortSteps
  DEF SendsReports
<1>4. CASE Ends
  BY <1>4, EndSteps DEF Ends
<1>5. CASE UNCHANGED vars
  <2>1. /\ UNCHANGED <<inputVars, deltas, stage, pr_number, repo, exit_code, said, delivered>>
        /\ KeepsTools
    BY <1>5 DEF vars, reportVars, KeepsTools
  <2>2. /\ Enabled' = Enabled /\ Requested' = Requested /\ NeedsPr' = NeedsPr
        /\ TargetTree' = TargetTree /\ SourceTree' = SourceTree
        /\ UNCHANGED <<cmd, env, todo, reporters, phase>>
        /\ Reported' = Reported /\ ToolsOf(todo)' = ToolsOf(todo)
    BY <2>1, GivenStays DEF KeepsTools, toolVars, inputVars, Reported, ToolsOf
  <2>3. Exits' /\ Ordered' /\ FilesKnown'
    BY <2>1, <2>2 DEF IInv, Exits, Ordered, FilesKnown, Aborted, AllPassed
  <2>4. Sent' /\ Addressed' /\ Initialised'
    BY <2>1, <2>2 DEF IInv, Sent, Addressed, Initialised, CanParse, ParsePrNumber
  <2>5. Honest'
    BY <2>1, QuietStep DEF KeepsTools
  <2> QED BY <2>1, <2>2, <2>3, <2>4, <2>5, Passive DEF IInv, TypeOK
<1> QED BY <1>1, <1>2, <1>3, <1>4, <1>5 DEF Next

\* The invariant holds in every run: what main() has made, kept, told and sent,
\* at each of its stages.
THEOREM Invariance == Spec => []IInv
BY InvInit, InvStep, PTL DEF Spec

\* A run stays typed whatever its command line, environment, machine, repository
\* and children.
THEOREM TypeCorrect == Spec => []TypeOK
<1>1. IInv => TypeOK
  BY DEF IInv
<1> QED BY <1>1, Invariance, PTL

\* Exit code 0 means that every enabled tool had the answer "good" for every file
\* it had to look at.
THEOREM GreenIsChecked == Spec => []GreenMeansChecked
<1>1. IInv => GreenMeansChecked
  <2>1. SUFFICES ASSUME IInv, exit_code = "0", NEW k \in Enabled
                 PROVE  Required(k) \subseteq judged[k].good
    BY DEF GreenMeansChecked
  <2>2. stage \in {"destroy", "ended"} /\ ~Aborted /\ AllPassed
    BY <2>1 DEF IInv, Exits, Aborted, TypeOK
  <2>3. todo = <<>> /\ ToolsOf(todo) \cup Reported = Enabled
    BY <2>1, <2>2 DEF IInv, Ordered, Setup
  <2>4. k \in Reported
    BY <2>3 DEF ToolsOf
  <2>5. PICK i \in DOMAIN reporters : reporters[i].option.tool = k
    BY <2>4 DEF Reported
  <2>6. reporters[i].result.final_passed
    BY <2>2 DEF AllPassed
  <2> QED BY <2>1, <2>5, <2>6 DEF IInv, Verdicts, Verdict
<1> QED BY <1>1, Invariance, PTL

\* Every verdict is of the binary, the early exit and the filter asked for.
THEOREM ToolAsAskedAlways == Spec => []ToolAsAsked
<1>1. TypeOK => ToolAsAsked
  <2> SUFFICES ASSUME TypeOK, NEW i \in DOMAIN reporters
               PROVE  LET used == reporters[i].option
                          given == cmd.tools[used.tool]
                      IN /\ {"version", "binary"} \cap DOMAIN given = {} =>
                              used.binary = host.plain[used.tool]
                         /\ "binary" \in DOMAIN given => used.binary = given.binary
                         /\ "version" \in DOMAIN given =>
                              used.binary = host.versioned[used.tool][given.version]
                         /\ ~({"version", "binary"} \subseteq DOMAIN given)
                         /\ used.enabled_fastly_exit = OfTool(used.tool).enable_fastly_exit
                         /\ used.file_iregex = OfTool(used.tool).file_iregex
    BY DEF ToolAsAsked
  <2> DEFINE used == reporters[i].option
             given == cmd.tools[used.tool]
             variables == OfTool(used.tool)
  <2>1. used \in OptionTs
    BY ReporterTyped
  <2>2. /\ used \in CreateOption(used.tool, variables, host)
        /\ used.enabled_fastly_exit = variables.enable_fastly_exit
        /\ used.file_iregex = variables.file_iregex
    BY <2>1, MadeIs
  <2>3. used.binary \in Binary(used.tool, variables, host)
    <3> HIDE DEF used, variables
    <3> QED BY <2>2 DEF CreateOption
  <2>4. DOMAIN variables = DOMAIN given \cup {"enable", "enable_fastly_exit", "file_iregex"}
    BY ParsedDomain DEF OfTool, ToolDefaults
  <2>5. \A name \in DOMAIN given : variables[name] = given[name]
    BY ParsedIs DEF OfTool
  <2> HIDE DEF used, given, variables
  <2>6. "binary" \in DOMAIN given => used.binary = given.binary /\ "version" \notin DOMAIN given
    BY <2>3, <2>4, <2>5 DEF Binary, GivenBinary, FindClangTool, MustNotSpecify
  <2>7. "version" \in DOMAIN given => used.binary = host.versioned[used.tool][given.version]
    BY <2>3, <2>4, <2>5 DEF Binary, FindClangTool
  <2>8. {"version", "binary"} \cap DOMAIN given = {} => used.binary = host.plain[used.tool]
    BY <2>3, <2>4 DEF Binary, Which
  <2> QED BY <2>2, <2>6, <2>7, <2>8 DEF used, given, variables
<1> QED BY <1>1, TypeCorrect, PTL

\* What the reports tell is what the children answered: each number and each file
\* named, and in a report that went out all of them that it has to tell.
THEOREM ReportsTruthfulAlways == Spec => []ReportsTruthful
<1>1. IInv => ReportsTruthful
  BY DEF IInv, Honest, ReportsTruthful
<1> QED BY <1>1, Invariance, PTL

\* The assertion of comment_on_github_issue never fails.
THEOREM NotPassedMeansFailedAlways == Spec => []NotPassedMeansFailed
<1>1. IInv => NotPassedMeansFailed
  <2>1. SUFFICES ASSUME IInv, NEW i \in DOMAIN reporters, ~reporters[i].result.final_passed
                 PROVE  FailedNumber(i) # 0
    BY DEF NotPassedMeansFailed, AssertFailed
  <2>2. reporters[i].result.fails # {}
    BY <2>1 DEF IInv, Verdicts, Verdict
  <2>3. reporters[i].result.fails \subseteq Files
    <3>1. TypeOK
      BY <2>1 DEF IInv
    <3>2. reporters[i].result \in Tool!ResultType
      BY <2>1, <3>1, ReporterTyped
    <3> QED BY <3>2 DEF Tool!ResultType
  <2>4. IsFiniteSet(reporters[i].result.fails)
    BY <2>3, LintRunAssumption, FS_Subset
  <2> QED BY <2>2, <2>4, FS_EmptySet DEF FailedNumber
<1> QED BY <1>1, Invariance, PTL

\* What a pull_request run sends goes to its pull request.
THEOREM PullRequestKnownAlways == Spec => []PullRequestKnown
<1>1. IInv => PullRequestKnown
  <2>1. SUFFICES ASSUME IInv, env.event = "pull_request", Sends("issue_comment") \/ Sends("review")
                 PROVE  pr_number = PrOfRun
    BY DEF PullRequestKnown
  <2>2. NeedsPr /\ stage \in Sending
    BY <2>1 DEF NeedsPr, NeedsPrNumber, EventsWithPrNumber, Sends, Sending
  <2>3. env.ref = MergeRef
    BY <2>1 DEF IInv, TypeOK, IsInput, RefsOf
  <2>4. pr_number = ParsePrNumber(env.ref)
    BY <2>1, <2>2 DEF IInv, Addressed
  <2>5. MergeRef[3] = "7"
    BY DEF MergeRef
  <2>6. Stoi["7"] = 7
    BY DEF Stoi
  <2> QED BY <2>3, <2>4, <2>5, <2>6 DEF ParsePrNumber, PrOfRun
<1> QED BY <1>1, Invariance, PTL

-------------------------------------------------------------------------------
(* A run is one of LintPromise.                                             *)

LEMMA BadPairsAre ==
  \A p : p \in BadPairs <=>
         \/ \E k \in Tool!Kinds : \E f \in judged[k].bad : p = <<k, f>>
         \/ \E f \in Tool!BadFiles : p = <<kind, f>>
<1>1. \A k, S : \A p : p \in {k} \X S <=> \E f \in S : p = <<k, f>>
  OBVIOUS
<1> DEFINE of(k) == {k} \X judged[k].bad
           all == UNION {of(k) : k \in Tool!Kinds}
<1>2. \A p : p \in all <=> \E k \in Tool!Kinds : p \in of(k)
  <2> HIDE DEF of
  <2> QED OBVIOUS
<1>3. BadPairs = all \cup ({kind} \X Tool!BadFiles)
  BY DEF BadPairs
<1> HIDE DEF of, all
<1>4. \A p : p \in BadPairs <=>
        (\E k \in Tool!Kinds : p \in of(k)) \/ p \in {kind} \X Tool!BadFiles
  BY <1>2, <1>3
<1>5. \A k : \A p : p \in of(k) <=> \E f \in judged[k].bad : p = <<k, f>>
  BY <1>1 DEF of
<1> QED BY <1>1, <1>4, <1>5

LEMMA BadPairsPrimed ==
  (\A p : p \in BadPairs <=>
          \/ \E k \in Tool!Kinds : \E f \in judged[k].bad : p = <<k, f>>
          \/ \E f \in Tool!BadFiles : p = <<kind, f>>)'
BY BadPairsAre, PTL

\* Before run_tools nothing is known of any file.
LEMMA NothingBadYet ==
  ASSUME IInv, stage \in Setup
  PROVE  BadPairs = {}
<1>1. reporters = <<>> /\ phase = "idle"
  BY DEF IInv, Ordered
<1>2. Reported = {}
  BY <1>1 DEF Reported
<1>3. \A k \in Tool!Kinds : judged[k].bad = {}
  BY <1>2 DEF IInv, Verdicts, Unjudged
<1>4. execs = <<>>
  BY <1>1, LoopIdle DEF IInv, Loop!Init
<1>5. DOMAIN execs = {}
  BY <1>4
<1>6. Tool!BadFiles = {}
  BY <1>5 DEF Tool!BadFiles
<1> QED BY <1>3, <1>6, BadPairsAre

LEMMA NothingBadYetPrimed == (IInv /\ stage \in Setup => BadPairs = {})'
<1>1. IInv /\ stage \in Setup => BadPairs = {}
  BY NothingBadYet
<1> QED BY <1>1, PTL

\* What changes neither the verdicts nor the loop changes no bad pair.
LEMMA SamePairs ==
  ASSUME UNCHANGED <<judged, kind>>, Tool!BadFiles' = Tool!BadFiles
  PROVE  BadPairs' = BadPairs
BY BadPairsAre, BadPairsPrimed

LEMMA KeptPairs ==
  ASSUME IInv, KeepsTools, UNCHANGED deltas
  PROVE  BadPairs' = BadPairs
BY LoopStays, SamePairs DEF IInv, KeepsTools, toolVars

\* At the end of the reports a file is known to be bad exactly when a tool failed.
LEMMA RedMeansBad ==
  ASSUME IInv, stage = "return"
  PROVE  AllPassed <=> BadPairs = {}
<1>1. todo = <<>> /\ Reported = Enabled
  BY AllReported
<1>2. Tool!BadFiles \subseteq judged[kind].bad /\ kind \in Tool!Kinds
  BY <1>1 DEF IInv, Verdicts, TypeOK, Tool!TypeOK
<1>3. ASSUME AllPassed, NEW k \in Tool!Kinds
      PROVE  judged[k].bad = {}
  <2>1. CASE k \in Reported
    <3>1. PICK i \in DOMAIN reporters : reporters[i].option.tool = k
      BY <2>1 DEF Reported
    <3> QED BY <1>3, <3>1 DEF IInv, Verdicts, Verdict, AllPassed
  <2>2. CASE k \notin Reported
    BY <2>2 DEF IInv, Verdicts, Unjudged
  <2> QED BY <2>1, <2>2
<1>4. AllPassed => BadPairs = {}
  BY <1>2, <1>3, BadPairsAre
<1>5. ASSUME ~AllPassed
      PROVE  BadPairs # {}
  <2>1. PICK i \in DOMAIN reporters : ~reporters[i].result.final_passed
    BY <1>5 DEF AllPassed
  <2>2. judged[reporters[i].option.tool].bad # {} /\ reporters[i].option.tool \in Tool!Kinds
    BY <2>1, ReporterTyped, AskedFor DEF IInv, Verdicts, Verdict
  <2> QED BY <2>2, BadPairsAre
<1> QED BY <1>4, <1>5

LEMMA PromiseInit == Init => Promise!Init
<1> SUFFICES ASSUME Init PROVE Promise!Init
  OBVIOUS
<1>1. IInv /\ stage \in Setup
  BY InvInit DEF Init, Setup
<1>2. BadPairs = {} /\ reporters = <<>> /\ delivered = {} /\ exit_code = "none"
  BY <1>1, NothingBadYet DEF Init
<1>3. {reporters[i].option.tool : i \in DOMAIN reporters} = {}
  BY <1>2
<1> QED BY <1>2, <1>3, AskedFor DEF Promise!Init, Outcome

\* A step that tells nothing and ends nothing is no step of the promise.
LEMMA Stutters ==
  ASSUME UNCHANGED <<inputVars, delivered>>, Reported' = Reported, BadPairs' = BadPairs,
         Outcome' = Outcome
  PROVE  UNCHANGED Promise!vars
BY GivenStays DEF Promise!vars, Reported

LEMMA PromiseAborts ==
  ASSUME IInv, Abort, stage # "ended", stage # "destroy",
         UNCHANGED <<inputVars, pr_number, repo, reportVars, deltas>>, KeepsTools
  PROVE  Promise!Fail
<1>1. exit_code = "none" /\ exit_code' = "abort"
  BY DEF IInv, Exits, Abort
<1>2. Reported' = Reported /\ BadPairs' = BadPairs /\ delivered' = delivered
  BY KeptPairs DEF Reported, KeepsTools, reportVars
<1> QED BY <1>1, <1>2, GivenStays DEF Promise!Fail, Outcome, Reported

PromiseStep == [Promise!Next]_(Promise!vars)

LEMMA PromiseStarts ==
  ASSUME IInv, IInv', Starts
  PROVE  PromiseStep
<1>1. CASE NoSuchLevel \/ NoTarget \/ NotSet \/ RefIsNoPr \/ GitRefuses \/ SetupFails
             \/ (CreatorThrows("clang_format") /\ stage = "create_format")
             \/ (CreatorThrows("clang_tidy") /\ stage = "create_tidy")
  BY <1>1, PromiseAborts DEF NoSuchLevel, NoTarget, NotSet, RefIsNoPr, GitRefuses, SetupFails,
                            CreatorThrows, Promise!Next, PromiseStep
<1>2. CASE PrintInfo
  <2>1. /\ stage = "parse" /\ exit_code' = "0" /\ cmd.info
        /\ UNCHANGED <<inputVars, said, delivered, deltas>> /\ KeepsTools
    BY <1>2 DEF PrintInfo, reportVars
  <2>2. Enabled = {} /\ Requested = {} /\ BadPairs = {} /\ exit_code = "none"
    BY <2>1, AskedFor, NothingBadYet DEF IInv, Exits, Setup
  <2>3. reporters = <<>> /\ delivered = {}
    BY <2>1, <2>2 DEF IInv, Ordered, TypeOK, Setup
  <2>4. Reported = {} /\ Reported' = {} /\ BadPairs' = {}
    BY <2>1, <2>2, <2>3, KeptPairs DEF Reported, KeepsTools
  <2>5. Promise!Conclude
    BY <2>1, <2>2, <2>3, <2>4, GivenStays DEF Promise!Conclude, Outcome, Reported
  <2> QED BY <2>5 DEF Promise!Next, PromiseStep
<1>3. CASE \/ ParseOptions \/ FillContext \/ FillEnv \/ GitSetup \/ FillGitInfo \/ CheckHead
           \/ stage = "create_format" /\ Creates("clang_format", "create_tidy")
           \/ stage = "create_tidy" /\ Creates("clang_tidy", "fill_context")
  <2>1. /\ UNCHANGED <<inputVars, delivered, exit_code, reporters>>
        /\ stage \in Setup
        /\ stage' \in Setup \/ CheckHead
    BY <1>3 DEF ParseOptions, FillContext, FillEnv, GitSetup, FillGitInfo, CheckHead, Creates,
                KeepsTools, reportVars, Setup
  <2>2. BadPairs' = BadPairs
    <3>1. CASE stage' \in Setup
      BY <2>1, <3>1, NothingBadYet, NothingBadYetPrimed
    <3>2. CASE CheckHead
      BY <3>2, KeptPairs DEF CheckHead
    <3> QED BY <2>1, <3>1, <3>2
  <2>3. Reported' = Reported /\ Outcome' = Outcome
    BY <2>1 DEF Reported, Outcome
  <2> QED BY <2>1, <2>2, <2>3, Stutters DEF PromiseStep
<1>4. CASE CreateFormat
  BY <1>1, <1>3, <1>4 DEF CreateFormat
<1>5. CASE CreateTidy
  BY <1>1, <1>3, <1>5 DEF CreateTidy
<1> QED BY <1>1, <1>2, <1>3, <1>4, <1>5 DEF Starts

LEMMA PromiseTools ==
  ASSUME IInv, IInv', RunsTools
  PROVE  PromiseStep
<1>1. CASE StepTool
  <2>1. /\ stage = "tools" /\ todo # <<>> /\ Tool!Next
        /\ UNCHANGED <<inputVars, todo, reporters, delivered, exit_code, judged>>
    BY <1>1 DEF StepTool, reportVars
  <2>2. /\ kind' = kind
        /\ \/ Tool!BadFiles' = Tool!BadFiles
           \/ \E f \in Files : Tool!BadFiles' = Tool!BadFiles \cup {f}
    BY <2>1, LoopLearns DEF IInv
  <2>3. Reported' = Reported /\ Outcome' = Outcome
    BY <2>1 DEF Reported, Outcome
  <2>4. CASE Tool!BadFiles' = Tool!BadFiles
    <3>1. BadPairs' = BadPairs
      BY <2>1, <2>2, <2>4, SamePairs
    <3> QED BY <2>1, <2>3, <3>1, Stutters DEF PromiseStep
  <2>5. ASSUME NEW f \in Files, Tool!BadFiles' = Tool!BadFiles \cup {f}
        PROVE  PromiseStep
    <3>1. BadPairs' = BadPairs \cup {<<kind, f>>}
      BY <2>1, <2>2, <2>5, BadPairsAre, BadPairsPrimed
    <3>2. kind \in Enabled \ Reported /\ kind \in Tool!Kinds /\ Outcome = "pending"
      <4>1. /\ kind = Head(todo).tool /\ todo \in Seq(OptionTs)
            /\ Head(todo) \in OptionTs /\ kind \in ToolsOf(todo)
        BY <2>1, HeadTail DEF IInv, InHand, TypeOK
      <4>2. kind \notin Reported
        BY <4>1 DEF IInv, Once
      <4>3. exit_code = "none"
        BY <2>1 DEF IInv, Exits
      <4> QED BY <4>1, <4>2, <4>3, MadeIs, AskedFor DEF IInv, Outcome
    <3>3. Promise!Look(kind, f)
      BY <2>1, <2>3, <3>1, <3>2, GivenStays DEF Promise!Look, Reported
    <3>4. Promise!Next
      BY <3>2, <3>3 DEF Promise!Next
    <3> QED BY <3>4 DEF PromiseStep
  <2> QED BY <2>2, <2>4, <2>5
<1>2. CASE EndTool
  <2>1. /\ stage = "tools" /\ todo # <<>>
        /\ reporters' = Append(reporters, [option |-> Head(todo), result |-> result])
        /\ judged' = [judged EXCEPT ![kind] = [good |-> Tool!GoodFiles, bad |-> Tool!BadFiles,
                                              diagnosed |-> Tool!DiagnosedFiles]]
        /\ todo' = Tail(todo) /\ TakeUp(todo')
        /\ UNCHANGED <<inputVars, delivered, exit_code, deltas>>
    BY <1>2 DEF EndTool, reportVars
  <2>2. /\ kind = Head(todo).tool /\ Head(todo) \in OptionTs /\ todo' \in Seq(OptionTs)
        /\ kind \in ToolsOf(todo)
    BY <2>1, HeadTail DEF IInv, InHand, TypeOK
  <2>3. /\ kind \in Enabled \ Reported /\ kind \in Tool!Kinds /\ Outcome = "pending"
        /\ Outcome' = Outcome
    <3>1. kind \notin Reported
      BY <2>2 DEF IInv, Once
    <3>2. exit_code = "none"
      BY <2>1 DEF IInv, Exits
    <3> QED BY <2>1, <2>2, <3>1, <3>2, MadeIs, AskedFor DEF IInv, Outcome
  <2>4. Reported' = Reported \cup {kind}
    <3> DEFINE done == [option |-> Head(todo), result |-> result]
    <3>1. done \in [option : OptionTs, result : Tool!ResultType] /\ done.option.tool = kind
      BY <2>2 DEF IInv, TypeOK, Tool!TypeOK
    <3> HIDE DEF done
    <3>2. /\ DOMAIN reporters = 1 .. Len(reporters) /\ Len(reporters) \in Nat
          /\ DOMAIN reporters' = 1 .. Len(reporters) + 1
          /\ \A i \in DOMAIN reporters : reporters'[i] = reporters[i]
          /\ reporters'[Len(reporters) + 1] = done
      BY <2>1, <3>1, AppendProperties, LenProperties DEF IInv, TypeOK, done
    <3>3. DOMAIN reporters' = DOMAIN reporters \cup {Len(reporters) + 1}
      BY <3>2
    <3> QED BY <3>1, <3>2, <3>3 DEF Reported
  <2>5. BadPairs' = BadPairs
    <3>1. /\ judged'[kind].bad = Tool!BadFiles
          /\ \A k \in Tool!Kinds \ {kind} : judged'[k] = judged[k]
      BY <2>1, <2>3 DEF IInv, TypeOK
    <3>2. judged[kind].bad = {}
      BY <2>3 DEF IInv, Verdicts, Unjudged
    <3>3. (kind' = kind /\ Tool!BadFiles' = Tool!BadFiles) \/ Tool!BadFiles' = {}
      BY <2>1, <2>2, TakesUp DEF toolVars
    <3>4. ASSUME NEW p
          PROVE  p \in BadPairs <=>
                   \/ \E k \in Tool!Kinds \ {kind} : \E f \in judged[k].bad : p = <<k, f>>
                   \/ \E f \in Tool!BadFiles : p = <<kind, f>>
      BY <3>2, BadPairsAre
    <3>5. ASSUME NEW p
          PROVE  p \in BadPairs' <=>
                   \/ \E k \in Tool!Kinds \ {kind} : \E f \in judged[k].bad : p = <<k, f>>
                   \/ \E f \in Tool!BadFiles : p = <<kind, f>>
      BY <2>3, <3>1, <3>3, BadPairsPrimed
    <3> QED BY <3>4, <3>5
  <2>6. Promise!FinishTool(kind)
    BY <2>1, <2>3, <2>4, <2>5, GivenStays DEF Promise!FinishTool, Reported
  <2>7. \E t \in Tool!Kinds : Promise!FinishTool(t)
    BY <2>3, <2>6, Zenon DEF Promise!FinishTool
  <2>8. Promise!Next
    BY <2>7 DEF Promise!Next
  <2> QED BY <2>8 DEF PromiseStep
<1>3. CASE ToolThrows
  BY <1>3, PromiseAborts DEF ToolThrows, Promise!Next, PromiseStep
<1>4. CASE EndTools
  <2>1. UNCHANGED <<inputVars, delivered, deltas, exit_code>> /\ KeepsTools
    BY <1>4 DEF EndTools, reportVars
  <2>2. BadPairs' = BadPairs /\ Reported' = Reported /\ Outcome' = Outcome
    BY <2>1, KeptPairs DEF Reported, Outcome, KeepsTools
  <2> QED BY <2>1, <2>2, Stutters DEF PromiseStep
<1> QED BY <1>1, <1>2, <1>3, <1>4 DEF RunsTools

\* A report that goes out, whole or with its answer lost.
LEMMA Delivery ==
  ASSUME IInv, stage \in Sending, NEW r \in Requested \ delivered,
         UNCHANGED <<inputVars, deltas>>, KeepsTools,
         delivered' = delivered \cup {r}, exit_code' \in {exit_code, "abort"}
  PROVE  PromiseStep
<1>1. Reported = Enabled /\ exit_code = "none"
  BY AllReported
<1>2. Outcome = "pending" /\ Outcome' \in {"pending", "error"}
  BY <1>1 DEF Outcome
<1>3. BadPairs' = BadPairs /\ Reported' = Reported
  BY KeptPairs DEF Reported, KeepsTools
<1>4. Promise!Deliver(r) /\ r \in Reports
  BY <1>1, <1>2, <1>3, GivenStays, AskedFor DEF Promise!Deliver, Reported
<1> QED BY <1>4 DEF Promise!Next, PromiseStep

LEMMA PromiseSends ==
  ASSUME IInv, IInv', SendsReports
  PROVE  PromiseStep
<1>1. CASE EndOutput \/ WriteSummary \/ PostComment \/ PostReview
  <2>1. /\ stage \in Sending /\ stage \in Requested /\ delivered' = delivered \cup {stage}
        /\ UNCHANGED <<inputVars, exit_code, deltas>> /\ KeepsTools
        /\ stage \in {"action_output", "step_summary", "issue_comment", "review"}
    BY <1>1 DEF EndOutput, WriteSummary, PostComment, PostReview, Delivers, Sends, Sending
  <2>2. stage \notin delivered
    BY <2>1 DEF IInv, Sent
  <2> QED BY <2>1, <2>2, Delivery
<1>2. CASE AnswerLost
  <2>1. /\ stage \in Sending /\ stage \in Requested /\ delivered' = delivered \cup {stage}
        /\ exit_code' = "abort" /\ UNCHANGED <<inputVars, deltas>> /\ KeepsTools
        /\ stage \in {"issue_comment", "review"}
    BY <1>2 DEF AnswerLost, Abort, Sends, Sending
  <2>2. stage \notin delivered
    BY <2>1 DEF IInv, Sent
  <2> QED BY <2>1, <2>2, Delivery
<1>3. CASE AssertSupportsComments \/ SendFails
  <2>1. /\ Abort /\ UNCHANGED <<inputVars, pr_number, repo, reportVars, deltas>> /\ KeepsTools
        /\ stage # "ended" /\ stage # "destroy"
    BY <1>3 DEF AssertSupportsComments, SendFails, Sends, Reports
  <2> QED BY <2>1, PromiseAborts DEF Promise!Next, PromiseStep
<1>4. CASE GetCommentId \/ SkipReport \/ \E i \in DOMAIN reporters : WriteOutput(i)
  <2>1. UNCHANGED <<inputVars, delivered, deltas, exit_code>> /\ KeepsTools
    BY <1>4 DEF GetCommentId, SkipReport, WriteOutput, reportVars
  <2>2. BadPairs' = BadPairs /\ Reported' = Reported /\ Outcome' = Outcome
    BY <2>1, KeptPairs DEF Reported, Outcome, KeepsTools
  <2> QED BY <2>1, <2>2, Stutters DEF PromiseStep
<1> QED BY <1>1, <1>2, <1>3, <1>4 DEF SendsReports

LEMMA PromiseEnds ==
  ASSUME IInv, IInv', Ends
  PROVE  PromiseStep
<1>1. CASE GitShutdown \/ DestroyContext
  <2>1. UNCHANGED <<inputVars, delivered, deltas, exit_code>> /\ KeepsTools
    BY <1>1 DEF GitShutdown, DestroyContext, reportVars
  <2>2. BadPairs' = BadPairs /\ Reported' = Reported /\ Outcome' = Outcome
    BY <2>1, KeptPairs DEF Reported, Outcome, KeepsTools
  <2> QED BY <2>1, <2>2, Stutters DEF PromiseStep
<1>2. CASE Return
  <2>1. /\ stage = "return" /\ exit_code' = IF AllPassed THEN "0" ELSE "1"
        /\ UNCHANGED <<inputVars, delivered, deltas>> /\ KeepsTools
    BY <1>2 DEF Return, reportVars
  <2>2. Reported = Enabled /\ delivered = Requested /\ Outcome = "pending"
    BY <2>1, AllReported DEF IInv, Sent, Outcome
  <2>3. BadPairs' = BadPairs /\ Reported' = Reported
    BY <2>1, KeptPairs DEF Reported, KeepsTools
  <2>4. Outcome' = IF BadPairs = {} THEN "green" ELSE "red"
    BY <2>1, RedMeansBad DEF Outcome
  <2>5. Promise!Conclude
    BY <2>1, <2>2, <2>3, <2>4, GivenStays DEF Promise!Conclude, Reported
  <2> QED BY <2>5 DEF Promise!Next, PromiseStep
<1> QED BY <1>1, <1>2 DEF Ends

\* A whole run, seen from outside, is a run of LintPromise.
THEOREM RunKeepsPromise == Spec => KeepsPromise
<1>1. Init => Promise!Init
  BY PromiseInit
<1>2. ASSUME IInv, IInv', [Next]_vars
      PROVE  PromiseStep
  <2>1. CASE Next
    BY <1>2, <2>1, PromiseStarts, PromiseTools, PromiseSends, PromiseEnds DEF Next
  <2>2. CASE UNCHANGED vars
    <3>1. UNCHANGED <<inputVars, delivered, deltas, exit_code>> /\ KeepsTools
      BY <2>2 DEF vars, reportVars, KeepsTools
    <3>2. BadPairs' = BadPairs /\ Reported' = Reported /\ Outcome' = Outcome
      BY <1>2, <3>1, KeptPairs DEF Reported, Outcome, KeepsTools
    <3> QED BY <3>1, <3>2, Stutters DEF PromiseStep
  <2> QED BY <1>2, <2>1, <2>2
<1>3. IInv /\ IInv' /\ [Next]_vars => [Promise!Next]_(Promise!vars)
  BY <1>2 DEF PromiseStep
<1> QED BY <1>1, <1>3, Invariance, PTL DEF Spec, KeepsPromise, Promise!Spec
===============================================================================
