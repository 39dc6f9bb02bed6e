------------------------------- MODULE MCLintRun -------------------------------
(* Two paths.  The inputs are four families, each varying one part of a run   *)
(* and keeping the rest plain: command lines on every event and two           *)
(* repositories; repositories and revisions; machines and the choice of a     *)
(* binary; and variables that are not set.                                    *)
EXTENDS LintRun, TLC

CONSTANTS f1, f2

MCFiles == {f1, f2}
MCStatuses == {"added", "modified", "deleted"}

MCResults ==
  {[exit |-> "zero", out |-> "none"], [exit |-> "nonzero", out |-> "some"],
   [exit |-> "nonzero", out |-> "garbled"],
   [exit |-> "not_started", out |-> "none"]}

MCIregexes ==
  [default |-> [valid |-> TRUE, selected |-> MCFiles], first |-> [valid |-> TRUE, selected |-> {f1}],
   broken |-> [valid |-> FALSE, selected |-> {}]]

-------------------------------------------------------------------------------
Entry(mode, text) == [mode |-> mode, text |-> text]
Old == Entry("blob", "old")
New == Entry("blob", "new")

\* main is at c1, the check-out at c2.
Repository(old, new) ==
  [commits |-> "c1" :> [tree |-> old, parents |-> {}] @@ "c2" :> [tree |-> new, parents |-> {"c1"}],
   branches |-> [main |-> "c1"], tags |-> [v1 |-> "c1"],
   head |-> [branch |-> Detached, id |-> "c2"], big |-> {}]

Both == Repository(f1 :> Old, f1 :> New @@ f2 :> New)
OneDeleted == Repository(f1 :> Old @@ f2 :> Old, f1 :> New)
Retyped == Repository(f1 :> Entry("link", "old"), f1 :> New)
Same == Repository(f1 :> Old, f1 :> Old)
Repositories ==
  {Both, OneDeleted, Retyped, Same, [Both EXCEPT !.big = {"c2"}],
   [Both EXCEPT !.head = [branch |-> "main", id |-> NoCommit]],
   [Both EXCEPT !.head = [branch |-> "unborn", id |-> NoCommit]]}

-------------------------------------------------------------------------------
Host ==
  [plain |-> [clang_format |-> "/usr/bin/clang-format", clang_tidy |-> "/usr/bin/clang-tidy"],
   versioned |-> [k \in Tool!Kinds |-> ("18" :> "/usr/bin/clang-18")],
   files |-> {"/opt/clang", "clang"},
   reply |-> [path \in {"/usr/bin/clang-format", "/usr/bin/clang-tidy", "/usr/bin/clang-18",
                        "/opt/clang"} |-> "18.1.3"]]

Hosts ==
  {Host, [Host EXCEPT !.plain = [clang_format |-> "/usr/bin/clang-format"]],
   [Host EXCEPT !.reply["/usr/bin/clang-18"] = NoVersion],
   [Host EXCEPT !.reply["/usr/bin/clang-tidy"] = Fails, !.reply["/opt/clang"] = Fails]}

Given == [version |-> "18", binary |-> "/opt/clang"]
BinaryChoices ==
  {[enable |-> TRUE], [version |-> "18"], [version |-> "99"], [binary |-> "/opt/clang"],
   [binary |-> "clang"], [binary |-> "/none"], Given}

-------------------------------------------------------------------------------
Off == [enable |-> FALSE]
Plain == [enable |-> TRUE]
Pair(format, tidy) == [clang_format |-> format, clang_tidy |-> tidy]

ToolPairs ==
  {Pair(Plain, Plain), Pair([enable_fastly_exit |-> TRUE], Plain),
   Pair([file_iregex |-> "first"], [file_iregex |-> "broken"]),
   Pair(Off, Plain), Pair(Off, [file_iregex |-> "first"]), Pair(Off, Off)}

Only(reports) == [r \in Reports |-> r \in reports]
ReportChoices ==
  {[target_revision |-> "main"]}
    \cup {Only(reports) @@ [target_revision |-> "main"] :
            reports \in {{"step_summary", "review"}, {"issue_comment"}, {}}}

Line(general, tools) == [info |-> FALSE, general |-> general, tools |-> tools]
Quiet == Line(Only({}) @@ [target_revision |-> "main"], Pair(Plain, Plain))

Env(event, ref) == [event |-> event, ref |-> ref, sha |-> "c2", unset |-> {}]
Envs == UNION {{Env(event, ref) : ref \in RefsOf(event)} : event \in Events}
OnPull == Env("pull_request", MergeRef)

Input(line, environment, machine, repository) ==
  [cmd |-> line, env |-> environment, host |-> machine, git |-> repository]

CommandLineInputs ==
  {Input(Line(general, tools), environment, Host, repository) :
     general \in ReportChoices, tools \in ToolPairs, environment \in Envs,
     repository \in {Both, OneDeleted}}
    \cup {Input([Quiet EXCEPT !.info = TRUE], OnPull, Host, Both)}
    \cup {Input([Quiet EXCEPT !.general = [log_level |-> level] @@ @], OnPull, Host, Both) :
            level \in {"INFO", "warn"}}

GitInputs ==
  {Input(Line(revision, Pair(Plain, Off)), [OnPull EXCEPT !.sha = sha], Host, repository) :
     revision \in [target_revision : {"main", "v1", "c1", "HEAD", "none"}] \cup {<<>>},
     sha \in {"c2", "gone"}, repository \in Repositories}

HostInputs ==
  {Input([Quiet EXCEPT !.tools = tools], OnPull, machine, Both) :
     tools \in {Pair(format, tidy) : format \in BinaryChoices, tidy \in BinaryChoices} \cup
               {Pair(Off, tidy) : tidy \in BinaryChoices}, machine \in Hosts}

EnvInputs ==
  {Input(Line(general, Pair(Plain, Plain)), [OnPull EXCEPT !.unset = unset], Host, OneDeleted) :
     general \in ReportChoices,
     unset \in {{"GITHUB_TOKEN"}, {"GITHUB_OUTPUT"}, {"GITHUB_STEP_SUMMARY"}}}

MCInputs == CommandLineInputs \cup GitInputs \cup HostInputs \cup EnvInputs
===============================================================================
