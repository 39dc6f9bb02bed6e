# A TLA+ model of cpp-linter

cpp-linter is a command-line program that a GitHub workflow runs on a pull
request. It asks libgit2 which files the pull request changed, runs clang-format
and clang-tidy on each of them, and reports what they found: in the output and
the summary of the workflow step, in a comment on the pull request, in a review
of it, and by the exit code of the process.

The program is sequential, but it is not alone. It talks to child processes over
pipes, to GitHub over HTTP, to other runs of the same workflow through the
comments of a pull request, and any stage of it may end with an exception. The
modules here model those parts, check them on small instances with TLC, and
prove with TLAPS, for every instance, each safety property that the checks show.

Paths below are those of the repository; `src/src/...` in `PROJECT.json` is
the directory `src/` of the repository.

## 1. Inventory

| Component | State it keeps | Operations | What is hard about it |
|---|---|---|---|
| **main** (`main.cpp`) | the stage it is at, the exit code | parse options, create tools, fill the context, run the tools, send the reports, shut down | no handler anywhere: an exception or a failed assertion at any stage ends the process, with some reports already out |
| **tool registry** (`tools/base_tool.h`, `tools/base_creator.h`) | the creators, the enabled tools, the reporters | `create_enabled_tools`, `run_tools` | tools run one after the other; a report needs all of them |
| **check loops** (`tools/clang_{tidy,format}/general/impl.cpp`) | the files not yet looked at, `result_t` | `check`, `check_single_file`, `filter_file` | order of an `unordered_map`; four ways to be done with a file, three to leave the loop |
| **child processes** (`utils/shell.cpp`) | two pipes, the two buffers, the exit code | four `execute`, `which` | two processes and a bounded buffer; a child that blocks |
| **GitHub environment** (`github/common.cpp`, `github/common.h`) | the variables of the step, the number of the pull request | `read_env`, `check_env`, `fill_context`, `parse_pr_number` | the number is read early, on a condition, and used late; two variables are first read by the reports |
| **GitHub client** (`github/client.h`) | `comment_id_`; at GitHub: the comments | `get_issue_comment_id`, `add_`, `update_`, `add_or_update_issue_comment`, `post_pull_request_review` | look, then write, with other runs and people in between; lost answers; one page of an answer; a 32-bit id |
| **reports** (`tools/base_reporter.cpp`, `tools/*/general/reporter.h`) | none of their own; they read every `result_t` | write the output and the summary, comment, post a review | success is worked out four times over, from two different fields |
| **review positions** (`reporter.h`, `utils/git_utils.cpp`) | `pos` over the hunks of a patch | `make_review_comment`, `is_row_in_hunk` | rows of a file against lines of a diff; bounds |
| **git wrappers** (`utils/git_utils.*`) | libgit2's global state; an index in memory and on disk, references, `HEAD` | `setup`, `shutdown`, `open`, `add_files`, `remove_files`, `write`, `create_head`, branches, revisions, diffs, deltas, patches | what is staged, what is written and what is committed; the order of two revisions through four calls |
| **git context** (`context.cpp`, `main.cpp`) | deltas, patches, changed files, the handles it owns | `fill_git_info`, `check_repo_is_on_source` | a path with two deltas; identity of cached objects; a diff of commits, and tools that read the working tree |
| **options** (`program_options.*`, `tools/clang_*/clang_*.cpp`, `tools/util.h`) | the options given and the defaults, the `option_t` of each tool | `parse`, `fill_context`, `create_option`, `create_tool` | exclusive options, three ways to find a binary |
| **output parsers** (`impl.cpp` of both tools) | none | `parse_stdout`, `parse_replacements_xml`, `get_position` | text of other programs |
| **environment cache** (`utils/env_manager.*`) | a map of variables behind a lock; the program never fills it | `get`, `set_cache` | stale entries, if it were filled |
| **small helpers** (`utils/std.h`, `utils/error.h`, ...) | none | throwing, trimming, joining | nothing |

How they interact. `main` calls everything else. `run_tools` calls `check` of
each enabled tool; `check` calls `shell::execute` once for each file and turns
the answer into one entry of its `result_t`. Each tool leaves behind a reporter
which holds that result; the reports read all reporters after the last tool has
ended. The GitHub client is called from two of the reports and is the only part
that shares state with another process of the same program: the comments of the
pull request. `make_review_comment` joins the diagnostics of clang-tidy with the
patches which the git context took from libgit2.

What makes each component correct is stated with its module below, and the
hazards the properties answer to are listed, each at its line, under `hazards`
in `PROJECT.json`.

## 2. Modules

```
LintVerdict  <== LintTool <-- LintRun ==> LintPromise        ShellExecute
 (promise)      (loop)         (main)     (promise)          GithubComments
                            /    |    \                      ReviewPosition
                   GithubEnv ToolOptions GitObjects          TidyOutput
                                            |
                                        GitContext
   ==>  implements      <-- and lines:  is used by
```

`LintTool`, `ShellExecute`, `GitObjects`, `GitContext`, `LintRun`,
`GithubComments`, `ReviewPosition` and `TidyOutput` each have a module of theorems,
`LintToolProofs` and so on (section 5). `LintRunProofs` uses those of `LintTool` and
`GitObjects`, as `LintRun` uses their models. A module named `MC...` gives the
constants of a run.

A definition whose name ends in `Slip` is a plausible mistake in the definition
below it. No specification uses one: they serve to see that each property fails
when the code is wrong in the way the property is about (`mutants` in
`PROJECT.json`).

### LintVerdict, LintTool: the check loop

`LintVerdict` is what a tool promises to its caller. It learns one file at a
time whether it is good or bad, says "passed" only when all required files are
known to be good, "failed" only when one is known to be bad, and after an
exception nothing.

`LintTool` is the loop of `clang_tidy_general::check`, which is also that of
`clang_format_general::check`. `deltas` is the context's map of changed files;
`unvisited` is the rest of the `for` over them (any order, as the container has
none); `result` is `result_t`; `execs` are the children run so far. One action
stands for each way an element of the loop ends: `SkipDeleted`, `IgnoreFile`,
`RejectRegex` (the iregex is compiled at its first use and throws there),
`PassFile`, `FailFile`, `FailFast`, `ThrowFile`; `Finish` is the code after the
loop. The two tools differ in `Passes` and `Throws`: clang-tidy passes with exit
code 0 whatever it prints; clang-format passes with exit code 0 and no
replacement, and throws on replacements that are not XML. What a child answers is
an input: an exit code and a class of output. `HasDiags` says whether a diagnostic
was read in it: clang-tidy may fail a file and print none that is, and `diagnosed`
are the failed files with one, the only ones its reports name.

### ShellExecute: running a child

The parent reads standard output to its end, then standard error, and waits. The
child writes units to two pipes of `Capacity` units and blocks when one is full;
it may be killed between any two writes. A unit is named by its place in the
child's output, so that loss, repetition and reordering are visible. `program`,
`pos`, `child`, `status` and the child's actions stand for the child and the
kernel, which are not code of the repository; everything named after `parent` is
`shell::execute`. A read error other than end of file throws, and the destructor
of the process object ends the child.

### GitObjects, GitContext: the repository and what a run takes from it

`GitObjects` holds the operators that other modules share: what a revision names
(`Single`, in the order in which libgit2 looks), what converts to a commit, the
commit of `HEAD`, and the difference of two trees: a function from the paths it
names to the statuses of their deltas, in the order of the diff. The maps of the
code have one entry for a path: `deltas` assigns, so that the last delta of a
path stays (`Deltas`); `create_from_diff` inserts, so that its first patch stays
(`Patches`). A path has two deltas when its type changes (a link becomes a
file): the options of the diff ask for no type changes, and libgit2 then gives
a deletion and an addition. `SameObject` is the comparison of two handles as
pointers, which holds only for a commit that libgit2 caches; `big` are the
commits it does not.

`GitContext` is a repository in the hands of the wrappers, and a run on it. Files
are staged in `index`, `add_files` and `remove_files` make its tree and leave
`disk` alone, `create_head` commits that tree on top of `HEAD`; the program's tests
build their repositories this way. `AddFilesThrows` leaves behind what it had
staged, and `RemoveFilesThrows` has taken a file out of the index that it could not
remove from the file system; `Reopen` reads the index from disk. Branches, tags and the check-out are
moved by the wrappers or, from outside, by git. At any point `StartRun` picks two
revisions and the rest is `fill_git_info` and `check_repo_is_on_source`. `touched`
is a history variable: the paths staged or lost since the commit of `HEAD`.

### ToolOptions: the command line and the tools on the machine

Options that are given are a function from names to values; `Parse` adds the
defaults the code registers. `Binary` has the three branches of `create_option`:
by version (`clang-tidy-18`), by the binary that is given, or the one on the PATH.
`GetVersion` runs it: a binary that fails has the version "", one whose answer has
no version throws, and so does a bare name that does not start. What may throw is
a set, empty when it does. The two tools' creators are the same code twice and
are one definition here.

### GithubEnv, LintPromise, LintRun: a whole run

`GithubEnv` has the event, the variables `check_env` insists on and those it does
not, and reads the number of the pull request off `GITHUB_REF` the way
`parse_pr_number` does, with the prefix-of-digits reading of `std::stoi`. It
gives each event only the refs GitHub gives it. The type of the ref is read from
`GITHUB_REF` as well (`github/common.h:97`); nothing uses it.

`LintRun` is `main`. A run starts from one of `Inputs`: a command line, an
environment, a machine and a repository, none of which it changes. `stage` is the
statement it is at, in the order of the code; the two creators are called in
the order in which `collect_tool_creators` lists them and leave an `option_t` in
`todo`; `FillGitInfo` takes the diff of the target and the source and gives the
tools its deltas; `CheckHead` compares the source with `HEAD`; `run_tools` is an
instance of `LintTool` over the tool in hand (`Tool == INSTANCE LintTool`), taken up
anew for each enabled tool; each report is a stage of its own, with its failure
(`SendFails`) and, for the two that go over the network, the answer that is lost
after the request was carried out (`AnswerLost`). `said` is what the texts of the
reports hold: the number of failed files of a tool (`Says`: a line of the output, a
row of the table in the comment), the files named (`Lines`: in the summary if
anything failed, in the comment for each tool that did not pass) and the title
of the summary. The two reporters name different files (`Brief`): clang-format's
every failed one, clang-tidy's those it has a diagnostic of. Each reason to end early is an
action with the condition the code has: `NoSuchLevel`, `CreatorThrows`, `NoTarget`,
`NotSet`, `RefIsNoPr`, `GitRefuses`, `AssertSupportsComments`, `ToolThrows`. Two are
free: `SetupFails`, a command line that cannot be parsed or a workspace that is
no repository, and `SendFails`. `repo` counts calls of `git_libgit2_init` and the
handles the context owns.

`LintPromise` is what the workflow may rely on: every enabled tool first, then
every requested report once, then green or red, red exactly if some file was
found bad; or an error, and nothing after it.

### GithubComments: the comment of several runs

Each run asks for the comments, remembers an id or none, and adds or updates.
Between these two requests other runs go on, other people comment or delete, and
an answer to a request that was carried out may be lost. `Page` is what one GET
lists, `IdSize` the number of values of `comment_id_` (`std::uint32_t comment_id_ = -1`), and
`Truncated` the conversion of an id to it. People's comments come with a login or
without one; the code takes the first without one for its own (`IsOurComment`).
`seen` and `unseen` are history variables. The comments themselves are GitHub's and not code of the repository.

### ReviewPosition: where review comments go

The two nested loops of `make_review_comment`: for each diagnostic (`diag`) and
each hunk (`hunk_idx`), either the row is in the hunk and a comment is made
(`CommentOnHunk`) or `pos` grows by the lines of the hunk (`PassHunk`). As in the
code, a hunk that got the comment is not added to `pos` and the loop goes on
after it. `IsRowInHunk` has the code's bound, which is one row too wide. Any two
hunks of a patch are in the order of their rows with an unchanged row between
them, and each changes something (`WellFormed`); libgit2 makes them so. A line of a
hunk is context, an addition, a deletion, or the mark "\ No newline at end of
file", which libgit2 counts among the lines of the hunk (`NumLines`) and which
stands after the last row of the old or of the new file (`MarksFit`). `DiffLines`
are the lines of the diff as pairs of a hunk and a line of it, over which the
properties count, and `TextPlace` where such a line is in the text of the patch,
which has an "@@" line before each further hunk; the code has only `pos`.

### TidyOutput: reading clang-tidy's output

`parse_stdout` takes one line at a time: a header starts a diagnostic, any other
line joins the details of the last one, and lines before the first header are
dropped. `next` is the line in hand. The text of a line is a sequence of words and
of the marks `:`, `[` and `]`; `Split` is the code's split at colons, its parts lying
between one colon (`Cut`) and the next; `IsHeader` has its conditions, `Header` its
fields. The details are the lines that were appended, in the code joined to one
string. What clang-tidy prints is not code of the repository: an `OutputLine` is the
header of a diagnostic, a note or a line of source code, and `Text` its words.
Source code is any text of `CodeTexts`, one with colons or one that looks like a
header (`Lookalike`) included: the parser takes the latter for a diagnostic, and
the model does as well. The instance prints blocks of a header with source code
and a note under it; the proofs take any sequence of lines.

## 3. Runs

| Run | Question | Bounds |
|---|---|---|
| `tool_loop` | Is the verdict right, do the numbers, the commands and the early exit agree with it, does the loop end, and does it implement `LintVerdict`? | three paths; both statuses the loop tells apart (it compares with "deleted" only); every option; one answer for each way an answer is judged |
| `shell_execute` | Is the result whole and in order, and when can `execute` hang? | pipes of two units, at most five writes in every order |
| `git_context` | Which files are changed or deleted, where do patches and deltas part, do the tools read the source, what does a commit hold? | two paths, one with two texts and a link; two commits (cached or not), two branches, a tag; two moves of references |
| `lint_run` | Do exit code, reports and answers of the children agree with what was asked and with the two commits, with a failure possible anywhere; is the tool that ran the one that was asked for; is the pull request known when it is needed, does the run end, does it implement `LintPromise`? | two paths, 801 inputs in four families (below) |
| `comments_on_any_event` | Does `get_issue_comment_id` meet its assertion? (no) | as `lint_run` |
| `handles_after_shutdown` | Does `git::shutdown` come last? (no) | as `lint_run` |
| `number_of_target_event` | Is the number that is read that of the pull request? (no) | as `lint_run` |
| `issue_comment` | When can a second comment appear, is "doesn't comments yet" true, which comments of other people are written over, does every run end? | two runs, each started at most twice; four comments ever; pages of two; ids of three bits starting two below the value for none |
| `review_position` | Is every row the diff shows commented once, at which position, in which order? | patches of one hunk of three lines or two hunks of two lines, with and without a newline at the end of the file; two diagnostics on any row |
| `review_past_hunk` | Are comments made on rows of the diff only? (no) | as `review_position` |
| `tidy_output` | Which diagnostics are read, with which fields, and where does every other line go? | up to two diagnostics of any kind, up to three of fewer kinds; texts without marks, with `::`, with brackets; code without marks, with `::`, in the shape of a header |
| `tidy_output_with_colons` | Are all diagnostics read? (no) | as `tidy_output` |

Why these bounds are enough. *Three files* are the least with one file before, one
at and one after the failing file of an early exit; the statuses and answers are
one of each class that a guard of the loop tells apart. *Pipes of two units and
five writes* let either pipe be empty, partly full and full, refill after a
read, and overflow while the other is being read. *Two tools and two files* give
a second tool that throws or stops early after a first that passed or failed.
The *inputs* of `lint_run` vary one part of a run at a time and keep the others
plain: command lines with each report alone, with another and none, on every
event and ref, over a repository with an added and one with a deleted file, and
log levels; revisions of every kind over seven repositories, with a type change,
no change, an uncached commit, a `HEAD` on a branch, elsewhere and unborn; every
pair of ways to choose the two binaries on four machines; and each variable
that is not set, of those the code tells apart. *Two commits* are the two of a
diff, and the second shows what staging before the first left behind; *two
branches, a tag and two moves* put a target on, before and beside the source and
`HEAD` on either, on neither and on a branch not yet born. Files are staged
only while a commit is left, since no run reads the index. *Two runs with a
second attempt* are the least in which a run overtakes another between its two
requests, and in which an answer is lost and the run started again; *four
comments* on *pages of two* put a comment of the runs beyond the page, and let
the ids reach the value for none and wrap. *Two hunks* let a comment in one
meet `pos` of the other, *two diagnostics* let `pos` be carried over from one to
the next, and a hunk of three lines holds a deletion before, between or after
rows that are shown. *Three printed diagnostics* put one that is dropped before,
between and after others.

The bounds named in modules are `MaxWrites` (writes of a child), `CommitIds` and
`MaxMoves` (commits ever made, moves of references by hand), `MaxComments` and `MaxAttempts` (comments ever made, starts of a run), `MaxDiags` and `MaxRow`
(diagnostics and rows). The runs say `CHECK_DEADLOCK FALSE` because each of the
systems ends: a returned `execute`, an ended process, a finished loop. That
nothing stops too early is what `Terminates`, `HangsOnlyOnStderr`,
`EndsWhenStderrFits`, `RunEnds` and `RunsEnd` are for.

### What the runs show

* The check loops do what they should: `VerdictSound`, `Accounting`,
  `FailuresReproducible`, `RunsOncePerRequiredFile` and `FastExitStops` hold on
  every path through them, and the loop implements `LintVerdict`.
* `shell::execute` loses nothing and has one way to hang: a child that fills the
  pipe of standard error before it closes standard output
  (`HangsOnlyOnStderr`). Every child whose standard error fits one pipe is
  safe (`EndsWhenStderrFits`). clang-tidy writes its statistics and the errors
  of its configuration there; 64 KiB is a lot, but nothing bounds it.
* A run is green only when every enabled tool answered "good" for every file that
  differs between the two commits, is in the source and passes the filter, and
  reports never disagree with the exit code, although each derives success
  anew (`GreenMeansChecked`, `ReportsTruthful`, `KeepsPromise`). The output and the
  comment give the number of failed files of every tool. The summary gives no
  number: it names failed files, and one that clang-tidy failed without a
  diagnostic that is read (a crash, a text with a colon) appears in it only by
  the title that says that something failed, and in the comment only in the
  number; `Undiagnosed` in `ReportsTruthful` are those files. The files are
  stated from the two trees and not from the diff, so that the order of the
  revisions, paths with two deltas and the check of `HEAD` are part of the claim.
* Every verdict is that of the binary that was asked for, and a command line with
  both a version and a binary never gets that far (`ToolAsAsked`).
* The changed files are those at which the trees differ, and a file counts as
  deleted exactly when the source lacks it (`DeltasTellTheTrees`). Patches and
  deltas agree but for a path whose type changed: its delta says added, so the
  tools run on it, and its patch deletes, so a review has no line of it to comment
  on (`PatchAgreesWithDelta`). Once `check_repo_is_on_source` has passed, the tools
  read what the source changed (`ReadsTheSource`). It fails as well for a source
  whose commit object is too large for libgit2's cache (4096 bytes): the handles
  differ (`main.cpp:73`). The message of its exception is made before the
  comparison, from a `HEAD` that may be null.
* A commit of the wrappers differs from the one before only in what was staged
  since, or was staged, committed and lost because the index was never written
  (`CommitsOnlyStaged`): `add_files` leaves that to the caller, and a repository that
  is opened again takes back with its next commit what the index on disk lacks.
* There are two comments of the program only if one run asked before the other
  wrote, or if GitHub's answer did not list the first (`OneCommentUnlessUnseen`).
  A lost answer alone never leads to a second one. The properties of
  `GithubComments` that depend on ids are stated up to the moment at which an id
  no longer fits `comment_id_` (`IdsFit`); the instance goes beyond it.
* A run never writes over a comment that GitHub says is somebody else's. It does
  write over a comment without a login that another person wrote, if that is the
  oldest the run is shown that could be its own; never over one that comes after a
  comment of the runs it was told of (`OverwritesOursOrNobodys`).
* The position of a review comment on a row that the diff shows is too small by
  the number of hunk headers after the first and of lines without a row above it in
  its hunk, deleted lines and the marks of a missing newline (`PositionLag`): it is
  right only for rows of the first hunk with no such line above them. Comments on
  shown rows keep the order of the rows all the same (`PositionsKeepOrder`).
* Of what clang-tidy prints, the parser reads exactly the diagnostics whose text
  has no colon, in order and with the right place, and source code that looks
  like one (`PlainDiagnosticsRead`); what it does not read, the lines of a
  dropped diagnostic too, ends up in the details of the diagnostic before it
  (`DetailsComplete`). A `[` in the text moves the rest of the text to the name of
  the check.

Where the code and what is said of it part, a run of its own shows it:

| Finding | Where |
|---|---|
| On `push` and `workflow_dispatch` the default options lead to an assertion that only pull request events satisfy. | `github/client.h:61`, `program_options.cpp:60` |
| `git::shutdown` "must be used after all git operations"; the context frees its handles after it. The model only records the order; it claims nothing about what libgit2 does then. | `main.cpp:165`, `utils/git_utils.h:95-96` |
| On `pull_request_target`, `GITHUB_REF` is a branch; its third part, if it starts with digits, becomes the number of the pull request. | `github/common.cpp:23-29`, `github/common.h:87-90` |
| Diagnostics whose text holds a colon are dropped, although the result is said to hold all of them. | `tools/clang_tidy/general/impl.cpp:44`, `result.h:52` |
| A diagnostic on the row after a hunk is taken to be inside it. | `utils/git_utils.cpp:977` |

Met on the way, and left as notes because no text of the repository settles what
should happen: a target that names an annotated tag is refused, since nothing
peels it (`git_utils.h:468`), while `diff::changed_files` says that a revision may be
a tag (`git_utils.h:350`) and that it returns modified and added files, with
deleted ones among them; the account whose comments the program takes for its
own is a constant marked "For test" (`github/common.h:35`), so that under
another token it does not know its own comment.

## 4. Fairness

* `LintTool`, `LintRun`, `ReviewPosition`: weak fairness of the next-state
  relation. The code is sequential and has no wait of its own; it goes on as
  long as the calls it makes return. For a child process that is an assumption,
  and `ShellExecute` says when it holds; for HTTP it is justified by the default
  timeouts of the client library, whose expiry is one of the failures.
* `ShellExecute`: weak fairness of the child and of the parent, separately,
  which is what the scheduler of the operating system gives. No fairness for
  `Killed`, `SpawnFails` and `ReadFails`: nothing has to go wrong. A child's
  output is finite in the model; a child that writes for ever makes `execute`
  run for ever.
* `GithubComments`: weak fairness of the steps of each started run. None for
  starting runs and for other people.
* `GitContext` and `TidyOutput`: none; only safety is asked of them.

## 5. Proofs

Eight modules hold the theorems, and `tlapm` checks every one. Nothing is assumed but
the named assumptions on the constants, which TLC evaluates on the runs:

| Assumption | What it says | Why the code meets it |
|---|---|---|
| `LintToolAssumption` | the files are finitely many; statuses and answers are among those the code tells apart | they are keys of a map and an enumeration |
| `ShellAssumption` | a pipe holds at least one unit; a child's writes go to one of the two streams | POSIX |
| `LintRunAssumption` | every input is a command line, an environment, a machine and a repository; a regex is valid or not and selects files; the loop is given all statuses | types of the program |
| `GitContextAssumption` | ids, branches, tags and the reserved names are different; "main" is a branch name | an id is a hash; `HEAD` is no branch |
| `CommentsAssumption` | sizes and bounds are positive numbers | |
| `ReviewAssumption` | patches are well formed | libgit2 makes them |
| `TidyOutputAssumption` | the output is made of headers, notes and code, their texts of words and marks; paths and numbers are no marks | a path with a colon would be split in two: what it does to a header is not claimed |

One hypothesis stands in theorems: those of `GithubComments` about the runs' one
comment and about the comments written over say `Account = OurName`, since the
code takes for its own what `our_name` wrote (`github/common.h:35`) and under
another account knows no comment as its own. The run has it.

A bound that TLC needs, as `MaxWrites`, `MaxMoves`, `MaxComments`, `MaxAttempts` and
`MaxDiags`, is a constant of any value in the proofs.

In each module but `GitObjectsProofs` the theorem `Invariance` says that a conjunction
`IInv` always holds, by `Init => IInv` and one lemma for each action or group of
them; what it consists of, and why the property alone is not enough, follows. Every `IInv` was checked with TLC first.

**LintToolProofs.** None of the invariants is inductive alone: that a verdict is
right follows from what the loop has done with each file before. The
strengthening ties the three histories together: `passes`, `fails` and `ignored`
hold exactly the visited files that were answered good, answered bad or
filtered out; each child run is on a visited required file, with at most one
exception (the child that threw); the visited files are those classes and the
deleted ones. From it follow, by the code after the loop, `VerdictSound`
(a passed loop has visited all and failed none; an early exit has failed one),
`Accounting` (the classes are disjoint and `ignored` has no duplicate, so
cardinalities add up), `RunsOncePerRequiredFile`, `FailuresReproducible`, and the
action property `FastExitStops` (after a failure with the option the phase is
"done", where no child is run). `LoopImplementsVerdict` shows that every
step of the loop is a step of `LintVerdict` or a stutter under the mapping of
`RefinesVerdict`: running a child is learning, ending the loop is concluding,
an exception is aborting.

**ShellExecuteProofs.** The invariant says of each stream that what the parent
holds followed by what the pipe holds is the increasing sequence of the writes
made to it, and relates the parent's place to the child's: past standard output
only when the child has exited and its pipe is drained. `Conservation` and
`ReturnsWholeResult` follow. `OnlyHang` is the argument that if none of the
guards of the child and the parent holds, the parent must be in `read_out`, the
child at a write to a full standard error, and then the program writes more
units to it than a pipe holds, since those in the pipe are distinct writes and
the one at hand is one more.

**GitObjectsProofs.** `DeltasOfPathCases` says what the diff gives for a path, and
`DiffTellsTheTrees` what the two maps make of it: their paths are those that
differ, the last delta says "deleted" exactly when the new tree lacks the path, and
the last delta and the first patch are of one kind but for a path whose mode
changed. The two modules below cite it.

**GitContextProofs.** That a commit holds only what was staged speaks of a step, and
`touched` starts anew with each commit. What has to be carried is
`IndexTouched`: while the repository is being built, the index differs from
the tree of `HEAD` in touched paths only; and `Unborn`: while `HEAD` is on no commit
although there are some, everything counts as touched, since its branch may be
created at any of them. They hold when the index is reopened, because the paths
lost are then counted as touched, and when `HEAD` moves. The operations on
references change only which commits there are names for;
`CreateHeadMakes` is the lemma for the commit. For a run, `TakenFromDiff` keeps
what was filled in equal to the diff of its two revisions in the repository as
it is then, and `HeadChecked` the comparison with `HEAD`; the three invariants
follow from them and `DiffTellsTheTrees`.

**LintRunProofs.** `GreenMeansChecked` speaks of the end of a run and rests on all of
it. `IInv` follows the facts from one stage to the next: `Ordered` and `Once` (every
enabled tool is in `todo` or has its reporter, one of the two and once, and `todo` is
empty after the tools), `InHand` (the loop is that of the next tool, with its
options), `FilesKnown` (the loops get the files of the diff), `Loop!IInv` (the
invariant of `LintToolProofs` for the loop in hand), `Verdicts` (a `result_t` says what
the children of its tool answered), `Honest` and `Sent` (what is told, and which
reports are out at which stage), `Addressed`, `Initialised` and `Exits`. The loop
is not proved again: `LintRun` takes its steps from an instance of `LintTool`, and
`LoopNext` is the theorem about that instance. What its lemmas say of one step
(`OneBadFileAtATime`) becomes, in `RunKeepsPromise`, a step of `LintPromise`: a
child's bad answer is a bad file found, the end of the loop a tool finished, a
request carried out a report delivered, each other step a stutter or the error.
`RunEnds` is not part of the promise that is proved, which is safety.

**GithubCommentsProofs.** `IInv` says that GitHub gives each id once (`IdsInOrder`) and
that a run remembers an id which was given and is not of somebody else's
comment (`Remembered`), as long as ids fit: then `Truncated` is the identity
(`FittingIdStays`), and an id is never mistaken for the value for none. `FoundIs`
says what a look finds. `NotYetIsTrue` and `OneOwn` (two comments of the runs are
one unless a run wrote unseeing) are inductive together and relative to `IInv`:
a run that adds was told of none, so that either there was none or it is unseeing.
The number of runs is any, and so is the page.

**ReviewPositionProofs.** The code never counts comments or lines; the proof does.
`PosCounts` says that `pos` is the number of lines of all hunks passed by unless the
diagnostic has its comment, `CommentsFit` and `FitsCommented` that comments are
exactly the pairs of a diagnostic and a hunk that were compared and fit.
`OneHunk`, that a row fits one hunk at most although the bound is one row too wide,
needs the unchanged row between hunks; from it follow `EveryShownRowOnce` and, with
`LinesAbove` (the lines above a line are those that show a row and those that show
none), `PositionLag`. `PositionsKeepOrder` is then arithmetic on lines: between two shown
rows there are at least as many lines as rows.

**TidyOutputProofs.** The centre is a lemma about the parser and what clang-tidy
prints: `HeaderIffTaken`, that the five conditions of `IsHeader` hold of exactly the
header lines without a colon in the text and of the code that looks like one, by
counting colons (`Cut`); `HeaderSays`, that the fields of the former are then
those printed; and `HeaderTyped`, that those of any line are made of its words.
The invariant follows the lines read: as many diagnostics as lines taken for
headers (`AllFound`), `needs_details` exactly when there is one (`Needed`), each of a
plain header saying what its line says (`HeadersSay`), with the lines since as its details (`DetailsKept`).

**Model-checked only.** Liveness under fairness (`Terminates`, `RunEnds`, `RunsEnd`,
`EndsWhenStderrFits`) and everything that would need ENABLED are out of the
prover's reach and stay with TLC; `Moves` spells out the guards so that
`HangsOnlyOnStderr` is an invariant and can be proved. The five runs that expect a
violation are about what does not hold. The recursion of the code's loops is in
actions; no module here declares a RECURSIVE operator, and `SequencesExt` is taken
for operators without one, so that nothing about data is left to induction.

## 6. What the model leaves out

* The wording of reports, names of temporary files, logging, and the options that
  are only handed on to the command lines of the tools.
* The stream state of `GITHUB_OUTPUT` and of the summary: the code looks whether
  the file opens, never whether the write succeeds, and the model delivers a
  text once its file is open.
* Assertions count as live: `CMakeLists.txt` line 14 sets the build type Debug.
* The order of two runs of different commits: neither the code nor its
  documentation orders them.
* What libgit2 does with a handle that is freed after the shutdown.
* Local changes in the working tree: the tools are taken to read the tree of `HEAD`,
  and `ReadsTheSource` says nothing of a checkout that differs from it.
* `parse_stderr`, and the git wrappers for configuration, status, signatures, blobs
  and the like: each hands its arguments to one function of libgit2, and neither
  the program nor the construction of a repository depends on them.
* The rows and columns of clang-format's replacements: nothing reads them. That
  replacements which are not XML throw, and that there are any, is in `LintTool`.
* The cache of `env_manager`: the program never sets it, so that `get` is `getenv`
  (`IsSet`). The lock around it has nothing to exclude in a program of one thread.
* The paths of the binaries other than as names: `which` keeps a name that it finds.
* `action.yml` and the rest of the packaging, which run before the program and after
  it. Reading it, two things stood out: the options are built into one string and
  passed on in quotes, and the outputs name a step `on_unix` while the step's id
  is `on_linux`.

Of libgit2 the model assumes what its documentation says of revisions, references
and diffs, and two facts of its implementation: its cache keeps no commit of 4096
bytes or more, and a type change that was not asked for is a deletion followed by
an addition.
* Tests, documentation, and the CMake and shell code around the program.

## 7. Plan

Done, in this order: the check loop and its promise; child processes; proofs of
both; the whole run and its promise; the issue comment; review positions; the
output of clang-tidy; the repository and the git context; the command line, the
environment and the machine, composed with the run.

Then the proofs of the rest, in the order of section 5. For them some definitions were
restated so that the prover can reason about them, with the same meaning: diffs as
functions, lines of output instead of blocks, cuts at colons instead of folds.

Next, most important first:

1. Steps that the liveness properties rest on and that need no fairness: a measure
   that each step of `LintTool`, `ReviewPosition` and `LintRun` decreases, as action
   properties checked by TLC and proved.
2. A proof that `ShellExecute` refines a call that is atomic for its caller, which
   would join it with the loop: `LintTool` takes the answer of a child in one step.
3. `TidyOutput` composed with `ReviewPosition`: the reports take the row of a
   diagnostic and not its path (`reporter.h:85`), so that one in an included
   header is reported under the file that was checked.
