---------------------------- MODULE GithubComments ----------------------------
(****************************************************************************)
(* The comment that runs keep on a pull request: comment_on_github_issue    *)
(* and the github::client it uses, for several runs of one pull request at  *)
(* once.  A run looks for a comment of its account, then adds one or writes *)
(* over it; between the two requests other runs and other people go on.     *)
(****************************************************************************)
EXTENDS Integers, FiniteSets, FiniteSetsExt

CONSTANTS
  Runs,         \* the runs of the workflow on this pull request
  Account,      \* the login the token of the runs belongs to
  PageSize,     \* the comments that GitHub lists without being asked for more
  IdSize,       \* the values that comment_id_ can have: 2^32
  FirstId,      \* the id of the first comment
  MaxComments,  \* bound: comments ever made
  MaxAttempts   \* bound: attempts of one run, "re-run job" included

ASSUME CommentsAssumption ==
  /\ {PageSize, IdSize, MaxAttempts} \subseteq Nat \ {0}
  /\ {FirstId, MaxComments} \subseteq Nat

\* our_name in common.h.
OurName == "emmett2020"

\* comment["user"]["login"]; "" for a comment whose user GitHub does not give.
Logins == {Account, "someone", ""}

VARIABLES
  comments,    \* GitHub: the comments of the pull request, by id
  next_id,     \* GitHub: the id of the next comment
  pc,          \* where each run is
  comment_id,  \* client::comment_id_
  attempts,    \* how often each run was started
  seen,        \* history: the runs' own comments among those the run was told of
  unseen       \* history: a run added a comment next to one it was not told of

serverVars == <<comments, next_id>>
vars == <<serverVars, pc, comment_id, attempts, seen, unseen>>

Ids == FirstId .. FirstId + MaxComments - 1
Comment == [login : Logins, text : Runs \cup {"other"}]

\* std::uint32_t comment_id_ = -1, and the conversion of every id to that type.
NoId == IdSize - 1

\* The id kept as it came (a plausible mistake; no specification uses it).
TruncatedSlip(id) == id

Truncated(id) == id % IdSize

TypeOK ==
  /\ DOMAIN comments \subseteq Ids
  /\ \A id \in DOMAIN comments : comments[id] \in Comment
  /\ next_id \in FirstId .. FirstId + MaxComments
  /\ pc \in [Runs -> {"idle", "asking", "writing", "done", "failed"}]
  /\ comment_id \in [Runs -> 0 .. NoId]
  /\ attempts \in [Runs -> 0 .. MaxAttempts]
  /\ seen \in [Runs -> SUBSET Ids]
  /\ unseen \in BOOLEAN

NoComments == [id \in {} |-> [login |-> "", text |-> "other"]]

Init ==
  /\ comments = NoComments
  /\ next_id = FirstId
  /\ pc = [r \in Runs |-> "idle"]
  /\ comment_id = [r \in Runs |-> NoId]
  /\ attempts = [r \in Runs |-> 0]
  /\ seen = [r \in Runs |-> {}]
  /\ unseen = FALSE

-------------------------------------------------------------------------------
(* GitHub and the other people on the pull request.                         *)

HasRoom == next_id < FirstId + MaxComments

With(login, text) ==
  [id \in DOMAIN comments \cup {next_id} |->
     IF id = next_id THEN [login |-> login, text |-> text] ELSE comments[id]]

SomeoneComments ==
  /\ HasRoom
  /\ \E login \in {"someone", ""} : comments' = With(login, "other")
  /\ next_id' = next_id + 1
  /\ UNCHANGED <<pc, comment_id, attempts, seen, unseen>>

SomeoneDeletes(id) ==
  /\ id \in DOMAIN comments
  /\ comments' = [i \in DOMAIN comments \ {id} |-> comments[i]]
  /\ UNCHANGED <<next_id, pc, comment_id, attempts, seen, unseen>>

\* The oldest PageSize comments, which is what one GET answers.
Page(list) == {id \in DOMAIN list : Cardinality({i \in DOMAIN list : i < id}) < PageSize}

-------------------------------------------------------------------------------
(* The runs.  A definition whose name ends in Slip is the one after it with  *)
(* a plausible mistake; no specification uses it.                            *)

\* A push, or "re-run job" on a run that has ended: a new process each time.
StartRun(r) ==
  /\ pc[r] \in {"idle", "done", "failed"}
  /\ attempts[r] < MaxAttempts
  /\ pc' = [pc EXCEPT ![r] = "asking"]
  /\ comment_id' = [comment_id EXCEPT ![r] = NoId]
  /\ attempts' = [attempts EXCEPT ![r] = @ + 1]
  /\ UNCHANGED <<serverVars, seen, unseen>>

\* Whoever wrote it.
IsOurCommentSlip(c) == TRUE

\* A comment without a login counts as ours.
IsOurComment(c) == c.login = "" \/ c.login = OurName

\* find_if stops at the first one; none leaves comment_id_ as it was.
FoundId(list) ==
  LET ours == {id \in Page(list) : IsOurComment(list[id])}
  IN  IF ours = {} THEN NoId ELSE Truncated(Min(ours))

\* The answer is thrown away.
FoundSlip(list) == NoId

Found(list) == FoundId(list)

\* The runs' own comments.
Own(list) == {id \in DOMAIN list : list[id].login = Account}

GetIssueCommentId(r) ==
  /\ pc[r] = "asking"
  /\ comment_id' = [comment_id EXCEPT ![r] = Found(comments)]
  /\ seen' = [seen EXCEPT ![r] = Own(comments) \cap Page(comments)]
  /\ pc' = [pc EXCEPT ![r] = "writing"]
  /\ UNCHANGED <<serverVars, attempts, unseen>>

\* The answer to a request that was carried out may still be lost.
Answered(r) == pc' \in {[pc EXCEPT ![r] = s] : s \in {"done", "failed"}}

AddIssueComment(r) ==
  /\ pc[r] = "writing"
  /\ comment_id[r] = NoId
  /\ HasRoom
  /\ comments' = With(Account, r)
  /\ next_id' = next_id + 1
  /\ unseen' = (unseen \/ Own(comments) \ seen[r] # {})
  /\ Answered(r)
  /\ comment_id' = [comment_id EXCEPT ![r] = IF pc'[r] = "done" THEN Truncated(next_id) ELSE @]
  /\ UNCHANGED <<attempts, seen>>

UpdateIssueComment(r) ==
  /\ pc[r] = "writing"
  /\ comment_id[r] # NoId
  /\ comment_id[r] \in DOMAIN comments
  /\ comments' = [comments EXCEPT ![comment_id[r]].text = r]
  /\ Answered(r)
  /\ UNCHANGED <<next_id, comment_id, attempts, seen, unseen>>

\* No connection, or any answer that is not a success: an id that is not there,
\* an account that may not write; or no number for the pull request (the number is
\* outside this module).
RequestFailsSlip(r) ==
  /\ pc[r] \in {"asking", "writing"}
  /\ pc' = [pc EXCEPT ![r] = "asking"]
  /\ UNCHANGED <<serverVars, comment_id, attempts, seen, unseen>>

RequestFails(r) ==
  /\ pc[r] \in {"asking", "writing"}
  /\ pc' = [pc EXCEPT ![r] = "failed"]
  /\ UNCHANGED <<serverVars, comment_id, attempts, seen, unseen>>

RunStep(r) ==
  GetIssueCommentId(r) \/ AddIssueComment(r) \/ UpdateIssueComment(r) \/ RequestFails(r)

Next ==
  \/ \E r \in Runs : StartRun(r) \/ RunStep(r)
  \/ SomeoneComments
  \/ \E id \in Ids : SomeoneDeletes(id)

Spec == Init /\ [][Next]_vars

\* The runner goes on with a run it has started; every request is answered or
\* given up by the HTTP client, whose timeouts are on by default.
FairSpec == Spec /\ \A r \in Runs : WF_vars(RunStep(r))

-------------------------------------------------------------------------------
(* What makes it correct.                                                   *)

\* The ids GitHub has given fit comment_id_ and none is the value for "none".
IdsFit == next_id <= NoId

\* "The cpp-lint doesn't comments on pull request number {} yet": a run that goes
\* on to add a comment was told of none of the runs' comments.
NotYetIsTrue ==
  \A r \in Runs : pc[r] = "writing" /\ comment_id[r] = NoId /\ IdsFit => seen[r] = {}

\* The runs keep one comment between them, whatever is deleted, lost or run
\* again: a second one takes a run that was not told of the first, because it
\* asked before the other wrote or because the answer lists no more.
OneCommentUnlessUnseen ==
  IdsFit /\ ~unseen => Cardinality(Own(comments)) <= 1

\* The comment is the runs' own, or one without a login that is older than every
\* comment of the runs that r was told of.
OursOrNobodys(r, id) ==
  \/ comments[id].login = Account
  \/ comments[id].login = "" /\ \A own \in seen[r] : id < own

\* A run writes only over a comment of the runs, or over one whose author GitHub
\* does not give and which comes before the runs' own: never over a comment that
\* GitHub says is somebody else's, nor over a nameless one when an older comment
\* of the runs was listed.  A nameless comment may well be another person's, and
\* when it is the oldest it is written over: the code takes it for ours.
OverwritesOursOrNobodys ==
  [][IdsFit =>
       \A id \in DOMAIN comments \cap DOMAIN comments' :
         comments'[id] # comments[id] => OursOrNobodys(comments'[id].text, id)]_vars

\* Every started run ends.
RunsEnd ==
  \A r \in Runs : pc[r] = "asking" ~> pc[r] \in {"done", "failed"}
===============================================================================
