-------------------------- MODULE GithubCommentsProofs --------------------------
(****************************************************************************)
(* What the runs of a pull request do to its comments, for any number of    *)
(* runs, comments, attempts and other people.                               *)
(****************************************************************************)
EXTENDS GithubComments, FiniteSetTheorems, WellFoundedInduction, TLAPS

\* A set of ids that is not empty has a smallest one.
LEMMA SmallestId ==
  ASSUME NEW S \in SUBSET Nat, S # {}
  PROVE  Min(S) \in S /\ \A y \in S : Min(S) <= y
<1> DEFINE R == OpToRel(<, Nat)
<1>1. IsWellFoundedOn(R, Nat)
  BY NatLessThanWellFounded
<1>2. \A x, y \in Nat : <<y, x>> \in R <=> y < x
  BY DEF OpToRel
<1> HIDE DEF R
<1>3. PICK x \in S : \A y \in S : ~(<<y, x>> \in R)
  BY <1>1, WFMin
<1>4. ASSUME NEW y \in S
      PROVE  x <= y
  <2>1. x \in Nat /\ y \in Nat
    OBVIOUS
  <2>2. ~(y < x)
    BY <1>2, <1>3, <2>1
  <2> QED BY <2>1, <2>2
<1>5. \E m \in S : \A y \in S : m <= y
  BY <1>4
<1> QED BY <1>5 DEF Min

-------------------------------------------------------------------------------
(* Ids.                                                                     *)

\* An id that fits stays what it is.
LEMMA FittingIdStays ==
  ASSUME NEW id \in Nat
  PROVE  /\ Truncated(id) \in 0 .. NoId
         /\ id < NoId => Truncated(id) = id
<1>1. IdSize \in Nat \ {0}
  BY CommentsAssumption
<1>2. id % IdSize \in 0 .. IdSize - 1
  BY <1>1
<1>3. id < IdSize => id % IdSize = id
  BY <1>1
<1> QED BY <1>1, <1>2, <1>3 DEF Truncated, NoId

-------------------------------------------------------------------------------
(* The inductive invariant.                                                 *)

\* GitHub gives each id once, one after the other.
IdsInOrder == \A id \in DOMAIN comments : id < next_id

\* A run remembers an id that was given, and the comment it belongs to, if it is
\* still there, is one that it may write over.
Remembered ==
  IdsFit /\ Account = OurName =>
    \A r \in Runs : comment_id[r] # NoId =>
      /\ comment_id[r] < next_id
      /\ comment_id[r] \in DOMAIN comments => OursOrNobodys(r, comment_id[r])

IInv == TypeOK /\ IdsInOrder /\ Remembered

LEMMA IdsAreNat ==
  ASSUME TypeOK
  PROVE  /\ Ids \subseteq Nat /\ DOMAIN comments \subseteq Nat /\ next_id \in Nat
         /\ NoId \in Nat /\ (HasRoom => next_id \in Ids)
<1>1. FirstId \in Nat /\ MaxComments \in Nat /\ IdSize \in Nat \ {0}
  BY CommentsAssumption
<1> QED BY <1>1 DEF TypeOK, Ids, NoId, HasRoom

\* The id a run finds: none of its own comments is listed when it finds none, and
\* it is that of the oldest listed comment which is ours, or nobody's, when it
\* finds one.
LEMMA FoundIs ==
  ASSUME TypeOK, IdsInOrder
  PROVE  /\ Found(comments) \in 0 .. NoId
         /\ IdsFit /\ Found(comments) # NoId =>
              /\ Found(comments) \in DOMAIN comments /\ IsOurComment(comments[Found(comments)])
              /\ \A id \in Page(comments) : IsOurComment(comments[id]) => Found(comments) <= id
         /\ IdsFit /\ Found(comments) = NoId =>
              \A id \in Page(comments) : ~IsOurComment(comments[id])
<1> DEFINE ours == {id \in Page(comments) : IsOurComment(comments[id])}
<1>1. /\ ours \subseteq DOMAIN comments /\ DOMAIN comments \in SUBSET Nat
      /\ next_id \in Nat /\ NoId \in Nat
  <2>1. Page(comments) \subseteq DOMAIN comments
    BY DEF Page
  <2>2. ours \subseteq Page(comments)
    OBVIOUS
  <2> HIDE DEF ours
  <2> QED BY <2>1, <2>2, IdsAreNat
<1>2. CASE ours = {}
  <2>1. Found(comments) = NoId
    BY <1>2 DEF Found, FoundId
  <2> QED BY <1>1, <1>2, <2>1
<1>3. CASE ours # {}
  <2>1. Found(comments) = Truncated(Min(ours))
    BY <1>3 DEF Found, FoundId
  <2> HIDE DEF ours
  <2>2. Min(ours) \in ours /\ Min(ours) \in Nat /\ \A id \in ours : Min(ours) <= id
    BY <1>1, <1>3, SmallestId
  <2>3. Min(ours) < next_id
    BY <1>1, <2>2 DEF IdsInOrder
  <2>4. IdsFit => Min(ours) < NoId
    BY <1>1, <2>2, <2>3 DEF IdsFit
  <2>5. Found(comments) \in 0 .. NoId /\ (IdsFit => Found(comments) = Min(ours))
    BY <2>1, <2>2, <2>4, FittingIdStays
  <2>6. Min(ours) \in DOMAIN comments /\ IsOurComment(comments[Min(ours)])
    BY <1>1, <2>2 DEF ours
  <2>7. \A id \in Page(comments) : IsOurComment(comments[id]) => Min(ours) <= id
    BY <2>2 DEF ours
  <2> QED BY <1>1, <2>2, <2>4, <2>5, <2>6, <2>7
<1> QED BY <1>2, <1>3

\* The comments after one was added.
LEMMA WithDomain ==
  ASSUME NEW login, NEW text
  PROVE  DOMAIN With(login, text) = DOMAIN comments \cup {next_id}
BY DEF With

LEMMA WithIs ==
  ASSUME NEW login, NEW text
  PROVE  /\ With(login, text)[next_id] = [login |-> login, text |-> text]
         /\ \A id \in DOMAIN comments : id # next_id => With(login, text)[id] = comments[id]
BY DEF With

\* A comment more leaves the old ones as they are and has an id of its own.
LEMMA Added ==
  ASSUME IInv, HasRoom, NEW login \in Logins, NEW text \in Runs \cup {"other"},
         comments' = With(login, text), next_id' = next_id + 1
  PROVE  /\ DOMAIN comments' = DOMAIN comments \cup {next_id} /\ next_id \notin DOMAIN comments
         /\ comments'[next_id].login = login
         /\ \A id \in DOMAIN comments : comments'[id] = comments[id]
         /\ DOMAIN comments' \subseteq Ids /\ \A id \in DOMAIN comments' : comments'[id] \in Comment
         /\ next_id' \in FirstId .. FirstId + MaxComments
         /\ IdsInOrder' /\ (IdsFit' => IdsFit)
<1> USE DEF IInv
<1>1. /\ DOMAIN comments \subseteq Nat /\ next_id \in Nat /\ next_id \in Ids /\ NoId \in Nat
      /\ FirstId \in Nat /\ MaxComments \in Nat
  BY IdsAreNat, CommentsAssumption
<1>2. DOMAIN comments' = DOMAIN comments \cup {next_id}
  <2>1. DOMAIN With(login, text) = DOMAIN comments \cup {next_id}
    BY WithDomain
  <2> QED BY <2>1
<1>3. next_id \notin DOMAIN comments
  BY <1>1 DEF IdsInOrder
<1>4. /\ comments'[next_id] = [login |-> login, text |-> text]
      /\ \A id \in DOMAIN comments : comments'[id] = comments[id]
  BY <1>3, WithIs
<1>5. [login |-> login, text |-> text] \in Comment
  BY DEF Comment
<1>6. \A id \in DOMAIN comments' : comments'[id] \in Comment
  BY <1>2, <1>4, <1>5 DEF TypeOK
<1>7. DOMAIN comments' \subseteq Ids /\ next_id' \in FirstId .. FirstId + MaxComments
  BY <1>1, <1>2 DEF TypeOK, Ids, HasRoom
<1>8. IdsInOrder' /\ (IdsFit' => IdsFit)
  BY <1>1, <1>2 DEF IdsInOrder, IdsFit, NoId
<1> QED BY <1>2, <1>3, <1>4, <1>6, <1>7, <1>8

\* What a run remembers stays right when comments are added or removed.
LEMMA StillRemembered ==
  ASSUME IInv, IdsFit' => IdsFit, next_id \in Nat, next_id' \in Nat, next_id' >= next_id,
         NEW r \in Runs, comment_id'[r] = comment_id[r], seen'[r] = seen[r],
         \A id \in DOMAIN comments' :
           id < next_id => id \in DOMAIN comments /\ comments'[id].login = comments[id].login
  PROVE  IdsFit' /\ Account = OurName => (comment_id'[r] # NoId =>
           /\ comment_id'[r] < next_id'
           /\ comment_id'[r] \in DOMAIN comments' => OursOrNobodys(r, comment_id[r])')
<1>1. SUFFICES ASSUME IdsFit', Account = OurName, comment_id[r] # NoId
               PROVE  /\ comment_id[r] < next_id'
                      /\ comment_id[r] \in DOMAIN comments' => OursOrNobodys(r, comment_id[r])'
  OBVIOUS
<1>2. comment_id[r] \in Nat
  BY IdsAreNat DEF IInv, TypeOK
<1>3. /\ comment_id[r] < next_id
      /\ comment_id[r] \in DOMAIN comments => OursOrNobodys(r, comment_id[r])
  BY <1>1 DEF IInv, Remembered
<1>4. comment_id[r] < next_id'
  BY <1>2, <1>3
<1>5. ASSUME comment_id[r] \in DOMAIN comments'
      PROVE  OursOrNobodys(r, comment_id[r])'
  <2>1. /\ comment_id[r] \in DOMAIN comments
        /\ comments'[comment_id[r]].login = comments[comment_id[r]].login
    BY <1>2, <1>3, <1>5
  <2>2. OursOrNobodys(r, comment_id[r])
    BY <1>3, <2>1
  <2>3. \/ comments'[comment_id'[r]].login = Account
        \/ comments'[comment_id'[r]].login = "" /\ \A own \in seen'[r] : comment_id'[r] < own
    BY <2>1, <2>2 DEF OursOrNobodys
  <2> QED BY <2>3 DEF OursOrNobodys
<1> QED BY <1>4, <1>5

LEMMA InvInit == Init => IInv
<1> SUFFICES ASSUME Init PROVE IInv
  OBVIOUS
<1>1. DOMAIN comments = {}
  BY DEF Init, NoComments
<1>2. FirstId \in Nat /\ MaxComments \in Nat /\ IdSize \in Nat \ {0} /\ MaxAttempts \in Nat
  BY CommentsAssumption
<1>3. TypeOK
  <2>1. /\ NoId \in 0 .. NoId /\ FirstId \in FirstId .. FirstId + MaxComments
        /\ 0 \in 0 .. MaxAttempts
    BY <1>2 DEF NoId
  <2> QED BY <1>1, <2>1 DEF Init, TypeOK
<1> QED BY <1>1, <1>3 DEF IInv, IdsInOrder, Remembered, Init

LEMMA InvStep ==
  ASSUME IInv, [Next]_vars
  PROVE  IInv'
<1> USE DEF IInv
<1>1. /\ DOMAIN comments \subseteq Nat /\ next_id \in Nat /\ Ids \subseteq Nat /\ NoId \in Nat
      /\ FirstId \in Nat /\ MaxComments \in Nat /\ MaxAttempts \in Nat
  BY IdsAreNat, CommentsAssumption
<1>2. ASSUME NEW r \in Runs, StartRun(r)
      PROVE  IInv'
  <2>1. TypeOK'
    <3>1. /\ attempts[r] < MaxAttempts /\ attempts \in [Runs -> 0 .. MaxAttempts]
          /\ attempts' = [attempts EXCEPT ![r] = attempts[r] + 1]
      BY <1>2 DEF StartRun, TypeOK
    <3>2. attempts' \in [Runs -> 0 .. MaxAttempts]
      <4>1. attempts[r] + 1 \in 0 .. MaxAttempts
        BY <1>1, <3>1
      <4> QED BY <3>1, <4>1
    <3>3. NoId \in 0 .. NoId
      BY <1>1
    <3> QED BY <1>2, <3>2, <3>3 DEF StartRun, TypeOK, serverVars
  <2>2. IdsInOrder' /\ Remembered'
    BY <1>2 DEF StartRun, IdsInOrder, Remembered, OursOrNobodys, IdsFit, TypeOK, serverVars
  <2> QED BY <2>1, <2>2
<1>3. ASSUME NEW r \in Runs, GetIssueCommentId(r)
      PROVE  IInv'
  <2>1. Found(comments) \in 0 .. NoId
    BY FoundIs
  <2>2. Own(comments) \cap Page(comments) \subseteq Ids
    BY DEF Own, TypeOK
  <2>3. TypeOK'
    <3> HIDE DEF Found
    <3> QED BY <1>1, <1>3, <2>1, <2>2 DEF GetIssueCommentId, TypeOK, serverVars
  <2>4. IdsInOrder'
    BY <1>3 DEF GetIssueCommentId, IdsInOrder, serverVars
  <2>5. Remembered'
    <3>1. /\ comment_id' = [comment_id EXCEPT ![r] = Found(comments)]
          /\ seen' = [seen EXCEPT ![r] = Own(comments) \cap Page(comments)]
          /\ comments' = comments /\ next_id' = next_id
      BY <1>3 DEF GetIssueCommentId, serverVars
    <3>2. ASSUME IdsFit, Account = OurName, Found(comments) # NoId
          PROVE  /\ Found(comments) < next_id
                 /\ \/ comments[Found(comments)].login = Account
                    \/ /\ comments[Found(comments)].login = ""
                       /\ \A own \in Own(comments) \cap Page(comments) : Found(comments) < own
      <4>1. /\ Found(comments) \in DOMAIN comments /\ IsOurComment(comments[Found(comments)])
            /\ \A id \in Page(comments) : IsOurComment(comments[id]) => Found(comments) <= id
        BY <3>2, FoundIs
      <4> HIDE DEF Found
      <4>2. ASSUME NEW own \in Own(comments) \cap Page(comments),
                   comments[Found(comments)].login # Account
            PROVE  Found(comments) < own
        <5>1. own \in DOMAIN comments /\ comments[own].login = Account
          BY DEF Own
        <5>2. Found(comments) <= own /\ Found(comments) # own
          BY <3>2, <4>1, <4>2, <5>1 DEF IsOurComment
        <5> QED BY <1>1, <4>1, <5>1, <5>2
      <4> QED BY <3>2, <4>1, <4>2 DEF IdsInOrder, IsOurComment
    <3> HIDE DEF Found
    <3>3. ASSUME NEW q \in Runs, IdsFit, Account = OurName, comment_id'[q] # NoId
          PROVE  /\ comment_id'[q] < next_id'
                 /\ comment_id'[q] \in DOMAIN comments' => OursOrNobodys(q, comment_id[q])'
      <4>1. CASE q = r
        <5>1. comment_id'[q] = Found(comments) /\ seen'[q] = Own(comments) \cap Page(comments)
          BY <3>1, <4>1 DEF TypeOK
        <5> QED BY <3>1, <3>2, <3>3, <5>1 DEF OursOrNobodys
      <4>2. CASE q # r
        <5>1. comment_id'[q] = comment_id[q] /\ seen'[q] = seen[q]
          BY <3>1, <4>2 DEF TypeOK
        <5> QED BY <3>1, <3>3, <5>1 DEF Remembered, OursOrNobodys
      <4> QED BY <4>1, <4>2
    <3> QED BY <3>1, <3>3 DEF Remembered, IdsFit, NoId
  <2> QED BY <2>3, <2>4, <2>5
<1>4. ASSUME NEW r \in Runs, AddIssueComment(r)
      PROVE  IInv'
  <2>1. /\ HasRoom /\ comments' = With(Account, r) /\ next_id' = next_id + 1
        /\ unseen' = (unseen \/ Own(comments) \ seen[r] # {})
        /\ UNCHANGED <<attempts, seen>>
        /\ comment_id' = [comment_id EXCEPT ![r] = IF pc'[r] = "done" THEN Truncated(next_id) ELSE @]
        /\ pc' = [pc EXCEPT ![r] = "done"] \/ pc' = [pc EXCEPT ![r] = "failed"]
        /\ comment_id[r] = NoId
    BY <1>4 DEF AddIssueComment, Answered
  <2>2. /\ DOMAIN comments' = DOMAIN comments \cup {next_id} /\ next_id \notin DOMAIN comments
        /\ comments'[next_id].login = Account
        /\ \A id \in DOMAIN comments : comments'[id] = comments[id]
        /\ DOMAIN comments' \subseteq Ids /\ \A id \in DOMAIN comments' : comments'[id] \in Comment
        /\ next_id' \in FirstId .. FirstId + MaxComments
        /\ IdsInOrder' /\ (IdsFit' => IdsFit)
    BY <2>1, Added DEF Logins
  <2>3. Truncated(next_id) \in 0 .. NoId /\ (IdsFit' => Truncated(next_id) = next_id)
    BY <1>1, <2>1, FittingIdStays DEF IdsFit, NoId
  <2>4. comment_id' \in [Runs -> 0 .. NoId]
    BY <2>1, <2>3 DEF TypeOK
  <2>5. TypeOK'
    <3>1. pc' \in [Runs -> {"idle", "asking", "writing", "done", "failed"}]
      BY <2>1 DEF TypeOK
    <3> QED BY <2>1, <2>2, <2>4, <3>1 DEF TypeOK
  <2>6. ASSUME NEW q \in Runs, IdsFit', Account = OurName, comment_id'[q] # NoId
        PROVE  /\ comment_id'[q] < next_id'
               /\ comment_id'[q] \in DOMAIN comments' => OursOrNobodys(q, comment_id[q])'
    <3>1. CASE q = r /\ pc'[r] = "done"
      <4>1. comment_id'[q] = next_id
        BY <2>1, <2>3, <2>6, <3>1 DEF TypeOK
      <4>2. next_id < next_id' /\ comments'[comment_id'[q]].login = Account
        BY <1>1, <2>1, <2>2, <4>1
      <4> QED BY <4>1, <4>2 DEF OursOrNobodys
    <3>2. CASE ~(q = r /\ pc'[r] = "done")
      <4>1. comment_id'[q] = comment_id[q]
        BY <2>1, <3>2 DEF TypeOK
      <4>2. \A id \in DOMAIN comments' :
              id < next_id => id \in DOMAIN comments /\ comments'[id].login = comments[id].login
        BY <1>1, <2>2
      <4>3. next_id' \in Nat /\ next_id' >= next_id
        BY <1>1, <2>1
      <4> QED BY <1>1, <2>1, <2>2, <2>6, <4>1, <4>2, <4>3, StillRemembered DEF OursOrNobodys
    <3> QED BY <3>1, <3>2
  <2>7. Remembered'
    BY <2>6 DEF Remembered, NoId
  <2> QED BY <2>2, <2>5, <2>7
<1>5. ASSUME NEW r \in Runs, UpdateIssueComment(r)
      PROVE  IInv'
  <2>1. /\ comment_id[r] \in DOMAIN comments
        /\ comments' = [comments EXCEPT ![comment_id[r]].text = r]
        /\ pc' = [pc EXCEPT ![r] = "done"] \/ pc' = [pc EXCEPT ![r] = "failed"]
        /\ UNCHANGED <<next_id, comment_id, attempts, seen, unseen>>
    BY <1>5 DEF UpdateIssueComment, Answered
  <2>2. /\ DOMAIN comments' = DOMAIN comments
        /\ \A id \in DOMAIN comments : comments[id] \in Comment
    BY <2>1 DEF TypeOK
  <2>3. \A id \in DOMAIN comments :
          comments'[id] \in Comment /\ comments'[id].login = comments[id].login
    BY <2>1, <2>2 DEF Comment
  <2>4. TypeOK'
    <3>1. pc' \in [Runs -> {"idle", "asking", "writing", "done", "failed"}]
      BY <2>1 DEF TypeOK
    <3> QED BY <2>1, <2>2, <2>3, <3>1 DEF TypeOK
  <2>5. IdsInOrder' /\ (IdsFit' => IdsFit)
    BY <2>1, <2>2 DEF IdsInOrder, IdsFit
  <2>6. Remembered'
    BY <2>1, <2>2, <2>3 DEF Remembered, OursOrNobodys, IdsFit
  <2> QED BY <2>4, <2>5, <2>6
<1>6. ASSUME NEW r \in Runs, RequestFails(r)
      PROVE  IInv'
  <2>1. TypeOK'
    BY <1>1, <1>6 DEF RequestFails, TypeOK, serverVars
  <2>2. IdsInOrder' /\ Remembered'
    BY <1>6 DEF RequestFails, IdsInOrder, Remembered, OursOrNobodys, IdsFit, serverVars
  <2> QED BY <2>1, <2>2
<1>7. CASE SomeoneComments
  <2>1. next_id' \in Nat /\ next_id' >= next_id
    <3>1. next_id' = next_id + 1
      BY <1>7 DEF SomeoneComments
    <3>2. next_id \in Nat
      BY <1>1
    <3> QED BY <3>1, <3>2
  <2>2. /\ HasRoom /\ next_id' = next_id + 1
        /\ UNCHANGED <<pc, comment_id, attempts, seen, unseen>>
    BY <1>7 DEF SomeoneComments
  <2>3. /\ DOMAIN comments' = DOMAIN comments \cup {next_id} /\ next_id \notin DOMAIN comments
        /\ \A id \in DOMAIN comments : comments'[id] = comments[id]
        /\ DOMAIN comments' \subseteq Ids /\ \A id \in DOMAIN comments' : comments'[id] \in Comment
        /\ next_id' \in FirstId .. FirstId + MaxComments
        /\ IdsInOrder' /\ (IdsFit' => IdsFit)
    <3>1. PICK login \in {"someone", ""} : comments' = With(login, "other")
      BY <1>7 DEF SomeoneComments
    <3>2. login \in Logins
      BY <3>1 DEF Logins
    <3> QED BY <2>2, <3>1, <3>2, Added
  <2>4. TypeOK'
    BY <2>2, <2>3 DEF TypeOK
  <2>5. ASSUME NEW q \in Runs, IdsFit', Account = OurName, comment_id'[q] # NoId
        PROVE  /\ comment_id'[q] < next_id'
               /\ comment_id'[q] \in DOMAIN comments' => OursOrNobodys(q, comment_id[q])'
    <3>1. \A id \in DOMAIN comments' :
            id < next_id => id \in DOMAIN comments /\ comments'[id].login = comments[id].login
      BY <1>1, <2>3
    <3> QED BY <1>1, <2>1, <2>2, <2>3, <2>5, <3>1, StillRemembered
  <2>6. Remembered'
    BY <2>5 DEF Remembered, NoId
  <2> QED BY <2>3, <2>4, <2>6
<1>8. ASSUME NEW id \in Ids, SomeoneDeletes(id)
      PROVE  IInv'
  <2>1. /\ comments' = [i \in DOMAIN comments \ {id} |-> comments[i]]
        /\ UNCHANGED <<next_id, pc, comment_id, attempts, seen, unseen>>
    BY <1>8 DEF SomeoneDeletes
  <2>2. /\ DOMAIN comments' = DOMAIN comments \ {id}
        /\ \A i \in DOMAIN comments' : comments'[i] = comments[i]
    BY <2>1
  <2>3. TypeOK' /\ IdsInOrder' /\ Remembered'
    BY <2>1, <2>2 DEF TypeOK, IdsInOrder, Remembered, OursOrNobodys, IdsFit
  <2> QED BY <2>3
<1>9. CASE UNCHANGED vars
  BY <1>9 DEF vars, serverVars, TypeOK, IdsInOrder, Remembered, OursOrNobodys, IdsFit
<1> QED BY <1>2, <1>3, <1>4, <1>5, <1>6, <1>7, <1>8, <1>9 DEF Next, RunStep

\* The invariant holds for every account, whatever GitHub, the network and other
\* people do.
THEOREM Invariance == Spec => []IInv
<1>1. IInv /\ [Next]_vars => IInv'
  BY InvStep
<1> QED BY <1>1, InvInit, PTL DEF Spec

\* The comments, the runs and what each remembers stay typed: every id that a run
\* keeps fits comment_id_.
THEOREM TypeCorrect == Spec => []TypeOK
<1>1. IInv => TypeOK
  BY DEF IInv
<1> QED BY <1>1, Invariance, PTL

\* While ids fit, a run whose account has the name that find_if looks for writes
\* only over a comment of the runs, or over one whose author GitHub does not give
\* and which is older than every comment of the runs it was told of.
THEOREM OverwritesOursOrNobodysAlways ==
  ASSUME Account = OurName
  PROVE  Spec => OverwritesOursOrNobodys
<1> DEFINE Allowed ==
      IdsFit => \A id \in DOMAIN comments \cap DOMAIN comments' :
                  comments'[id] # comments[id] => OursOrNobodys(comments'[id].text, id)
<1>1. ASSUME IInv, [Next]_vars
      PROVE  Allowed
  <2>1. SUFFICES ASSUME IdsFit, NEW id \in DOMAIN comments, id \in DOMAIN comments',
                        comments'[id] # comments[id]
                 PROVE  OursOrNobodys(comments'[id].text, id)
    OBVIOUS
  <2>2. next_id \in Nat /\ id # next_id
    BY <1>1, <2>1, IdsAreNat DEF IInv, IdsInOrder
  <2>3. ASSUME NEW login, NEW text, comments' = With(login, text)
        PROVE  FALSE
    BY <2>1, <2>2, <2>3 DEF With
  <2>4. CASE comments' = comments
    BY <2>1, <2>4
  <2>5. ASSUME NEW r \in Runs, UpdateIssueComment(r)
        PROVE  OursOrNobodys(comments'[id].text, id)
    <3>1. /\ comment_id[r] # NoId /\ comment_id[r] \in DOMAIN comments
          /\ comments' = [comments EXCEPT ![comment_id[r]].text = r]
      BY <2>5 DEF UpdateIssueComment
    <3>2. id = comment_id[r]
      BY <2>1, <3>1
    <3>3. comments'[id].text = r
      <4>1. comments[id] \in Comment
        BY <1>1 DEF IInv, TypeOK
      <4> QED BY <2>1, <3>1, <3>2, <4>1 DEF Comment
    <3>4. OursOrNobodys(r, comment_id[r])
      BY <1>1, <2>1, <3>1 DEF IInv, Remembered
    <3> QED BY <3>2, <3>3, <3>4
  <2>6. ASSUME NEW i \in Ids, SomeoneDeletes(i)
        PROVE  FALSE
    <3>1. comments' = [n \in DOMAIN comments \ {i} |-> comments[n]]
      BY <2>6 DEF SomeoneDeletes
    <3> QED BY <2>1, <3>1
  <2>7. CASE \E r \in Runs : StartRun(r) \/ GetIssueCommentId(r) \/ RequestFails(r)
    <3>1. comments' = comments
      BY <2>7 DEF StartRun, GetIssueCommentId, RequestFails, serverVars
    <3> QED BY <2>1, <3>1
  <2>8. CASE \E r \in Runs : AddIssueComment(r)
    BY <2>3, <2>8 DEF AddIssueComment
  <2>9. CASE SomeoneComments
    BY <2>3, <2>9 DEF SomeoneComments
  <2>10. CASE UNCHANGED vars
    BY <2>4, <2>10 DEF vars, serverVars
  <2> QED BY <1>1, <2>5, <2>6, <2>7, <2>8, <2>9, <2>10 DEF Next, RunStep
<1>2. IInv /\ [Next]_vars => [Allowed]_vars
  BY <1>1
<1> QED BY <1>2, Invariance, PTL DEF Spec, OverwritesOursOrNobodys

-------------------------------------------------------------------------------
(* One comment.  find_if compares logins with our_name, so what follows is   *)
(* about runs whose account has that name.                                   *)

\* Two comments of the runs are one, as long as no run wrote unseeing.
OneOwn == IdsFit /\ ~unseen => \A i, j \in Own(comments) : i = j

LEMMA OwnPrimed ==
  (\A id : id \in Own(comments) <=> id \in DOMAIN comments /\ comments[id].login = Account)'
<1>1. \A id : id \in Own(comments) <=> id \in DOMAIN comments /\ comments[id].login = Account
  BY DEF Own
<1> QED BY <1>1, PTL

LEMMA OneStep ==
  ASSUME Account = OurName, IInv, NotYetIsTrue, OneOwn, [Next]_vars
  PROVE  NotYetIsTrue' /\ OneOwn'
<1>1. /\ DOMAIN comments \subseteq Nat /\ next_id \in Nat /\ NoId \in Nat
  BY IdsAreNat DEF IInv
<1>2. ASSUME NEW r \in Runs, StartRun(r) \/ RequestFails(r) \/ GetIssueCommentId(r)
      PROVE  NotYetIsTrue' /\ OneOwn'
  <2>1. comments' = comments /\ next_id' = next_id /\ unseen' = unseen
    BY <1>2 DEF StartRun, RequestFails, GetIssueCommentId, serverVars
  <2>2. OneOwn'
    BY <2>1 DEF OneOwn, Own, IdsFit
  <2>3. NotYetIsTrue'
    <3>1. CASE StartRun(r) \/ RequestFails(r)
      BY <1>2, <2>1, <3>1 DEF StartRun, RequestFails, NotYetIsTrue, IdsFit, IInv, TypeOK
    <3>2. CASE GetIssueCommentId(r)
      <4>1. /\ pc[r] = "asking" /\ pc' = [pc EXCEPT ![r] = "writing"]
            /\ comment_id' = [comment_id EXCEPT ![r] = Found(comments)]
            /\ seen' = [seen EXCEPT ![r] = Own(comments) \cap Page(comments)]
        BY <3>2 DEF GetIssueCommentId
      <4>2. IdsFit /\ Found(comments) = NoId => Own(comments) \cap Page(comments) = {}
        <5>1. \A id \in Own(comments) : IsOurComment(comments[id])
          BY DEF Own, IsOurComment
        <5> QED BY <5>1, FoundIs DEF IInv
      <4> HIDE DEF Found
      <4> QED BY <2>1, <4>1, <4>2 DEF NotYetIsTrue, IdsFit, IInv, TypeOK
    <3> QED BY <1>2, <3>1, <3>2
  <2> QED BY <2>2, <2>3
<1>3. ASSUME NEW r \in Runs, AddIssueComment(r)
      PROVE  NotYetIsTrue' /\ OneOwn'
  <2>1. /\ pc[r] = "writing" /\ comment_id[r] = NoId
        /\ HasRoom /\ comments' = With(Account, r) /\ next_id' = next_id + 1
        /\ unseen' = (unseen \/ Own(comments) \ seen[r] # {}) /\ seen' = seen
        /\ pc' = [pc EXCEPT ![r] = "done"] \/ pc' = [pc EXCEPT ![r] = "failed"]
        /\ \A q \in Runs \ {r} : comment_id'[q] = comment_id[q]
    BY <1>3 DEF AddIssueComment, Answered, IInv, TypeOK
  <2>2. /\ DOMAIN comments' = DOMAIN comments \cup {next_id} /\ next_id \notin DOMAIN comments
        /\ \A id \in DOMAIN comments : comments'[id] = comments[id]
        /\ IdsFit' => IdsFit
    BY <2>1, Added DEF Logins
  <2>3. NotYetIsTrue'
    BY <2>1, <2>2 DEF NotYetIsTrue, IInv, TypeOK
  <2>4. IdsFit' /\ ~unseen' => ~unseen /\ Own(comments) = {}
    BY <2>1, <2>2 DEF NotYetIsTrue
  <2>5. OneOwn'
    <3>1. SUFFICES ASSUME IdsFit', ~unseen', NEW i \in Own(comments)'
                   PROVE  i = next_id
      BY DEF OneOwn
    <3>2. i \in DOMAIN comments' /\ comments'[i].login = Account
      BY OwnPrimed
    <3>3. i \in DOMAIN comments => i \in Own(comments)
      BY <2>2, <3>2 DEF Own
    <3> QED BY <2>2, <2>4, <3>1, <3>2, <3>3
  <2> QED BY <2>3, <2>5
\* All other steps leave the runs as they are and add no comment of theirs.
<1>4. ASSUME \/ UNCHANGED <<pc, comment_id, seen>>
             \/ \E r \in Runs : UpdateIssueComment(r),
             unseen' = unseen, IdsFit' => IdsFit,
             \A id \in DOMAIN comments' :
               comments'[id].login = Account =>
                 id \in DOMAIN comments /\ comments[id].login = Account
      PROVE  NotYetIsTrue' /\ OneOwn'
  <2>1. NotYetIsTrue'
    <3>1. CASE UNCHANGED <<pc, comment_id, seen>>
      BY <1>4, <3>1 DEF NotYetIsTrue, NoId
    <3>2. ASSUME NEW r \in Runs, UpdateIssueComment(r)
          PROVE  NotYetIsTrue'
      BY <1>4, <3>2 DEF UpdateIssueComment, Answered, NotYetIsTrue, IInv, TypeOK, NoId
    <3> QED BY <1>4, <3>1, <3>2
  <2>2. Own(comments)' \subseteq Own(comments)
    BY <1>4, OwnPrimed DEF Own
  <2> QED BY <1>4, <2>1, <2>2 DEF OneOwn
<1>5. ASSUME NEW r \in Runs, UpdateIssueComment(r)
      PROVE  NotYetIsTrue' /\ OneOwn'
  <2>1. /\ comment_id[r] \in DOMAIN comments
        /\ comments' = [comments EXCEPT ![comment_id[r]].text = r]
        /\ next_id' = next_id /\ unseen' = unseen
    BY <1>5 DEF UpdateIssueComment
  <2>2. /\ DOMAIN comments' = DOMAIN comments
        /\ \A id \in DOMAIN comments : comments[id] \in Comment
    BY <2>1 DEF IInv, TypeOK
  <2>3. \A id \in DOMAIN comments : comments'[id].login = comments[id].login
    BY <2>1, <2>2 DEF Comment
  <2> QED BY <1>4, <1>5, <2>1, <2>2, <2>3 DEF IdsFit
<1>6. CASE SomeoneComments
  <2>1. /\ UNCHANGED <<pc, comment_id, seen, unseen>> /\ HasRoom /\ next_id' = next_id + 1
    BY <1>6 DEF SomeoneComments
  <2>2. /\ IdsFit' => IdsFit
        /\ \A id \in DOMAIN comments' :
             comments'[id].login = Account =>
               id \in DOMAIN comments /\ comments[id].login = Account
    <3>1. PICK login \in {"someone", ""} : comments' = With(login, "other")
      BY <1>6 DEF SomeoneComments
    <3>2. login \in Logins /\ login # Account
      BY <3>1 DEF Logins, OurName
    <3>3. /\ DOMAIN comments' = DOMAIN comments \cup {next_id}
          /\ comments'[next_id].login = login
          /\ \A id \in DOMAIN comments : comments'[id] = comments[id]
          /\ IdsFit' => IdsFit
      BY <2>1, <3>1, <3>2, Added
    <3> QED BY <3>2, <3>3
  <2> QED BY <1>4, <2>1, <2>2
<1>7. ASSUME NEW id \in Ids, SomeoneDeletes(id)
      PROVE  NotYetIsTrue' /\ OneOwn'
  <2>1. /\ comments' = [i \in DOMAIN comments \ {id} |-> comments[i]]
        /\ UNCHANGED <<next_id, pc, comment_id, seen, unseen>>
    BY <1>7 DEF SomeoneDeletes
  <2>2. \A i \in DOMAIN comments' : i \in DOMAIN comments /\ comments'[i] = comments[i]
    BY <2>1
  <2> QED BY <1>4, <2>1, <2>2 DEF IdsFit
<1>8. CASE UNCHANGED vars
  BY <1>4, <1>8 DEF vars, serverVars, IdsFit
<1> QED BY <1>2, <1>3, <1>5, <1>6, <1>7, <1>8 DEF Next, RunStep

LEMMA OneInit == Init => NotYetIsTrue /\ OneOwn
<1>1. Init => DOMAIN comments = {}
  BY DEF Init, NoComments
<1> QED BY <1>1 DEF Init, NotYetIsTrue, OneOwn, Own

\* While ids fit, a run that goes on to add a comment was told of none of its own.
THEOREM NotYetIsTrueAlways ==
  ASSUME Account = OurName
  PROVE  Spec => []NotYetIsTrue
<1>1. IInv /\ NotYetIsTrue /\ OneOwn /\ [Next]_vars => NotYetIsTrue' /\ OneOwn'
  BY OneStep
<1> QED BY <1>1, OneInit, Invariance, PTL DEF Spec

\* While ids fit, the runs have one comment between them unless one of them wrote
\* without having been told of another's.
THEOREM OneCommentUnlessUnseenAlways ==
  ASSUME Account = OurName
  PROVE  Spec => []OneCommentUnlessUnseen
<1>1. IInv /\ NotYetIsTrue /\ OneOwn /\ [Next]_vars => NotYetIsTrue' /\ OneOwn'
  BY OneStep
<1>2. OneOwn => OneCommentUnlessUnseen
  <2>1. SUFFICES ASSUME \A i, j \in Own(comments) : i = j
                 PROVE  Cardinality(Own(comments)) <= 1
    BY DEF OneOwn, OneCommentUnlessUnseen
  <2>2. CASE Own(comments) = {}
    BY <2>2, FS_EmptySet
  <2>3. CASE Own(comments) # {}
    <3>1. PICK i \in Own(comments) : Own(comments) = {i}
      BY <2>1, <2>3
    <3>2. Cardinality({i}) = 1
      BY FS_Singleton
    <3> QED BY <3>1, <3>2
  <2> QED BY <2>2, <2>3
<1> QED BY <1>1, <1>2, OneInit, Invariance, PTL DEF Spec
===============================================================================
