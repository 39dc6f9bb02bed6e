-------------------------- MODULE ShellExecuteProofs --------------------------
(****************************************************************************)
(* What shell::execute guarantees for every child and every pipe capacity.  *)
(****************************************************************************)
EXTENDS ShellExecute, FiniteSetTheorems, SequenceTheorems, TLAPS

(* The inductive invariant: conservation of the units, and where each       *)
(* process can be while the other is at a given place.                      *)

\* Past the end of a stream its pipe is empty and the child is gone; standard
\* error has not been touched before.
Lifecycle ==
  /\ parent = "start" => child = "none"
  /\ parent \in {"read_out", "read_err", "wait", "returned"} => child # "none"
  /\ parent \in {"start", "read_out"} => std["err"] = <<>>
  /\ parent \in {"read_err", "wait", "returned"} => child = "exited" /\ pipe["out"] = <<>>
  /\ parent \in {"wait", "returned"} => pipe["err"] = <<>>
  /\ parent = "returned" => exit_code = status
  /\ child # "exited" => status = "unset"
  /\ status \in ExitCodes => pos = Len(program) + 1

IInv == TypeOK /\ Lifecycle /\ Conserved

-------------------------------------------------------------------------------
(* Lemmas about sequences.                                                  *)

\* Moving the head of t to the end of s leaves the concatenation as it was.
LEMMA MoveHead ==
  ASSUME NEW S, NEW s \in Seq(S), NEW t \in Seq(S), t # <<>>
  PROVE  Append(s, Head(t)) \o Tail(t) = s \o t
<1>1. Head(t) \in S /\ Tail(t) \in Seq(S) /\ <<Head(t)>> \in Seq(S)
  BY HeadTailProperties
<1>2. t = <<Head(t)>> \o Tail(t)
  <2>1. Len(t) \in Nat \ {0} /\ 1 \in 1 .. Len(t) /\ Len(t) \in 1 .. Len(t)
    BY EmptySeq, LenProperties
  <2>2. SubSeq(t, 1, Len(t)) = <<t[1]>> \o SubSeq(t, 1 + 1, Len(t))
    BY <2>1, SubSeqRecursiveFirst
  <2>3. SubSeq(t, 1, Len(t)) = t /\ SubSeq(t, 2, Len(t)) = Tail(t) /\ Head(t) = t[1]
    BY SubSeqFull, TailIsSubSeq
  <2> QED BY <2>2, <2>3
<1>3. Append(s, Head(t)) = s \o <<Head(t)>>
  BY <1>1, AppendIsConcat
<1>4. (s \o <<Head(t)>>) \o Tail(t) = s \o (<<Head(t)>> \o Tail(t))
  BY <1>1, ConcatAssociative
<1> QED BY <1>2, <1>3, <1>4

\* Appending a number above all others keeps a sequence increasing.
LEMMA AppendIncreasing ==
  ASSUME NEW q \in Seq(Nat), NEW n \in Nat, Increasing(q), \A u \in Units(q) : u < n
  PROVE  Increasing(Append(q, n)) /\ Units(Append(q, n)) = Units(q) \cup {n}
<1>1. /\ Len(q) \in Nat /\ DOMAIN q = 1 .. Len(q)
      /\ \A i \in DOMAIN q : q[i] \in Nat /\ q[i] < n
  BY LenProperties, ElementOfSeq DEF Units
<1>2. /\ DOMAIN Append(q, n) = (1 .. Len(q)) \cup {Len(q) + 1}
      /\ \A i \in 1 .. Len(q) : Append(q, n)[i] = q[i]
      /\ Append(q, n)[Len(q) + 1] = n
  <2>1. Append(q, n) \in Seq(Nat) /\ Len(Append(q, n)) = Len(q) + 1
    BY AppendProperties
  <2>2. DOMAIN Append(q, n) = 1 .. Len(q) + 1
    BY <2>1, LenProperties
  <2> QED BY <1>1, <2>2, AppendProperties
<1>3. ASSUME NEW i \in DOMAIN Append(q, n), NEW j \in DOMAIN Append(q, n), i < j
      PROVE  Append(q, n)[i] < Append(q, n)[j]
  <2>1. i \in 1 .. Len(q)
    BY <1>1, <1>2, <1>3
  <2>2. CASE j \in 1 .. Len(q)
    BY <1>1, <1>2, <1>3, <2>1, <2>2 DEF Increasing
  <2>3. CASE j = Len(q) + 1
    BY <1>1, <1>2, <2>1, <2>3
  <2> QED BY <1>2, <2>2, <2>3
<1> QED BY <1>1, <1>2, <1>3 DEF Increasing, Units

\* An increasing sequence holds as many units as it is long.
LEMMA UnitsCount ==
  ASSUME NEW q \in Seq(Nat), Increasing(q)
  PROVE  IsFiniteSet(Units(q)) /\ Cardinality(Units(q)) = Len(q)
<1>1. Len(q) \in Nat /\ q \in [1 .. Len(q) -> Nat] /\ DOMAIN q = 1 .. Len(q)
  BY LenProperties
<1>2. q \in Surjection(1 .. Len(q), Units(q))
  BY <1>1 DEF Surjection, Units
<1>3. q \in Injection(1 .. Len(q), Units(q))
  <2>1. \A i, j \in 1 .. Len(q) : i # j => q[i] # q[j]
    BY <1>1 DEF Increasing
  <2> QED BY <1>1, <1>2, <2>1 DEF Injection, Surjection, IsInjective
<1>4. IsFiniteSet(1 .. Len(q)) /\ Cardinality(1 .. Len(q)) = Len(q)
  <2>1. 1 \in Int /\ Len(q) \in Int
    BY <1>1
  <2>2. /\ IsFiniteSet(1 .. Len(q))
        /\ Cardinality(1 .. Len(q)) = IF 1 > Len(q) THEN 0 ELSE Len(q) - 1 + 1
    BY <2>1, FS_Interval
  <2> QED BY <1>1, <2>2
<1> QED BY <1>2, <1>3, <1>4, FS_Surjection

-------------------------------------------------------------------------------
(* The invariant.                                                           *)

LEMMA InvInit == Init => IInv
<1> SUFFICES ASSUME Init PROVE IInv
  OBVIOUS
<1>1. program \in Seq(Streams) /\ Len(program) \in Nat /\ Capacity \in Nat
  BY ShellAssumption, LenProperties DEF Init
<1>2. <<>> \in Seq(Nat) /\ Len(<<>>) = 0
  BY EmptySeq
<1>3. TypeOK
  BY <1>1, <1>2 DEF Init, TypeOK, Statuses
<1>4. Lifecycle
  BY DEF Init, Lifecycle, ExitCodes, Streams
<1>5. \A s \in Streams : std[s] \o pipe[s] = <<>>
  BY <1>2, ConcatEmptySeq DEF Init
<1>6. DOMAIN <<>> = {} /\ \A s \in Streams : WrittenTo(s) = {}
  BY DEF Init, WrittenTo
<1>7. Conserved
  BY <1>5, <1>6 DEF Conserved, Increasing, Units
<1> QED BY <1>3, <1>4, <1>7 DEF IInv

\* Facts about the types that the steps below share.
LEMMA Types ==
  ASSUME TypeOK
  PROVE  /\ program \in Seq(Streams) /\ Len(program) \in Nat /\ pos \in Nat
         /\ DOMAIN program = 1 .. Len(program)
         /\ \A i \in 1 .. Len(program) : program[i] \in Streams
         /\ \A s \in Streams : pipe[s] \in Seq(Nat) /\ Len(pipe[s]) \in Nat
         /\ \A s \in Streams : std[s] \in Seq(Nat)
         /\ Capacity \in Nat
BY ShellAssumption, LenProperties, ElementOfSeq DEF TypeOK

LEMMA StepWrite == IInv /\ Write => IInv'
<1> SUFFICES ASSUME IInv, Write PROVE IInv'
  OBVIOUS
<1>1. TypeOK /\ Lifecycle /\ Conserved
  BY DEF IInv
<1>. PICK s \in Streams : s = program[pos]
  BY <1>1, Types DEF Write, CanWrite, HasMore, TypeOK
<1>2. /\ child = "running" /\ pos \in 1 .. Len(program) /\ s \in Streams
      /\ Len(pipe[s]) < Capacity
      /\ pipe' = [pipe EXCEPT ![s] = Append(@, pos)] /\ pos' = pos + 1
      /\ UNCHANGED <<program, child, status, parent, std, exit_code>>
  BY <1>1, Types DEF Write, CanWrite, HasMore, TypeOK
<1>3. /\ pipe'[s] = Append(pipe[s], pos) /\ pipe'[s] \in Seq(Nat)
      /\ Len(pipe'[s]) = Len(pipe[s]) + 1
      /\ \A r \in Streams : r # s => pipe'[r] = pipe[r]
      /\ pipe' \in [Streams -> Seq(Nat)]
  BY <1>1, <1>2, Types, AppendProperties DEF TypeOK
<1>4. TypeOK'
  <2>1. \A r \in Streams : Len(pipe'[r]) <= Capacity
    BY <1>1, <1>2, <1>3, Types DEF TypeOK
  <2>2. pos' \in 1 .. Len(program') + 1
    BY <1>1, <1>2, Types
  <2> QED BY <1>1, <1>2, <1>3, <2>1, <2>2 DEF TypeOK
<1>5. Lifecycle'
  BY <1>1, <1>2 DEF Lifecycle, ExitCodes
<1>6. WrittenTo(s)' = WrittenTo(s) \cup {pos} /\ \A r \in Streams : r # s => WrittenTo(r)' = WrittenTo(r)
  <2>1. pos \in Nat /\ 1 .. pos' - 1 = (1 .. pos - 1) \cup {pos}
    BY <1>1, <1>2, Types
  <2>2. WrittenTo(s)' = {i \in (1 .. pos - 1) \cup {pos} : program[i] = s}
    BY <1>2, <2>1 DEF WrittenTo
  <2>3. program[pos] = s
    OBVIOUS
  <2>4. WrittenTo(s)' = WrittenTo(s) \cup {pos}
    BY <2>2, <2>3 DEF WrittenTo
  <2>5. ASSUME NEW r \in Streams, r # s PROVE WrittenTo(r)' = WrittenTo(r)
    <3>1. WrittenTo(r)' = {i \in (1 .. pos - 1) \cup {pos} : program[i] = r}
      BY <1>2, <2>1 DEF WrittenTo
    <3> QED BY <2>3, <2>5, <3>1 DEF WrittenTo
  <2> QED BY <2>4, <2>5
<1>7. ASSUME NEW r \in Streams
      PROVE  Increasing(std'[r] \o pipe'[r]) /\ Units(std'[r] \o pipe'[r]) = WrittenTo(r)'
  <2>1. CASE r = s
    <3>1. std[s] \o pipe[s] \in Seq(Nat) /\ std[s] \in Seq(Nat) /\ pipe[s] \in Seq(Nat)
      BY <1>1, <1>2, Types, ConcatProperties
    <3>2. std'[s] \o pipe'[s] = Append(std[s] \o pipe[s], pos)
      <4>1. pos \in Nat /\ <<pos>> \in Seq(Nat)
        BY <1>1, Types
      <4>2. Append(pipe[s], pos) = pipe[s] \o <<pos>>
        BY <3>1, <4>1, AppendIsConcat
      <4>3. std[s] \o (pipe[s] \o <<pos>>) = (std[s] \o pipe[s]) \o <<pos>>
        <5> DEFINE a == std[s]  b == pipe[s]  c == <<pos>>
        <5>1. a \in Seq(Nat) /\ b \in Seq(Nat) /\ c \in Seq(Nat)
          BY <3>1, <4>1
        <5> HIDE DEF a, b, c
        <5>2. (a \o b) \o c = a \o (b \o c)
          BY <5>1, ConcatAssociative
        <5> QED BY <5>2 DEF a, b, c
      <4>4. Append(std[s] \o pipe[s], pos) = (std[s] \o pipe[s]) \o <<pos>>
        BY <3>1, <4>1, AppendIsConcat
      <4> QED BY <1>2, <1>3, <4>2, <4>3, <4>4
    <3>3. Increasing(std[s] \o pipe[s]) /\ Units(std[s] \o pipe[s]) = WrittenTo(s)
      BY <1>1, <1>2 DEF Conserved
    <3>4. \A u \in Units(std[s] \o pipe[s]) : u < pos
      BY <1>1, <3>3, Types DEF WrittenTo
    <3>5. pos \in Nat
      BY <1>1, Types
    <3>6. /\ Increasing(Append(std[s] \o pipe[s], pos))
          /\ Units(Append(std[s] \o pipe[s], pos)) = WrittenTo(s) \cup {pos}
      BY <3>1, <3>3, <3>4, <3>5, AppendIncreasing
    <3>7. Increasing(std'[s] \o pipe'[s]) /\ Units(std'[s] \o pipe'[s]) = WrittenTo(s)'
      BY <1>6, <3>2, <3>6
    <3> QED BY <2>1, <3>7
  <2>2. CASE r # s
    <3>1. pipe'[r] = pipe[r] /\ std'[r] = std[r] /\ WrittenTo(r)' = WrittenTo(r)
      BY <1>2, <1>3, <1>6, <2>2
    <3>2. Increasing(std[r] \o pipe[r]) /\ Units(std[r] \o pipe[r]) = WrittenTo(r)
      BY <1>1 DEF Conserved
    <3>3. std'[r] \o pipe'[r] = std[r] \o pipe[r]
      BY <3>1
    <3> QED BY <3>1, <3>2, <3>3
  <2> QED BY <2>1, <2>2
<1> QED BY <1>4, <1>5, <1>7 DEF IInv, Conserved

LEMMA StepRead == ASSUME IInv, NEW s \in Streams, Read(s) PROVE IInv'
<1>1. TypeOK /\ Lifecycle /\ Conserved
  BY DEF IInv
<1>2. /\ Reads(s) /\ pipe[s] # <<>>
      /\ std' = [std EXCEPT ![s] = Append(@, Head(pipe[s]))]
      /\ pipe' = [pipe EXCEPT ![s] = Tail(@)]
      /\ UNCHANGED <<program, pos, child, status, parent, exit_code>>
  BY DEF Read, CanRead, Stored
<1>3. /\ pipe[s] \in Seq(Nat) /\ std[s] \in Seq(Nat)
      /\ Head(pipe[s]) \in Nat /\ Tail(pipe[s]) \in Seq(Nat)
      /\ Len(Tail(pipe[s])) = Len(pipe[s]) - 1
      /\ Append(std[s], Head(pipe[s])) \in Seq(Nat)
  BY <1>1, <1>2, Types, HeadTailProperties, AppendProperties
<1>4. /\ pipe'[s] = Tail(pipe[s]) /\ std'[s] = Append(std[s], Head(pipe[s]))
      /\ \A r \in Streams : r # s => pipe'[r] = pipe[r] /\ std'[r] = std[r]
      /\ pipe' \in [Streams -> Seq(Nat)] /\ std' \in [Streams -> Seq(Nat)]
  BY <1>1, <1>2, <1>3 DEF TypeOK
<1>5. TypeOK'
  <2>1. \A r \in Streams : Len(pipe'[r]) <= Capacity
    <3>1. ASSUME NEW r \in Streams PROVE Len(pipe'[r]) <= Capacity
      <4>1. Len(pipe[r]) <= Capacity /\ Len(pipe[r]) \in Nat /\ Capacity \in Nat
        BY <1>1, Types DEF TypeOK
      <4>2. CASE r = s
        BY <1>3, <1>4, <4>1, <4>2
      <4>3. CASE r # s
        BY <1>4, <4>1, <4>3
      <4> QED BY <4>2, <4>3
    <3> QED BY <3>1
  <2> QED BY <1>1, <1>2, <1>4, <2>1 DEF TypeOK
<1>6. Lifecycle'
  <2>1. CASE s = "out"
    BY <1>1, <1>2, <1>4, <2>1 DEF Lifecycle, Reads, Streams
  <2>2. CASE s = "err"
    BY <1>1, <1>2, <1>4, <2>2 DEF Lifecycle, Reads, Streams
  <2> QED BY <2>1, <2>2 DEF Streams
<1>7. \A r \in Streams : std'[r] \o pipe'[r] = std[r] \o pipe[r]
  <2>1. Append(std[s], Head(pipe[s])) \o Tail(pipe[s]) = std[s] \o pipe[s]
    BY <1>2, <1>3, MoveHead
  <2> QED BY <1>4, <2>1
<1>8. \A r \in Streams : WrittenTo(r)' = WrittenTo(r)
  BY <1>2 DEF WrittenTo
<1> QED BY <1>1, <1>5, <1>6, <1>7, <1>8 DEF IInv, Conserved

\* The steps that leave both pipes and what was read alone.
LEMMA Untouched ==
  ASSUME IInv, UNCHANGED <<program, pos, pipe, std>>
  PROVE  Conserved'
BY DEF IInv, Conserved, WrittenTo

LEMMA OtherSteps ==
  ASSUME IInv, \/ Exit \/ Killed \/ Spawn \/ SpawnFails \/ ReadFails \/ Wait
               \/ \E s \in Streams : ReadEnds(s)
  PROVE  IInv'
<1>1. UNCHANGED <<program, pos, pipe, std>>
  BY DEF Exit, Killed, Spawn, SpawnFails, ReadFails, Wait, ReadEnds
<1>2. TypeOK /\ Lifecycle
  BY DEF IInv
<1>3. TypeOK'
  BY <1>1, <1>2 DEF TypeOK, Statuses, Exit, Killed, Spawn, AfterSpawn, SpawnFails, ReadFails,
     Wait, ReadEnds, AfterRead
<1>4. Lifecycle'
  <2>1. CASE Exit
    BY <1>2, <2>1 DEF Lifecycle, Exit, CanExit, ExitCodes
  <2>2. CASE Killed
    BY <1>2, <2>2 DEF Lifecycle, Killed, ExitCodes
  <2>3. CASE Spawn \/ SpawnFails
    BY <1>2, <2>3 DEF Lifecycle, Spawn, SpawnFails, CanSpawn, AfterSpawn, ExitCodes
  <2>4. CASE ReadFails
    BY <1>2, <2>4 DEF Lifecycle, ReadFails, Reads, ExitCodes
  <2>5. CASE Wait
    BY <1>2, <2>5 DEF Lifecycle, Wait, CanWait
  <2>6. ASSUME ReadEnds("out") PROVE Lifecycle'
    BY <1>2, <2>6 DEF Lifecycle, ReadEnds, CanEnd, EndOfFile, Reads, AfterRead
  <2>7. ASSUME ReadEnds("err") PROVE Lifecycle'
    BY <1>2, <2>7 DEF Lifecycle, ReadEnds, CanEnd, EndOfFile, Reads, AfterRead
  <2> QED BY <2>1, <2>2, <2>3, <2>4, <2>5, <2>6, <2>7 DEF Streams
<1>5. Conserved'
  BY <1>1, Untouched
<1> QED BY <1>3, <1>4, <1>5 DEF IInv

LEMMA InvStep == IInv /\ [Next]_vars => IInv'
<1> SUFFICES ASSUME IInv, [Next]_vars PROVE IInv'
  OBVIOUS
<1>1. CASE Next
  BY <1>1, StepWrite, StepRead, OtherSteps DEF Next, ChildStep, ParentStep
<1>2. CASE UNCHANGED vars
  BY <1>2, Untouched DEF vars, IInv, TypeOK, Lifecycle
<1> QED BY <1>1, <1>2

THEOREM Invariance == Spec => []IInv
BY InvInit, InvStep, PTL DEF Spec

-------------------------------------------------------------------------------
(* The properties the runs check.                                           *)

\* Every variable keeps its type and no pipe ever holds more than it can.
THEOREM TypeCorrect == Spec => []TypeOK
<1>1. IInv => TypeOK
  BY DEF IInv
<1> QED BY <1>1, Invariance, PTL

\* Whatever the child writes and wherever the two processes are, no unit is
\* lost, repeated or reordered on its way.
THEOREM Conservation == Spec => []Conserved
<1>1. IInv => Conserved
  BY DEF IInv
<1> QED BY <1>1, Invariance, PTL

\* What execute() returns is all that the child wrote, and how it ended.
THEOREM ReturnsWholeResult == Spec => []ResultComplete
<1>1. IInv => ResultComplete
  <2> SUFFICES ASSUME IInv, parent = "returned"
               PROVE  /\ child = "exited" /\ exit_code = status
                      /\ \A s \in Streams : Increasing(std[s]) /\ Units(std[s]) = WrittenTo(s)
                      /\ status \in ExitCodes => pos = Len(program) + 1
    BY DEF ResultComplete
  <2>1. TypeOK /\ Lifecycle /\ Conserved
    BY DEF IInv
  <2>2. \A s \in Streams : pipe[s] = <<>>
    BY <2>1 DEF Lifecycle, Streams
  <2>3. ASSUME NEW s \in Streams PROVE Increasing(std[s]) /\ Units(std[s]) = WrittenTo(s)
    <3>1. std[s] \in Seq(Nat) /\ Increasing(std[s] \o pipe[s]) /\ Units(std[s] \o pipe[s]) = WrittenTo(s)
      BY <2>1, Types DEF Conserved
    <3>2. std[s] \o pipe[s] = std[s]
      BY <2>2, <3>1, ConcatEmptySeq
    <3> QED BY <3>1, <3>2
  <2> QED BY <2>1, <2>3 DEF Lifecycle
<1> QED BY <1>1, Invariance, PTL

\* The only hang of execute(): the pipe of standard error is full while
\* execute() still waits for the end of standard output, and the child wants to
\* write more to standard error than one pipe holds.
THEOREM OnlyHang == Spec => []HangsOnlyOnStderr
<1>1. IInv => HangsOnlyOnStderr
  <2> SUFFICES ASSUME IInv, ~Ended, ~Moves PROVE StuckOnStderr /\ ~StderrFits
    BY DEF HangsOnlyOnStderr
  <2>1. TypeOK /\ Lifecycle /\ Conserved
    BY DEF IInv
  <2>2. /\ program \in Seq(Streams) /\ Len(program) \in Nat /\ pos \in Nat /\ Capacity \in Nat
        /\ DOMAIN program = 1 .. Len(program) /\ pos \in 1 .. Len(program) + 1
        /\ \A i \in 1 .. Len(program) : program[i] \in Streams
        /\ \A s \in Streams : pipe[s] \in Seq(Nat) /\ Len(pipe[s]) \in Nat /\ Len(pipe[s]) <= Capacity
    BY <2>1, Types DEF TypeOK
  <2>3. /\ child \in {"none", "running", "exited"}
        /\ parent \in {"read_out", "read_err", "wait"}
    BY <2>1 DEF TypeOK, Ended, Moves, CanSpawn
  <2>4. parent = "read_out" /\ child = "running" /\ pipe["out"] = <<>>
    <3>1. child # "none"
      BY <2>1, <2>3 DEF Lifecycle
    <3>2. \A s \in Streams : ~CanRead(s) /\ ~CanEnd(s)
      BY DEF Moves
    <3>3. ~CanWait
      BY DEF Moves
    <3>4. \A s \in Streams : Reads(s) => pipe[s] = <<>> /\ child # "exited"
      BY <3>2 DEF CanRead, CanEnd, EndOfFile
    <3>5. CASE parent = "read_out"
      BY <2>3, <3>1, <3>4, <3>5 DEF Reads, Streams
    <3>6. CASE parent = "read_err"
      BY <2>1, <3>4, <3>6 DEF Reads, Streams, Lifecycle
    <3>7. CASE parent = "wait"
      BY <2>1, <3>3, <3>7 DEF CanWait, Lifecycle
    <3> QED BY <2>3, <3>5, <3>6, <3>7
  <2>5. pos \in 1 .. Len(program) /\ HasMore
    BY <2>2, <2>4 DEF Moves, CanExit, HasMore
  <2>6. program[pos] = "err" /\ Len(pipe["err"]) = Capacity
    <3>1. ~(Len(pipe[program[pos]]) < Capacity)
      BY <2>5 DEF Moves, CanWrite
    <3>2. program[pos] \in Streams
      BY <2>2, <2>5
    <3>3. program[pos] # "out"
      <4>1. Len(pipe["out"]) = 0 /\ Capacity > 0
        BY <2>4, EmptySeq, ShellAssumption
      <4> QED BY <3>1, <4>1
    <3> QED BY <2>2, <3>1, <3>2, <3>3 DEF Streams
  <2>7. Increasing(pipe["err"]) /\ Units(pipe["err"]) = WrittenTo("err")
    <3>1. std["err"] = <<>>
      BY <2>1, <2>4 DEF Lifecycle
    <3>2. "err" \in Streams /\ pipe["err"] \in Seq(Nat)
      BY <2>2 DEF Streams
    <3>3. std["err"] \o pipe["err"] = pipe["err"]
      BY <3>1, <3>2, ConcatEmptySeq
    <3> QED BY <2>1, <3>2, <3>3 DEF Conserved
  <2>8. IsFiniteSet(WrittenTo("err")) /\ Cardinality(WrittenTo("err")) = Capacity
    <3>1. pipe["err"] \in Seq(Nat)
      BY <2>2 DEF Streams
    <3> QED BY <2>6, <2>7, <3>1, UnitsCount
  <2>9. /\ IsFiniteSet(WrittenTo("err") \cup {pos})
        /\ Cardinality(WrittenTo("err") \cup {pos}) = Capacity + 1
    <3>1. pos \notin WrittenTo("err")
      BY <2>2 DEF WrittenTo
    <3> QED BY <2>8, <3>1, FS_AddElement
  <2>10. WrittenTo("err") \cup {pos} \subseteq ErrWrites
    BY <2>2, <2>5, <2>6 DEF WrittenTo, ErrWrites
  <2>11. ~StderrFits
    <3>1. IsFiniteSet(ErrWrites)
      <4>1. IsFiniteSet(1 .. Len(program))
        <5>1. 1 \in Int /\ Len(program) \in Int
          BY <2>2
        <5> QED BY <5>1, FS_Interval
      <4>2. ErrWrites \subseteq 1 .. Len(program)
        BY <2>2 DEF ErrWrites
      <4> QED BY <4>1, <4>2, FS_Subset
    <3>2. Cardinality(WrittenTo("err") \cup {pos}) <= Cardinality(ErrWrites)
      BY <2>10, <3>1, FS_Subset
    <3>3. Cardinality(ErrWrites) \in Nat
      BY <3>1, FS_CardinalityType
    <3> QED BY <2>2, <2>9, <3>2, <3>3 DEF StderrFits
  <2> QED BY <2>4, <2>5, <2>6, <2>11 DEF StuckOnStderr
<1> QED BY <1>1, Invariance, PTL
===============================================================================
