----------------------------- MODULE ShellExecute -----------------------------
(****************************************************************************)
(* shell::execute: the parent starts a child whose standard output and      *)
(* standard error are two pipes, reads the first pipe to its end, then the  *)
(* second, then waits for the child.  The kernel's pipes hold a bounded     *)
(* number of units; a child that writes to a full pipe blocks.              *)
(*                                                                          *)
(* A unit is written and read whole and is named by its place in the        *)
(* child's output, so that a lost, repeated or reordered unit would show.   *)
(****************************************************************************)
EXTENDS Naturals, Sequences, FiniteSets

CONSTANTS
  Capacity,  \* units a pipe holds
  Programs   \* what a child may write: sequences of streams, oldest first

Streams == {"out", "err"}
ExitCodes == {"zero", "nonzero"}

ASSUME ShellAssumption ==
  /\ Capacity \in Nat \ {0}
  /\ Programs \subseteq Seq(Streams)

VARIABLES
  program,    \* the writes of this child
  pos,        \* the write it has come to
  child,      \* "none", "running" or "exited"
  status,     \* how the child ended
  pipe,       \* the units each pipe holds
  parent,     \* where execute() is
  std,        \* res.std_out and res.std_err
  exit_code   \* res.exit_code

vars == <<program, pos, child, status, pipe, parent, std, exit_code>>

Statuses == ExitCodes \cup {"unset", "signal"}

TypeOK ==
  /\ program \in Programs
  /\ pos \in 1 .. Len(program) + 1
  /\ child \in {"none", "running", "exited"}
  /\ status \in Statuses
  /\ pipe \in [Streams -> Seq(Nat)]
  /\ \A s \in Streams : Len(pipe[s]) <= Capacity
  /\ parent \in {"start", "read_out", "read_err", "wait", "returned", "thrown"}
  /\ std \in [Streams -> Seq(Nat)]
  /\ exit_code \in Statuses

Init ==
  /\ program \in Programs
  /\ pos = 1
  /\ child = "none"
  /\ status = "unset"
  /\ pipe = [s \in Streams |-> <<>>]
  /\ parent = "start"
  /\ std = [s \in Streams |-> <<>>]
  /\ exit_code = "unset"

-------------------------------------------------------------------------------
(* The child and the kernel.                                                *)

HasMore == child = "running" /\ pos <= Len(program)

\* A pipe that buffers without a bound (a mistake; no specification uses it).
CanWriteSlip == HasMore

CanWrite == HasMore /\ Len(pipe[program[pos]]) < Capacity

Write ==
  /\ CanWrite
  /\ pipe' = [pipe EXCEPT ![program[pos]] = Append(@, pos)]
  /\ pos' = pos + 1
  /\ UNCHANGED <<program, child, status, parent, std, exit_code>>

CanExit == child = "running" /\ pos = Len(program) + 1

Exit ==
  /\ CanExit
  /\ child' = "exited"
  /\ status' \in ExitCodes
  /\ UNCHANGED <<program, pos, pipe, parent, std, exit_code>>

\* A signal ends the child between any two writes; the pipes keep their units.
Killed ==
  /\ child = "running"
  /\ child' = "exited"
  /\ status' = "signal"
  /\ UNCHANGED <<program, pos, pipe, parent, std, exit_code>>

-------------------------------------------------------------------------------
(* The parent.  Definitions whose name ends in Slip are plausible mistakes   *)
(* in the definition that follows; no specification uses them.              *)

\* Waiting for the child before reading what it writes.
AfterSpawnSlip == "wait"

AfterSpawn == "read_out"

CanSpawn == parent = "start"

Spawn ==
  /\ CanSpawn
  /\ child' = "running"
  /\ parent' = AfterSpawn
  /\ UNCHANGED <<program, pos, status, pipe, std, exit_code>>

\* bp::process throws when the binary cannot be run.
SpawnFails ==
  /\ CanSpawn
  /\ parent' = "thrown"
  /\ UNCHANGED <<program, pos, child, status, pipe, std, exit_code>>

\* The stream asio::read is on, and where execute() goes at its end.
Reads(s) == parent = IF s = "out" THEN "read_out" ELSE "read_err"
AfterRead(s) == IF s = "out" THEN "read_err" ELSE "wait"

\* A buffer that is filled from its start at every read.
StoredSlip(s, unit) == [std EXCEPT ![s] = <<unit>>]

Stored(s, unit) == [std EXCEPT ![s] = Append(@, unit)]

CanRead(s) == Reads(s) /\ pipe[s] # <<>>

Read(s) ==
  /\ CanRead(s)
  /\ std' = Stored(s, Head(pipe[s]))
  /\ pipe' = [pipe EXCEPT ![s] = Tail(@)]
  /\ UNCHANGED <<program, pos, child, status, parent, exit_code>>

\* An empty pipe taken for a closed one.
EndOfFileSlip(s) == pipe[s] = <<>>

\* Only the child holds the write ends.
EndOfFile(s) == pipe[s] = <<>> /\ child = "exited"

CanEnd(s) == Reads(s) /\ EndOfFile(s)

ReadEnds(s) ==
  /\ CanEnd(s)
  /\ parent' = AfterRead(s)
  /\ UNCHANGED <<program, pos, child, status, pipe, std, exit_code>>

\* Any other error code throws; the destructor of bp::process ends the child.
ReadFails ==
  /\ \E s \in Streams : Reads(s)
  /\ parent' = "thrown"
  /\ child' = "exited"
  /\ status' = IF child = "running" THEN "signal" ELSE status
  /\ UNCHANGED <<program, pos, pipe, std, exit_code>>

CanWait == parent = "wait" /\ child = "exited"

Wait ==
  /\ CanWait
  /\ exit_code' = status
  /\ parent' = "returned"
  /\ UNCHANGED <<program, pos, child, status, pipe, std>>

ChildStep == Write \/ Exit
ParentStep == Spawn \/ (\E s \in Streams : Read(s) \/ ReadEnds(s)) \/ Wait
Next == ChildStep \/ ParentStep \/ Killed \/ SpawnFails \/ ReadFails

Spec == Init /\ [][Next]_vars

\* The kernel schedules both processes, and what the child writes is finite.
FairSpec == Spec /\ WF_vars(ChildStep) /\ WF_vars(ParentStep)

-------------------------------------------------------------------------------
(* What makes it correct.                                                   *)

Ended == parent \in {"returned", "thrown"}

Increasing(q) == \A i, j \in DOMAIN q : i < j => q[i] < q[j]
Units(q) == {q[i] : i \in DOMAIN q}
WrittenTo(s) == {i \in 1 .. pos - 1 : program[i] = s}

\* Nothing is lost, repeated or reordered between the child and the parent:
\* what was read followed by what is still in the pipe is what was written.
Conserved ==
  \A s \in Streams :
    /\ Increasing(std[s] \o pipe[s])
    /\ Units(std[s] \o pipe[s]) = WrittenTo(s)

\* When execute() returns, the result holds all that the child wrote to each
\* stream, in order, and the status the child ended with; a child that was not
\* killed wrote all it had.
ResultComplete ==
  parent = "returned" =>
    /\ child = "exited" /\ exit_code = status
    /\ \A s \in Streams : Increasing(std[s]) /\ Units(std[s]) = WrittenTo(s)
    /\ status \in ExitCodes => pos = Len(program) + 1

\* Some process can take its next step: the guards of ChildStep and ParentStep.
Moves ==
  \/ CanWrite \/ CanExit \/ CanSpawn \/ CanWait
  \/ \E s \in Streams : CanRead(s) \/ CanEnd(s)

\* The child waits for room on standard error, the parent for the end of
\* standard output.
StuckOnStderr ==
  /\ parent = "read_out" /\ pipe["out"] = <<>>
  /\ HasMore /\ program[pos] = "err" /\ Len(pipe["err"]) = Capacity

ErrWrites == {i \in DOMAIN program : program[i] = "err"}
StderrFits == Cardinality(ErrWrites) <= Capacity

\* execute() can hang in one way only, and only with a child that writes more to
\* standard error than a pipe holds.
HangsOnlyOnStderr == Ended \/ Moves \/ (StuckOnStderr /\ ~StderrFits)

\* A child whose standard error fits in one pipe always gets execute() to end.
EndsWhenStderrFits == StderrFits => <>Ended
===============================================================================
