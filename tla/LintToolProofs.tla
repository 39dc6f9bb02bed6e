---------------------------- MODULE LintToolProofs ----------------------------
(****************************************************************************)
(* What module LintTool's loop guarantees for every set of files, every     *)
(* delta and every sequence of answers of the child processes.              *)
(****************************************************************************)
EXTENDS LintTool, FiniteSetTheorems, SequenceTheorems, TLAPS

(* The inductive invariant.  The safety properties are not inductive: they  *)
(* speak of the end of the loop, so each is carried through the loop as a   *)
(* statement about the files the loop has finished with.                    *)

\* What each phase says of the verdict, and why a fast exit ends the loop.
Phases ==
  /\ phase = "idle" => unvisited = {} /\ execs = <<>> /\ result = EmptyResult
  /\ phase = "checking" => ~result.final_passed /\ ~result.fastly_exited
  /\ phase = "done" /\ ~result.fastly_exited =>
       unvisited = {} /\ (result.final_passed <=> result.fails = {})
  /\ phase = "done" /\ result.fastly_exited =>
       ~result.final_passed /\ result.fails # {}
  /\ option.enabled_fastly_exit /\ result.fails # {} => phase = "done"

\* A file whose child has been run is finished with, unless its visit threw.
Logged ==
  /\ RunsOncePerRequiredFile
  /\ phase \in {"checking", "done"} => \A i \in DOMAIN execs : execs[i].file \notin unvisited

\* The result's tables hold what the children answered.
Judged ==
  /\ result.passes = GoodFiles
  /\ result.fails = BadFiles
  /\ result.diagnosed = DiagnosedFiles
  /\ Commands = BadFiles

\* No required file is left behind.
Covered == phase # "idle" => Required \ unvisited \subseteq result.passes \cup result.fails

DeletedFiles == {f \in Changed : deltas[f] = "deleted"}

\* The numbers add up over the files finished with.
Counted ==
  /\ Len(result.failed_commands) = Cardinality(result.fails)
  /\ phase \in {"checking", "done"} =>
       Cardinality(Changed \ unvisited) =
         Cardinality(result.passes) + Cardinality(result.fails)
           + Len(result.ignored) + Cardinality(DeletedFiles \ unvisited)

IInv == TypeOK /\ Phases /\ Logged /\ Judged /\ Covered /\ Counted

-------------------------------------------------------------------------------
(* Lemmas.                                                                  *)

\* Appending an element to a sequence adds it, last, to what it holds.
LEMMA AppendRange ==
  ASSUME NEW S, NEW s \in Seq(S), NEW e \in S
  PROVE  /\ Append(s, e) \in Seq(S)
         /\ Len(Append(s, e)) = Len(s) + 1
         /\ DOMAIN s = 1 .. Len(s)
         /\ DOMAIN Append(s, e) = 1 .. Len(s) + 1
         /\ \A i \in 1 .. Len(s) : Append(s, e)[i] = s[i]
         /\ Append(s, e)[Len(s) + 1] = e
         /\ {Append(s, e)[i] : i \in DOMAIN Append(s, e)} = {s[i] : i \in DOMAIN s} \cup {e}
<1>1. Append(s, e) \in Seq(S) /\ Len(Append(s, e)) = Len(s) + 1
  BY AppendProperties
<1>2. DOMAIN s = 1 .. Len(s) /\ DOMAIN Append(s, e) = 1 .. Len(s) + 1 /\ Len(s) \in Nat
  BY <1>1, LenProperties
<1>3. \A i \in 1 .. Len(s) : Append(s, e)[i] = s[i]
  BY <1>2, AppendProperties
<1>4. Append(s, e)[Len(s) + 1] = e
  BY AppendProperties
<1>5. {Append(s, e)[i] : i \in DOMAIN Append(s, e)} = {s[i] : i \in DOMAIN s} \cup {e}
  <2>1. 1 .. Len(s) + 1 = (1 .. Len(s)) \cup {Len(s) + 1}
    BY <1>2
  <2> QED BY <2>1, <1>2, <1>3, <1>4
<1> QED BY <1>1, <1>2, <1>3, <1>4, <1>5

\* One more child run makes its file known as good, as bad, or as neither.
LEMMA ExecutesLearns ==
  ASSUME TypeOK, NEW f \in Files, NEW res \in Results,
         execs' = Append(execs, [file |-> f, res |-> res]), kind' = kind
  PROVE  /\ execs' \in Seq(Execs)
         /\ GoodFiles' = GoodFiles \cup (IF Passes(res) THEN {f} ELSE {})
         /\ BadFiles' = BadFiles \cup (IF Fails(res) THEN {f} ELSE {})
         /\ DiagnosedFiles' =
              DiagnosedFiles \cup (IF Fails(res) /\ HasDiags(res) THEN {f} ELSE {})
<1> DEFINE e == [file |-> f, res |-> res]
<1>1. e \in Execs /\ e.file = f /\ e.res = res /\ execs \in Seq(Execs)
  BY DEF Execs, TypeOK
<1> HIDE DEF e
<1>2. execs' = Append(execs, e)
  BY DEF e
<1>3. /\ execs' \in Seq(Execs)
      /\ DOMAIN execs = 1 .. Len(execs)
      /\ DOMAIN execs' = 1 .. Len(execs) + 1
      /\ \A i \in 1 .. Len(execs) : execs'[i] = execs[i]
      /\ execs'[Len(execs) + 1] = e
  BY <1>1, <1>2, AppendRange
<1>4. Len(execs) \in Nat
  BY <1>1, LenProperties
<1>5. DOMAIN execs' = DOMAIN execs \cup {Len(execs) + 1}
  BY <1>3, <1>4
<1>6. \A r : Passes(r)' = Passes(r) /\ Fails(r)' = Fails(r) /\ HasDiags(r)' = HasDiags(r)
  BY DEF Passes, Fails, Throws, PassesFormat, PassesTidy, HasDiags
<1>7. GoodFiles' = {g \in Files : \E i \in DOMAIN execs' : execs'[i].file = g /\ Passes(execs'[i].res)}
  BY <1>6 DEF GoodFiles, Passes, Throws, PassesFormat, PassesTidy
<1>8. BadFiles' = {g \in Files : \E i \in DOMAIN execs' : execs'[i].file = g /\ Fails(execs'[i].res)}
  BY <1>6 DEF BadFiles, Fails, Passes, Throws, PassesFormat, PassesTidy
<1>9. GoodFiles' = GoodFiles \cup (IF Passes(res) THEN {f} ELSE {})
  BY <1>1, <1>3, <1>5, <1>7 DEF GoodFiles
<1>10. BadFiles' = BadFiles \cup (IF Fails(res) THEN {f} ELSE {})
  BY <1>1, <1>3, <1>5, <1>8 DEF BadFiles
<1>11. DiagnosedFiles' =
         {g \in Files : \E i \in DOMAIN execs' :
            execs'[i].file = g /\ Fails(execs'[i].res) /\ HasDiags(execs'[i].res)}
  BY <1>6 DEF DiagnosedFiles, Fails, Passes, Throws, PassesFormat, PassesTidy, HasDiags
<1>12. DiagnosedFiles' =
         DiagnosedFiles \cup (IF Fails(res) /\ HasDiags(res) THEN {f} ELSE {})
  BY <1>1, <1>3, <1>5, <1>11 DEF DiagnosedFiles
<1> QED BY <1>3, <1>9, <1>10, <1>12

-------------------------------------------------------------------------------
(* Type correctness.                                                        *)

LEMMA TypeInit == Init => TypeOK
BY EmptySeq DEF Init, TypeOK, ResultType, EmptyResult, Changed, Options

LEMMA TypeStep == TypeOK /\ [Next]_vars => TypeOK'
<1> SUFFICES ASSUME TypeOK, [Next]_vars PROVE TypeOK'
  OBVIOUS
<1> USE DEF TypeOK, ResultType, Changed
<1>1. CASE Start
  BY <1>1 DEF Start
<1>2. ASSUME NEW f \in Files, SkipDeleted(f) PROVE TypeOK'
  BY <1>2 DEF SkipDeleted
<1>3. ASSUME NEW f \in Files, RejectRegex(f) PROVE TypeOK'
  BY <1>3 DEF RejectRegex
<1>4. ASSUME NEW f \in Files, IgnoreFile(f) PROVE TypeOK'
  <2>1. Append(result.ignored, f) \in Seq(Files)
    BY AppendProperties
  <2> QED BY <1>4, <2>1 DEF IgnoreFile
<1>5. ASSUME NEW f \in Files, NEW res \in Results, CheckFile(f, res) PROVE TypeOK'
  <2>1. Executes(f, res) /\ kind' = kind
    BY <1>5 DEF CheckFile, PassFile, FailFile, FailFast, ThrowFile
  <2>2. execs' \in Seq(Execs)
    BY <2>1, ExecutesLearns DEF Executes
  <2>3. Append(result.failed_commands, f) \in Seq(Files)
    BY AppendProperties
  <2>4. CASE PassFile(f, res)
    BY <2>2, <2>4 DEF PassFile
  <2>5. CASE FailFile(f, res)
    BY <2>2, <2>3, <2>5 DEF FailFile, Failed
  <2>6. CASE FailFast(f, res)
    BY <2>2, <2>3, <2>6 DEF FailFast, Failed
  <2>7. CASE ThrowFile(f, res)
    BY <2>2, <2>7 DEF ThrowFile
  <2> QED BY <1>5, <2>4, <2>5, <2>6, <2>7 DEF CheckFile
<1>6. CASE Finish
  BY <1>6 DEF Finish, FinalPassed
<1>7. CASE UNCHANGED vars
  BY <1>7 DEF vars
<1> QED BY <1>1, <1>2, <1>3, <1>4, <1>5, <1>6, <1>7 DEF Next

\* Every reachable state of the loop is well typed.
THEOREM TypeCorrect == Spec => []TypeOK
BY TypeInit, TypeStep, PTL DEF Spec

-------------------------------------------------------------------------------
(* The inductive invariant holds initially ...                              *)

LEMMA InvInit == Init => IInv
<1> SUFFICES ASSUME Init PROVE IInv
  OBVIOUS
<1>1. TypeOK
  BY TypeInit
<1>2. DOMAIN execs = {} /\ DOMAIN result.failed_commands = {}
  BY DEF Init, EmptyResult
<1>3. Cardinality({}) = 0
  BY FS_EmptySet
<1> QED BY <1>1, <1>2, <1>3
    DEF IInv, Init, Phases, Logged, RunsOncePerRequiredFile, Judged, Covered, Counted,
        EmptyResult, GoodFiles, BadFiles, DiagnosedFiles, Commands

(* ... and each action preserves it.  An action that leaves execs alone     *)
(* leaves what is known of the files alone.                                 *)

LEMMA Unlearned ==
  ASSUME UNCHANGED <<kind, option, deltas, execs>>
  PROVE  /\ GoodFiles' = GoodFiles /\ BadFiles' = BadFiles /\ DiagnosedFiles' = DiagnosedFiles
         /\ Changed' = Changed /\ Required' = Required /\ DeletedFiles' = DeletedFiles
         /\ RunsOncePerRequiredFile' <=> RunsOncePerRequiredFile
BY DEF GoodFiles, BadFiles, DiagnosedFiles, HasDiags, Changed, Required, DeletedFiles,
       RunsOncePerRequiredFile, Passes, Fails, Throws, PassesFormat, PassesTidy

\* The sets whose sizes are added up are finite.
LEMMA Finite ==
  ASSUME TypeOK
  PROVE  /\ IsFiniteSet(Changed) /\ IsFiniteSet(unvisited)
         /\ IsFiniteSet(result.passes) /\ IsFiniteSet(result.fails)
         /\ IsFiniteSet(Changed \ unvisited) /\ IsFiniteSet(DeletedFiles \ unvisited)
         /\ Cardinality(Changed \ unvisited) \in Nat
         /\ Cardinality(DeletedFiles \ unvisited) \in Nat
         /\ Cardinality(result.passes) \in Nat /\ Cardinality(result.fails) \in Nat
         /\ Len(result.ignored) \in Nat /\ Len(result.failed_commands) \in Nat
<1>1. IsFiniteSet(Files)
  BY LintToolAssumption
<1>2. \A S \in SUBSET Files : IsFiniteSet(S) /\ Cardinality(S) \in Nat
  BY <1>1, FS_Subset, FS_CardinalityType
<1>3. /\ Changed \in SUBSET Files /\ unvisited \in SUBSET Files
      /\ result.passes \in SUBSET Files /\ result.fails \in SUBSET Files
      /\ (Changed \ unvisited) \in SUBSET Files
      /\ (DeletedFiles \ unvisited) \in SUBSET Files
  BY DEF TypeOK, ResultType, DeletedFiles
<1>4. Len(result.ignored) \in Nat /\ Len(result.failed_commands) \in Nat
  BY LenProperties DEF TypeOK, ResultType
<1> QED BY <1>2, <1>3, <1>4

\* Finishing with one file grows the finished files by that one.
LEMMA Visited ==
  ASSUME TypeOK, NEW f \in unvisited, unvisited' = unvisited \ {f}, UNCHANGED deltas
  PROVE  /\ Changed' = Changed /\ DeletedFiles' = DeletedFiles
         /\ Cardinality(Changed' \ unvisited') = Cardinality(Changed \ unvisited) + 1
         /\ Cardinality(DeletedFiles' \ unvisited') =
              IF deltas[f] = "deleted" THEN Cardinality(DeletedFiles \ unvisited) + 1
                                       ELSE Cardinality(DeletedFiles \ unvisited)
<1>1. Changed' = Changed /\ DeletedFiles' = DeletedFiles
  BY DEF Changed, DeletedFiles
<1>2. f \in Changed /\ f \notin Changed \ unvisited /\ f \notin DeletedFiles \ unvisited
  BY DEF TypeOK
<1>3. Changed' \ unvisited' = (Changed \ unvisited) \cup {f}
  BY <1>1, <1>2
<1>4. DeletedFiles' \ unvisited' =
        IF deltas[f] = "deleted" THEN (DeletedFiles \ unvisited) \cup {f}
                                 ELSE DeletedFiles \ unvisited
  BY <1>1, <1>2 DEF DeletedFiles
<1>5. Cardinality(Changed' \ unvisited') = Cardinality(Changed \ unvisited) + 1
  BY <1>2, <1>3, Finite, FS_AddElement
<1>6. /\ IsFiniteSet(DeletedFiles \ unvisited)
      /\ Cardinality(DeletedFiles \ unvisited) \in Nat
      /\ Cardinality((DeletedFiles \ unvisited) \cup {f}) = Cardinality(DeletedFiles \ unvisited) + 1
  BY <1>2, Finite, FS_AddElement
<1>7. CASE deltas[f] = "deleted"
  BY <1>1, <1>4, <1>5, <1>6, <1>7
<1>8. CASE deltas[f] # "deleted"
  BY <1>1, <1>4, <1>5, <1>6, <1>8
<1> QED BY <1>7, <1>8

LEMMA StepStart == IInv /\ Start => IInv'
<1> SUFFICES ASSUME IInv, Start PROVE IInv'
  OBVIOUS
<1>1. TypeOK'
  BY TypeStep DEF IInv, Next
<1>2. UNCHANGED <<kind, option, deltas, execs, result>>
  BY DEF Start
<1>3. execs = <<>> /\ result = EmptyResult /\ phase' = "checking" /\ unvisited' = Changed
  BY DEF IInv, Phases, Start
<1>4. Changed' \ unvisited' = {} /\ DeletedFiles' \ unvisited' = {}
      /\ Required' \ unvisited' = {}
  BY <1>2, <1>3, Unlearned DEF DeletedFiles, Required
<1>5. Cardinality({}) = 0 /\ Len(<<>>) = 0
  BY FS_EmptySet
<1>6. Phases' /\ Covered'
  BY <1>2, <1>3, <1>4 DEF Phases, Covered, EmptyResult
<1>7. Logged' /\ Judged'
  BY <1>2, <1>3, Unlearned DEF IInv, Logged, Judged, Commands
<1>8. Counted'
  <2>1. /\ Cardinality(Changed' \ unvisited') = 0
        /\ Cardinality(DeletedFiles' \ unvisited') = 0
    BY <1>4, <1>5
  <2>2. /\ Len(result'.failed_commands) = 0 /\ Len(result'.ignored) = 0
        /\ Cardinality(result'.passes) = 0 /\ Cardinality(result'.fails) = 0
    BY <1>2, <1>3, <1>5 DEF EmptyResult
  <2> QED BY <2>1, <2>2 DEF Counted
<1> QED BY <1>1, <1>6, <1>7, <1>8 DEF IInv

LEMMA StepSkipDeleted ==
  ASSUME IInv, NEW f \in Files, SkipDeleted(f) PROVE IInv'
<1>1. TypeOK'
  BY TypeStep DEF IInv, Next
<1>2. /\ phase = "checking" /\ f \in unvisited /\ deltas[f] = "deleted"
      /\ unvisited' = unvisited \ {f}
      /\ UNCHANGED <<kind, option, deltas, execs, result, phase>>
  BY DEF SkipDeleted, Visits, IsDeleted
<1>3. Phases'
  BY <1>2 DEF IInv, Phases
<1>4. Logged' /\ Judged'
  BY <1>2, Unlearned DEF IInv, Logged, Judged, Commands
<1>5. Covered'
  BY <1>2, Unlearned DEF IInv, Covered, Required
<1>6. Counted'
  <2>1. TypeOK /\ UNCHANGED deltas /\ f \in unvisited /\ unvisited' = unvisited \ {f}
    BY <1>2 DEF IInv
  <2>2. Cardinality(Changed' \ unvisited') = Cardinality(Changed \ unvisited) + 1
    BY <2>1, Visited
  <2>3. Cardinality(DeletedFiles' \ unvisited') = Cardinality(DeletedFiles \ unvisited) + 1
    BY <2>1, <1>2, Visited
  <2> DEFINE all == Cardinality(Changed \ unvisited)
             gone == Cardinality(DeletedFiles \ unvisited)
             passed == Cardinality(result.passes)
             failed == Cardinality(result.fails)
             ignored == Len(result.ignored)
  <2>4. all \in Nat /\ gone \in Nat /\ passed \in Nat /\ failed \in Nat /\ ignored \in Nat
    BY <2>1, Finite
  <2>5. all' = all + 1 /\ gone' = gone + 1 /\ result' = result
    BY <1>2, <2>2, <2>3
  <2>6. Len(result.failed_commands) = failed /\ all = passed + failed + ignored + gone
    BY <1>2 DEF IInv, Counted
  <2>7. passed' = passed /\ failed' = failed /\ ignored' = ignored
    BY <2>5
  <2>8. all' = passed' + failed' + ignored' + gone'
    <3> HIDE DEF all, gone, passed, failed, ignored
    <3> QED BY <2>4, <2>5, <2>6, <2>7
  <2> QED BY <2>5, <2>6, <2>8 DEF Counted
<1> QED BY <1>1, <1>3, <1>4, <1>5, <1>6 DEF IInv

LEMMA StepRejectRegex ==
  ASSUME IInv, NEW f \in Files, RejectRegex(f) PROVE IInv'
<1>1. TypeOK'
  BY TypeStep DEF IInv, Next
<1>2. /\ phase = "checking" /\ phase' = "thrown"
      /\ UNCHANGED <<kind, option, deltas, unvisited, execs, result>>
  BY DEF RejectRegex, Visits
<1>3. Phases'
  BY <1>2 DEF IInv, Phases
<1>4. Logged' /\ Judged' /\ Covered' /\ Counted'
  BY <1>2, Unlearned DEF IInv, Logged, Judged, Covered, Counted, Commands
<1> QED BY <1>1, <1>3, <1>4 DEF IInv

LEMMA StepIgnoreFile ==
  ASSUME IInv, NEW f \in Files, IgnoreFile(f) PROVE IInv'
<1>1. TypeOK'
  BY TypeStep DEF IInv, Next
<1>2. /\ phase = "checking" /\ f \in unvisited /\ deltas[f] # "deleted"
      /\ f \notin option.selected
      /\ unvisited' = unvisited \ {f}
      /\ UNCHANGED <<kind, option, deltas, execs, phase>>
  BY DEF IgnoreFile, Visits, IsDeleted, IsFiltered
<1>3. /\ result'.passes = result.passes /\ result'.fails = result.fails
      /\ result'.diagnosed = result.diagnosed
      /\ result'.failed_commands = result.failed_commands
      /\ result'.final_passed = result.final_passed
      /\ result'.fastly_exited = result.fastly_exited
      /\ result'.ignored = Append(result.ignored, f)
  BY DEF IInv, TypeOK, IgnoreFile
<1>4. Phases'
  BY <1>2, <1>3 DEF IInv, Phases
<1>5. Logged' /\ Judged'
  BY <1>2, <1>3, Unlearned DEF IInv, Logged, Judged, Commands
<1>6. Covered'
  BY <1>2, <1>3, Unlearned DEF IInv, Covered, Required
<1>7. Len(result'.ignored) = Len(result.ignored) + 1
  BY <1>3, AppendProperties DEF IInv, TypeOK
<1>8. Counted'
  <2>3. TypeOK /\ UNCHANGED deltas /\ f \in unvisited /\ unvisited' = unvisited \ {f}
    BY <1>2 DEF IInv
  <2>1. Cardinality(Changed' \ unvisited') = Cardinality(Changed \ unvisited) + 1
    BY <2>3, Visited
  <2>2. Cardinality(DeletedFiles' \ unvisited') = Cardinality(DeletedFiles \ unvisited)
    BY <2>3, <1>2, Visited
  <2> QED BY <1>2, <1>3, <1>7, <2>1, <2>2, Finite DEF IInv, Counted
<1> QED BY <1>1, <1>4, <1>5, <1>6, <1>8 DEF IInv

\* Running a child on a file that is not finished with keeps it a first run.
LEMMA ExecutesOnce ==
  ASSUME IInv, NEW f \in Files, NEW res \in Results, Executes(f, res),
         UNCHANGED <<option, deltas>>
  PROVE  /\ RunsOncePerRequiredFile'
         /\ \A i \in DOMAIN execs' : execs'[i].file = f \/ execs'[i].file \notin unvisited
         /\ f \notin GoodFiles /\ f \notin BadFiles
<1> DEFINE e == [file |-> f, res |-> res]
<1>1. e \in Execs /\ e.file = f /\ execs \in Seq(Execs)
  BY DEF Execs, IInv, TypeOK
<1>2. /\ phase = "checking" /\ f \in unvisited /\ execs' = Append(execs, e)
      /\ deltas[f] # "deleted" /\ f \in option.selected
  BY DEF Executes, Visits, IsDeleted, IsFiltered
<1> HIDE DEF e
<1>3. /\ DOMAIN execs = 1 .. Len(execs)
      /\ DOMAIN execs' = 1 .. Len(execs) + 1
      /\ \A i \in 1 .. Len(execs) : execs'[i] = execs[i]
      /\ execs'[Len(execs) + 1] = e
  BY <1>1, <1>2, AppendRange
<1>4. Len(execs) \in Nat
  BY <1>1, LenProperties
<1>5. \A i \in DOMAIN execs : execs[i].file \notin unvisited
  BY <1>2 DEF IInv, Logged
<1>6. f \in Required /\ Required' = Required
  BY <1>2 DEF IInv, TypeOK, Required, Changed
<1>7. /\ \A i \in DOMAIN execs : execs[i].file \in Required
      /\ \A i, j \in DOMAIN execs : execs[i].file = execs[j].file => i = j
  BY DEF IInv, Logged, RunsOncePerRequiredFile
<1>8. \A i \in DOMAIN execs' : i \in DOMAIN execs \/ i = Len(execs) + 1
  BY <1>3, <1>4
<1>9. \A i \in DOMAIN execs' : execs'[i].file \in Required'
  BY <1>1, <1>3, <1>6, <1>7, <1>8
<1>10. \A i \in DOMAIN execs : execs[i].file # f
  BY <1>2, <1>5
<1>11. ASSUME NEW i \in DOMAIN execs', NEW j \in DOMAIN execs', execs'[i].file = execs'[j].file
       PROVE  i = j
  BY <1>1, <1>3, <1>7, <1>8, <1>10, <1>11
<1>12. \A i \in DOMAIN execs' : execs'[i].file = f \/ execs'[i].file \notin unvisited
  BY <1>1, <1>3, <1>5, <1>8
<1> QED BY <1>9, <1>10, <1>11, <1>12 DEF RunsOncePerRequiredFile, GoodFiles, BadFiles

LEMMA StepPassFile ==
  ASSUME IInv, NEW f \in Files, NEW res \in Results, PassFile(f, res) PROVE IInv'
<1>1. TypeOK'
  BY TypeStep DEF IInv, Next, CheckFile
<1>2. /\ Executes(f, res) /\ Passes(res) /\ ~Fails(res)
      /\ phase = "checking" /\ f \in unvisited /\ deltas[f] # "deleted"
      /\ unvisited' = unvisited \ {f}
      /\ UNCHANGED <<kind, option, deltas, phase>>
  BY DEF PassFile, Executes, Visits, IsDeleted, Fails
<1>3. /\ result'.passes = result.passes \cup {f} /\ result'.fails = result.fails
      /\ result'.diagnosed = result.diagnosed
      /\ result'.failed_commands = result.failed_commands
      /\ result'.final_passed = result.final_passed
      /\ result'.fastly_exited = result.fastly_exited
      /\ result'.ignored = result.ignored
  BY DEF IInv, TypeOK, PassFile
<1>4. GoodFiles' = GoodFiles \cup {f} /\ BadFiles' = BadFiles /\ DiagnosedFiles' = DiagnosedFiles
  BY <1>2, ExecutesLearns DEF IInv, Executes
<1>5. Phases'
  BY <1>2, <1>3 DEF IInv, Phases
<1>6. Logged'
  BY <1>2, ExecutesOnce DEF Logged
<1>7. Judged'
  BY <1>3, <1>4 DEF IInv, Judged, Commands
<1>8. Covered'
  BY <1>2, <1>3 DEF IInv, Covered, Required, Changed
<1>9. Cardinality(result'.passes) = Cardinality(result.passes) + 1
  <2>1. f \notin result.passes
    BY <1>2, ExecutesOnce DEF IInv, Judged
  <2> QED BY <1>3, <2>1, Finite, FS_AddElement DEF IInv
<1>10. Counted'
  <2>3. TypeOK /\ UNCHANGED deltas /\ f \in unvisited /\ unvisited' = unvisited \ {f}
    BY <1>2 DEF IInv
  <2>1. Cardinality(Changed' \ unvisited') = Cardinality(Changed \ unvisited) + 1
    BY <2>3, Visited
  <2>2. Cardinality(DeletedFiles' \ unvisited') = Cardinality(DeletedFiles \ unvisited)
    BY <2>3, <1>2, Visited
  <2> QED BY <1>2, <1>3, <1>9, <2>1, <2>2, Finite DEF IInv, Counted
<1> QED BY <1>1, <1>5, <1>6, <1>7, <1>8, <1>10 DEF IInv

\* A failed file: the tables, the commands and the numbers, whether or not the
\* tool goes on afterwards.
LEMMA FailBookkeeping ==
  ASSUME IInv, NEW f \in Files, NEW res \in Results, Executes(f, res), Fails(res),
         unvisited' = unvisited \ {f}, UNCHANGED <<kind, option, deltas>>,
         result'.passes = result.passes, result'.ignored = result.ignored,
         result'.fails = result.fails \cup {f},
         result'.diagnosed = result.diagnosed \cup (IF HasDiags(res) THEN {f} ELSE {}),
         result'.failed_commands = Append(result.failed_commands, f),
         phase' \in {"checking", "done"}
  PROVE  Logged' /\ Judged' /\ Covered' /\ Counted'
<1>1. /\ ~Passes(res) /\ TypeOK /\ UNCHANGED deltas
      /\ phase = "checking" /\ f \in unvisited /\ deltas[f] # "deleted"
  BY DEF IInv, Executes, Visits, IsDeleted, Fails
<1>2. /\ GoodFiles' = GoodFiles /\ BadFiles' = BadFiles \cup {f}
      /\ DiagnosedFiles' = DiagnosedFiles \cup (IF HasDiags(res) THEN {f} ELSE {})
  <2>1. execs' = Append(execs, [file |-> f, res |-> res]) /\ kind' = kind
    BY DEF Executes
  <2> QED BY <1>1, <2>1, ExecutesLearns
<1>3. Commands' = Commands \cup {f}
  <2>1. result.failed_commands \in Seq(Files)
    BY <1>1 DEF TypeOK, ResultType
  <2>2. Commands' = {Append(result.failed_commands, f)[i] :
                       i \in DOMAIN Append(result.failed_commands, f)}
    BY DEF Commands
  <2>3. @ = Commands \cup {f}
    BY <2>1, AppendRange DEF Commands
  <2> QED BY <2>2, <2>3
<1>4. Logged'
  BY ExecutesOnce DEF Logged
<1>5. Judged'
  BY <1>2, <1>3 DEF IInv, Judged
<1>6. Covered'
  BY <1>1 DEF IInv, Covered, Required, Changed
<1>7. Cardinality(result'.fails) = Cardinality(result.fails) + 1
  <2>1. f \notin result.fails
    BY ExecutesOnce DEF IInv, Judged
  <2>2. IsFiniteSet(result.fails)
    BY <1>1, Finite
  <2> QED BY <2>1, <2>2, FS_AddElement
<1>8. Len(result'.failed_commands) = Len(result.failed_commands) + 1
  BY <1>1, AppendProperties DEF TypeOK
<1>9. Counted'
  <2>1. Cardinality(Changed' \ unvisited') = Cardinality(Changed \ unvisited) + 1
    BY <1>1, Visited
  <2>2. Cardinality(DeletedFiles' \ unvisited') = Cardinality(DeletedFiles \ unvisited)
    BY <1>1, Visited
  <2> QED BY <1>1, <1>7, <1>8, <2>1, <2>2, Finite DEF IInv, Counted
<1> QED BY <1>4, <1>5, <1>6, <1>9

LEMMA StepFailFile ==
  ASSUME IInv, NEW f \in Files, NEW res \in Results, FailFile(f, res) PROVE IInv'
<1>1. TypeOK'
  BY TypeStep DEF IInv, Next, CheckFile
<1>2. /\ Executes(f, res) /\ Fails(res) /\ ~option.enabled_fastly_exit
      /\ phase = "checking"
      /\ unvisited' = unvisited \ {f}
      /\ UNCHANGED <<kind, option, deltas, phase>>
  BY DEF FailFile, Executes, Visits, StopsEarly
<1>3. /\ result'.passes = result.passes /\ result'.fails = result.fails \cup {f}
      /\ result'.diagnosed = result.diagnosed \cup (IF HasDiags(res) THEN {f} ELSE {})
      /\ result'.failed_commands = Append(result.failed_commands, f)
      /\ result'.final_passed = result.final_passed
      /\ result'.fastly_exited = result.fastly_exited
      /\ result'.ignored = result.ignored
  BY DEF IInv, TypeOK, FailFile, Failed
<1>4. Phases'
  BY <1>2, <1>3 DEF IInv, Phases
<1> QED BY <1>1, <1>2, <1>3, <1>4, FailBookkeeping DEF IInv

LEMMA StepFailFast ==
  ASSUME IInv, NEW f \in Files, NEW res \in Results, FailFast(f, res) PROVE IInv'
<1>1. TypeOK'
  BY TypeStep DEF IInv, Next, CheckFile
<1>2. /\ Executes(f, res) /\ Fails(res)
      /\ phase = "checking" /\ phase' = "done"
      /\ unvisited' = unvisited \ {f}
      /\ UNCHANGED <<kind, option, deltas>>
  BY DEF FailFast, Executes, Visits
<1>3. /\ result'.passes = result.passes /\ result'.fails = result.fails \cup {f}
      /\ result'.diagnosed = result.diagnosed \cup (IF HasDiags(res) THEN {f} ELSE {})
      /\ result'.failed_commands = Append(result.failed_commands, f)
      /\ ~result'.final_passed
      /\ result'.fastly_exited
      /\ result'.ignored = result.ignored
  BY DEF IInv, TypeOK, FailFast, Failed
<1>4. Phases'
  BY <1>2, <1>3 DEF IInv, Phases
<1> QED BY <1>1, <1>2, <1>3, <1>4, FailBookkeeping DEF IInv

LEMMA StepThrowFile ==
  ASSUME IInv, NEW f \in Files, NEW res \in Results, ThrowFile(f, res) PROVE IInv'
<1>1. TypeOK'
  BY TypeStep DEF IInv, Next, CheckFile
<1>2. /\ Executes(f, res) /\ ~Passes(res) /\ ~Fails(res)
      /\ phase = "checking" /\ phase' = "thrown"
      /\ UNCHANGED <<kind, option, deltas, unvisited, result>>
  BY DEF ThrowFile, Executes, Visits, Fails, Passes
<1>3. GoodFiles' = GoodFiles /\ BadFiles' = BadFiles /\ DiagnosedFiles' = DiagnosedFiles
  BY <1>2, ExecutesLearns DEF IInv, Executes
<1>4. Phases'
  BY <1>2 DEF IInv, Phases
<1>5. Logged'
  BY <1>2, ExecutesOnce DEF Logged
<1>6. Judged' /\ Covered' /\ Counted'
  BY <1>2, <1>3 DEF IInv, Judged, Covered, Counted, Commands, Required, Changed
<1> QED BY <1>1, <1>4, <1>5, <1>6 DEF IInv

LEMMA StepFinish == IInv /\ Finish => IInv'
<1> SUFFICES ASSUME IInv, Finish PROVE IInv'
  OBVIOUS
<1>1. TypeOK'
  BY TypeStep DEF IInv, Next
<1>2. /\ phase = "checking" /\ phase' = "done" /\ unvisited = {}
      /\ UNCHANGED <<kind, option, deltas, unvisited, execs>>
  BY DEF Finish, LoopEnds
<1>3. /\ result'.passes = result.passes /\ result'.fails = result.fails
      /\ result'.failed_commands = result.failed_commands
      /\ result'.diagnosed = result.diagnosed
      /\ result'.final_passed = (result.fails = {})
      /\ result'.fastly_exited = result.fastly_exited
      /\ result'.ignored = result.ignored
  BY DEF IInv, TypeOK, Finish, FinalPassed
<1>4. Phases'
  BY <1>2, <1>3 DEF IInv, Phases
<1>5. Logged' /\ Judged' /\ Covered' /\ Counted'
  BY <1>2, <1>3, Unlearned DEF IInv, Logged, Judged, Covered, Counted, Commands
<1> QED BY <1>1, <1>4, <1>5 DEF IInv

LEMMA InvStep == IInv /\ [Next]_vars => IInv'
<1> SUFFICES ASSUME IInv, [Next]_vars PROVE IInv'
  OBVIOUS
<1>1. CASE Start
  BY <1>1, StepStart
<1>2. ASSUME NEW f \in Files, SkipDeleted(f) \/ RejectRegex(f) \/ IgnoreFile(f) PROVE IInv'
  BY <1>2, StepSkipDeleted, StepRejectRegex, StepIgnoreFile
<1>3. ASSUME NEW f \in Files, NEW res \in Results, CheckFile(f, res) PROVE IInv'
  BY <1>3, StepPassFile, StepFailFile, StepFailFast, StepThrowFile DEF CheckFile
<1>4. CASE Finish
  BY <1>4, StepFinish
<1>5. CASE UNCHANGED vars
  <2>1. TypeOK'
    BY <1>5, TypeStep DEF IInv
  <2> QED BY <1>5, <2>1, Unlearned
          DEF IInv, vars, Phases, Logged, Judged, Covered, Counted, Commands
<1> QED BY <1>1, <1>2, <1>3, <1>4, <1>5 DEF Next

THEOREM Invariance == Spec => []IInv
BY InvInit, InvStep, PTL DEF Spec

-------------------------------------------------------------------------------
(* What the invariant gives.                                                *)

\* A file's one child cannot have answered both ways.
LEMMA GoodIsNotBad == IInv => GoodFiles \cap BadFiles = {}
BY DEF IInv, Logged, RunsOncePerRequiredFile, GoodFiles, BadFiles, Fails

LEMMA KnownFilesAreRequired == IInv => GoodFiles \subseteq Required /\ BadFiles \subseteq Required
BY DEF IInv, Logged, RunsOncePerRequiredFile, GoodFiles, BadFiles

LEMMA VerdictFollows == IInv => VerdictSound
<1> SUFFICES ASSUME IInv, phase = "done"
             PROVE  result.final_passed <=> Required \subseteq GoodFiles
  BY DEF VerdictSound
<1>1. GoodFiles \cap BadFiles = {} /\ BadFiles \subseteq Required
  BY GoodIsNotBad, KnownFilesAreRequired
<1>2. /\ result.passes = GoodFiles /\ result.fails = BadFiles
      /\ Required \ unvisited \subseteq GoodFiles \cup BadFiles
  BY DEF IInv, Judged, Covered
<1>3. CASE ~result.fastly_exited
  BY <1>1, <1>2, <1>3 DEF IInv, Phases
<1>4. CASE result.fastly_exited
  BY <1>1, <1>2, <1>4 DEF IInv, Phases
<1> QED BY <1>3, <1>4

\* A tool says "passed" exactly when the child answered well for every file it
\* had to look at (the verdict of clang_*_general::check).
THEOREM VerdictIsSound == Spec => []VerdictSound
BY Invariance, VerdictFollows, PTL

\* No child is run twice on a file, on a deleted one or on a filtered one.
THEOREM RunsOnce == Spec => []RunsOncePerRequiredFile
<1>1. IInv => RunsOncePerRequiredFile
  BY DEF IInv, Logged
<1> QED BY <1>1, Invariance, PTL

\* The reproduction commands are those of the failed files, one for each.
THEOREM FailuresAreReproducible == Spec => []FailuresReproducible
<1>1. IInv => FailuresReproducible
  BY DEF IInv, Judged, Counted, FailuresReproducible
<1> QED BY <1>1, Invariance, PTL

\* The printed numbers add up to the number of changed files.
THEOREM NumbersAddUp == Spec => []Accounting
<1>1. ASSUME IInv, phase = "done", ~result.fastly_exited
      PROVE  Cardinality(Changed) =
               Cardinality(result.passes) + Cardinality(result.fails)
                 + Len(result.ignored) + Cardinality(DeletedFiles)
  <2>1. unvisited = {}
    BY <1>1 DEF IInv, Phases
  <2>2. Changed \ unvisited = Changed /\ DeletedFiles \ unvisited = DeletedFiles
    BY <2>1
  <2> QED BY <1>1, <2>2 DEF IInv, Counted
<1>2. IInv => Accounting
  BY <1>1 DEF Accounting, DeletedFiles
<1> QED BY <1>2, Invariance, PTL

\* With enabled_fastly_exit, a failure is the last thing a tool runs.
THEOREM FastExitIsLast == Spec => FastExitStops
<1>1. ASSUME IInv, [Next]_vars, option.enabled_fastly_exit, BadFiles # {}
      PROVE  UNCHANGED execs
  <2>1. phase = "done"
    BY <1>1 DEF IInv, Phases, Judged
  <2> QED BY <1>1, <2>1
          DEF Next, vars, Start, SkipDeleted, RejectRegex, IgnoreFile, CheckFile, PassFile,
              FailFile, FailFast, ThrowFile, Executes, Visits, Finish
<1>2. IInv /\ [Next]_vars => [option.enabled_fastly_exit /\ BadFiles # {} => UNCHANGED execs]_vars
  BY <1>1
<1> QED BY <1>2, Invariance, PTL DEF Spec, FastExitStops

-------------------------------------------------------------------------------
(* The loop implements the abstract tool.                                   *)

LEMMA ShownIsPending == phase \in {"idle", "checking"} => ShownVerdict = "pending"
BY DEF ShownVerdict

LEMMA RefinesInit == Init => Verdict!Init
<1> SUFFICES ASSUME Init PROVE Verdict!Init
  OBVIOUS
<1>1. IInv /\ phase = "idle" /\ DOMAIN execs = {}
  BY InvInit DEF Init
<1>2. GoodFiles = {} /\ BadFiles = {} /\ Required \in SUBSET Files
  BY <1>1 DEF GoodFiles, BadFiles, Required, IInv, TypeOK
<1>3. ShownVerdict = "pending"
  BY <1>1, ShownIsPending
<1> QED BY <1>2, <1>3 DEF Verdict!Init, ShownVerdict

LEMMA RefinesStep == IInv /\ IInv' /\ [Next]_vars => [Verdict!Next]_(Verdict!vars)
<1> SUFFICES ASSUME IInv, IInv', [Next]_vars
             PROVE  \/ Verdict!Next
                    \/ UNCHANGED <<Required, GoodFiles, BadFiles, ShownVerdict>>
  BY DEF Verdict!vars, ShownVerdict
<1>1. CASE Start \/ \E f \in Files : SkipDeleted(f) \/ IgnoreFile(f)
  <2>1. /\ UNCHANGED <<kind, option, deltas, execs>>
        /\ phase \in {"idle", "checking"} /\ phase' \in {"idle", "checking"}
    BY <1>1 DEF Start, SkipDeleted, IgnoreFile, Visits
  <2>2. ShownVerdict = "pending" /\ ShownVerdict' = "pending"
    BY <2>1 DEF ShownVerdict
  <2> QED BY <2>1, <2>2, Unlearned
<1>2. CASE \E f \in Files : RejectRegex(f)
  <2>1. /\ UNCHANGED <<kind, option, deltas, execs>>
        /\ phase = "checking" /\ phase' = "thrown"
    BY <1>2 DEF RejectRegex, Visits
  <2>2. ShownVerdict = "pending" /\ ShownVerdict' = "aborted"
    BY <2>1 DEF ShownVerdict
  <2>3. UNCHANGED <<Required, GoodFiles, BadFiles>>
    BY <2>1, Unlearned
  <2>4. Verdict!Abort
    BY <2>2, <2>3 DEF Verdict!Abort, ShownVerdict
  <2> QED BY <2>4 DEF Verdict!Next
<1>3. ASSUME NEW f \in Files, NEW res \in Results, CheckFile(f, res)
      PROVE  Verdict!Next
  <2>1. /\ Executes(f, res) /\ TypeOK /\ execs' = Append(execs, [file |-> f, res |-> res])
        /\ kind' = kind /\ UNCHANGED <<option, deltas>> /\ phase = "checking"
    BY <1>3 DEF IInv, CheckFile, PassFile, FailFile, FailFast, ThrowFile, Executes, Visits
  <2>2. /\ GoodFiles' = GoodFiles \cup (IF Passes(res) THEN {f} ELSE {})
        /\ BadFiles' = BadFiles \cup (IF Fails(res) THEN {f} ELSE {})
    BY <2>1, ExecutesLearns
  <2>3. Required' = Required /\ f \in Required /\ f \notin GoodFiles /\ f \notin BadFiles
    BY <2>1, ExecutesOnce
    DEF Required, Changed, Executes, Visits, IsDeleted, IsFiltered, TypeOK
  <2>4. ShownVerdict = "pending"
    BY <2>1, ShownIsPending
  <2>5. CASE PassFile(f, res)
    <3>1. Passes(res) /\ ~Fails(res) /\ phase' = "checking"
      BY <2>1, <2>5 DEF PassFile, Fails
    <3>2. ShownVerdict' = "pending"
      BY <3>1 DEF ShownVerdict
    <3>3. Verdict!LearnGood(f)
      BY <2>2, <2>3, <2>4, <3>1, <3>2
      DEF Verdict!LearnGood, Verdict!Unknown, ShownVerdict
    <3> QED BY <3>3 DEF Verdict!Next
  <2>6. CASE FailFile(f, res) \/ FailFast(f, res)
    <3>1. /\ ~Passes(res) /\ Fails(res)
          /\ \/ phase' = "checking"
             \/ phase' = "done" /\ ~result'.final_passed
      BY <2>1, <2>6 DEF FailFile, FailFast, Fails, Failed, TypeOK, ResultType
    <3>2. ShownVerdict' \in {"pending", "failed"}
      BY <3>1 DEF ShownVerdict
    <3>3. Verdict!LearnBad(f)
      BY <2>2, <2>3, <2>4, <3>1, <3>2
      DEF Verdict!LearnBad, Verdict!Unknown, ShownVerdict
    <3> QED BY <3>3 DEF Verdict!Next
  <2>7. CASE ThrowFile(f, res)
    <3>1. ~Passes(res) /\ ~Fails(res) /\ phase' = "thrown"
      BY <2>7 DEF ThrowFile, Passes, Fails
    <3>2. ShownVerdict' = "aborted"
      BY <3>1 DEF ShownVerdict
    <3>3. Verdict!Abort
      BY <2>2, <2>3, <2>4, <3>1, <3>2 DEF Verdict!Abort, ShownVerdict
    <3> QED BY <3>3 DEF Verdict!Next
  <2> QED BY <1>3, <2>5, <2>6, <2>7 DEF CheckFile
<1>4. CASE Finish
  <2>1. /\ UNCHANGED <<kind, option, deltas, execs>>
        /\ phase = "checking" /\ phase' = "done" /\ unvisited = {}
        /\ result'.final_passed = (result.fails = {})
    BY <1>4 DEF Finish, LoopEnds, FinalPassed, IInv, TypeOK
  <2>2. UNCHANGED <<Required, GoodFiles, BadFiles>>
    BY <2>1, Unlearned
  <2>3. /\ BadFiles = result.fails /\ Required \subseteq GoodFiles \cup BadFiles
        /\ GoodFiles \subseteq Required
    BY <2>1, KnownFilesAreRequired DEF IInv, Judged, Covered
  <2>4. /\ ShownVerdict = "pending"
        /\ ShownVerdict' = IF BadFiles = {} THEN "passed" ELSE "failed"
    BY <2>1, <2>3 DEF ShownVerdict
  <2>5. Verdict!Conclude
    BY <2>2, <2>3, <2>4 DEF Verdict!Conclude, Verdict!Unknown, ShownVerdict
  <2> QED BY <2>5 DEF Verdict!Next
<1>5. CASE UNCHANGED vars
  BY <1>5, Unlearned DEF vars, ShownVerdict
<1> QED BY <1>1, <1>2, <1>3, <1>4, <1>5 DEF Next

\* Every behaviour of the loop is, through its verdict, one of LintVerdict.
THEOREM LoopImplementsVerdict == Spec => RefinesVerdict
<1>1. Init => Verdict!Init
  BY RefinesInit
<1>2. IInv /\ IInv' /\ [Next]_vars => [Verdict!Next]_(Verdict!vars)
  BY RefinesStep
<1> QED BY <1>1, <1>2, Invariance, PTL DEF Spec, RefinesVerdict, Verdict!Spec

-------------------------------------------------------------------------------
(* What a run that goes through several loops, one after the other, uses.    *)

\* A loop that has not begun is in an initial state.
LEMMA IdleIsInitial == IInv /\ phase = "idle" => Init
BY DEF IInv, TypeOK, Phases, Init, Changed

\* A loop that has ended did not pass exactly when it knows of a bad file, and when
\* it passed it knows every required file to be good.
LEMMA DoneMeans ==
  IInv /\ phase = "done" =>
    /\ result.fails = BadFiles /\ result.diagnosed = DiagnosedFiles
    /\ result.final_passed <=> BadFiles = {}
    /\ result.final_passed => Required \subseteq GoodFiles
<1>1. IInv => VerdictSound
  BY VerdictFollows
<1> QED BY <1>1 DEF IInv, Judged, Phases, VerdictSound

\* A step of the loop learns of one bad file at most.
LEMMA OneBadFileAtATime ==
  ASSUME IInv, Next
  PROVE  /\ UNCHANGED <<kind, option, deltas>>
         /\ BadFiles' = BadFiles \/ \E f \in Files : BadFiles' = BadFiles \cup {f}
<1>1. UNCHANGED <<kind, option, deltas>>
  BY DEF Next, Start, SkipDeleted, RejectRegex, IgnoreFile, CheckFile, PassFile, FailFile,
         FailFast, ThrowFile, Finish
<1>2. CASE execs' = execs
  BY <1>1, <1>2, Unlearned
<1>3. ASSUME NEW f \in Files, NEW res \in Results, CheckFile(f, res)
      PROVE  BadFiles' = BadFiles \/ BadFiles' = BadFiles \cup {f}
  <2>1. execs' = Append(execs, [file |-> f, res |-> res])
    BY <1>3 DEF CheckFile, PassFile, FailFile, FailFast, ThrowFile, Executes
  <2>2. BadFiles' = BadFiles \cup (IF Fails(res) THEN {f} ELSE {})
    BY <1>1, <2>1, ExecutesLearns DEF IInv
  <2> QED BY <2>2
<1> QED BY <1>1, <1>2, <1>3 DEF Next, Start, SkipDeleted, RejectRegex, IgnoreFile, Finish
===============================================================================
