-------------------------- MODULE ReviewPositionProofs --------------------------
(****************************************************************************)
(* Where the review comments go, for any patch and any diagnostics of it.   *)
(****************************************************************************)
EXTENDS ReviewPosition, FiniteSetTheorems, SequenceTheorems, TLAPS

\* The lines of a hunk that have some of the origins are finitely many of its lines.
LEMMA LinesFinite ==
  ASSUME NEW hunk \in Hunk, NEW origins
  PROVE  /\ Lines(hunk, origins) \subseteq 1 .. Len(hunk.lines)
         /\ IsFiniteSet(Lines(hunk, origins))
         /\ Cardinality(Lines(hunk, origins)) \in Nat
<1>1. hunk.lines \in Seq(Origins)
  BY DEF Hunk
<1>2. DOMAIN hunk.lines = 1 .. Len(hunk.lines) /\ Len(hunk.lines) \in Nat
  BY <1>1, LenProperties
<1>3. Lines(hunk, origins) \subseteq 1 .. Len(hunk.lines)
  BY <1>2 DEF Lines
<1>4. IsFiniteSet(1 .. Len(hunk.lines))
  BY <1>2, FS_Interval
<1>5. IsFiniteSet(Lines(hunk, origins))
  BY <1>3, <1>4, FS_Subset
<1> QED BY <1>3, <1>5, FS_CardinalityType

\* What a well-formed patch is made of.
LEMMA HunkFacts ==
  ASSUME WellFormed(patch), NEW h \in DOMAIN patch
  PROVE  /\ DOMAIN patch = 1 .. Len(patch)
         /\ Len(patch) \in Nat
         /\ patch[h] \in Hunk
         /\ patch[h].new_start \in Nat
         /\ NewLines(patch[h]) \in Nat
         /\ DOMAIN patch[h].lines = 1 .. Len(patch[h].lines)
         /\ NumLines(patch[h]) = Len(patch[h].lines)
         /\ Len(patch[h].lines) \in Nat
<1>1. patch \in Seq(Hunk)
  BY DEF WellFormed
<1>2. DOMAIN patch = 1 .. Len(patch) /\ Len(patch) \in Nat
  BY <1>1, LenProperties
<1>3. patch[h] \in Hunk
  BY <1>1, <1>2, ElementOfSeq
<1>4. patch[h].new_start \in Nat /\ patch[h].lines \in Seq(Origins)
  BY <1>3 DEF Hunk
<1>5. NewLines(patch[h]) \in Nat
  BY <1>3, LinesFinite DEF NewLines
<1> QED BY <1>2, <1>3, <1>4, <1>5, LenProperties DEF NumLines

\* A row is in one hunk at most, even with the row after its last taken for its own.
LEMMA OneHunk ==
  ASSUME WellFormed(patch), NEW g \in DOMAIN patch, NEW h \in DOMAIN patch, NEW row \in Nat,
         IsRowInHunk(patch[g], row), IsRowInHunk(patch[h], row)
  PROVE  g = h
<1>1. g \in 1 .. Len(patch) /\ h \in 1 .. Len(patch) /\ Len(patch) \in Nat
  BY HunkFacts
<1>2. \A i, j \in DOMAIN patch :
        i < j => patch[j].new_start > patch[i].new_start + NewLines(patch[i])
  BY DEF WellFormed
<1>3. /\ patch[g].new_start \in Nat /\ NewLines(patch[g]) \in Nat
      /\ patch[h].new_start \in Nat /\ NewLines(patch[h]) \in Nat
  BY HunkFacts
<1>4. ~(g < h)
  BY <1>2, <1>3 DEF IsRowInHunk
<1>5. ~(h < g)
  BY <1>2, <1>3 DEF IsRowInHunk
<1> QED BY <1>1, <1>4, <1>5

-------------------------------------------------------------------------------
(* The lines of the diff and those before a hunk.                           *)

LEMMA DiffLinesFinite ==
  ASSUME WellFormed(patch)
  PROVE  IsFiniteSet(DiffLines)
<1> DEFINE F == [h \in DOMAIN patch |-> {h} \X DOMAIN patch[h].lines]
           S == {{h} \X DOMAIN patch[h].lines : h \in DOMAIN patch}
<1>1. ASSUME NEW h \in DOMAIN patch
      PROVE  IsFiniteSet({h} \X DOMAIN patch[h].lines)
  <2>1. IsFiniteSet({h})
    BY FS_Singleton
  <2>2. IsFiniteSet(DOMAIN patch[h].lines)
    <3>1. /\ DOMAIN patch[h].lines = 1 .. Len(patch[h].lines)
          /\ Len(patch[h].lines) \in Nat
      BY HunkFacts
    <3> QED BY <3>1, FS_Interval
  <2> QED BY <2>1, <2>2, FS_Product
<1>2. IsFiniteSet(DOMAIN patch)
  <2>1. DOMAIN patch = 1 .. Len(patch) /\ Len(patch) \in Nat
    BY LenProperties DEF WellFormed
  <2> QED BY <2>1, FS_Interval
<1>3. F \in Surjection(DOMAIN patch, S)
  <2>1. F \in [DOMAIN patch -> S]
    OBVIOUS
  <2>2. \A T \in S : \E h \in DOMAIN patch : F[h] = T
    OBVIOUS
  <2> HIDE DEF F, S
  <2> QED BY <2>1, <2>2 DEF Surjection
<1>4. IsFiniteSet(S)
  BY <1>2, <1>3, FS_Surjection
<1>5. \A T \in S : IsFiniteSet(T)
  BY <1>1
<1>6. IsFiniteSet(UNION S)
  BY <1>4, <1>5, FS_UNION
<1> QED BY <1>6 DEF DiffLines

LEMMA LinesBeforeType ==
  ASSUME WellFormed(patch), NEW h \in Int
  PROVE  /\ IsFiniteSet({p \in DiffLines : p[1] < h})
         /\ LinesBefore(h) \in Nat
<1>1. {p \in DiffLines : p[1] < h} \in SUBSET DiffLines
  OBVIOUS
<1>2. IsFiniteSet({p \in DiffLines : p[1] < h})
  BY <1>1, DiffLinesFinite, FS_Subset
<1> QED BY <1>2, FS_CardinalityType DEF LinesBefore

LEMMA NoLinesBeforeFirst ==
  ASSUME WellFormed(patch)
  PROVE  LinesBefore(1) = 0
<1>1. {p \in DiffLines : p[1] < 1} = {}
  <2>1. DOMAIN patch = 1 .. Len(patch)
    BY LenProperties DEF WellFormed
  <2> QED BY <2>1 DEF DiffLines
<1> QED BY <1>1, FS_EmptySet DEF LinesBefore

\* One hunk further there are the lines of that hunk more.
LEMMA LinesOfOneMore ==
  ASSUME WellFormed(patch), NEW h \in DOMAIN patch
  PROVE  LinesBefore(h + 1) = LinesBefore(h) + NumLines(patch[h])
<1> DEFINE A == {p \in DiffLines : p[1] < h}
           B == {h} \X DOMAIN patch[h].lines
           C == {p \in DiffLines : p[1] < h + 1}
<1>1. h \in Nat /\ DOMAIN patch = 1 .. Len(patch) /\ Len(patch) \in Nat
  BY HunkFacts
<1>2. \A p : p \in DiffLines <=> \E g \in DOMAIN patch : p \in {g} \X DOMAIN patch[g].lines
  BY DEF DiffLines
<1>3. C = A \cup B
  <2>1. ASSUME NEW p \in C
        PROVE  p \in A \cup B
    <3>1. PICK g \in DOMAIN patch : p \in {g} \X DOMAIN patch[g].lines
      BY <1>2
    <3>2. p[1] = g /\ g \in Nat
      BY <1>1, <3>1
    <3>3. CASE g = h
      BY <3>1, <3>3
    <3>4. CASE g # h
      BY <1>1, <3>2, <3>4
    <3> QED BY <3>3, <3>4
  <2>2. A \subseteq C
    <3>1. ASSUME NEW p \in A
          PROVE  p \in C
      <4>1. PICK g \in DOMAIN patch : p \in {g} \X DOMAIN patch[g].lines
        BY <1>2
      <4> QED BY <1>1, <4>1
    <3> QED BY <3>1
  <2>3. B \subseteq C
    BY <1>1, <1>2
  <2> QED BY <2>1, <2>2, <2>3
<1>4. A \cap B = {}
  BY <1>1
<1>5. IsFiniteSet(A) /\ Cardinality(A) \in Nat
  BY <1>1, LinesBeforeType, FS_CardinalityType
<1>6. IsFiniteSet(B) /\ Cardinality(B) = NumLines(patch[h])
  <2>1. IsFiniteSet({h}) /\ Cardinality({h}) = 1
    BY FS_Singleton
  <2>2. /\ IsFiniteSet(DOMAIN patch[h].lines)
        /\ Cardinality(DOMAIN patch[h].lines) = NumLines(patch[h])
        /\ NumLines(patch[h]) \in Nat
    <3>1. /\ DOMAIN patch[h].lines = 1 .. NumLines(patch[h])
          /\ NumLines(patch[h]) \in Nat
      BY HunkFacts
    <3> QED BY <3>1, FS_Interval
  <2>3. /\ IsFiniteSet(B)
        /\ Cardinality(B) = Cardinality({h}) * Cardinality(DOMAIN patch[h].lines)
    BY <2>1, <2>2, FS_Product
  <2> QED BY <2>1, <2>2, <2>3
<1>7. Cardinality(A \cup B) = Cardinality(A) + Cardinality(B) - Cardinality(A \cap B)
  BY <1>5, <1>6, FS_Union
<1>8. Cardinality({}) = 0
  BY FS_EmptySet
<1>9. NumLines(patch[h]) \in Nat
  BY HunkFacts
<1>10. LinesBefore(h + 1) = Cardinality(C) /\ LinesBefore(h) = Cardinality(A)
  BY DEF LinesBefore
<1> HIDE DEF A, B, C
<1>11. Cardinality(A \cap B) = 0
  BY <1>4, <1>8
<1>12. Cardinality(C) = Cardinality(A \cup B)
  BY <1>3
<1>13. Cardinality(C) = Cardinality(A) + NumLines(patch[h])
  BY <1>5, <1>6, <1>7, <1>9, <1>11, <1>12
<1> QED BY <1>10, <1>13

LEMMA LinesBeforeGrow ==
  ASSUME WellFormed(patch), NEW g \in Nat, NEW h \in Nat, g <= h
  PROVE  LinesBefore(g) <= LinesBefore(h)
<1>1. {p \in DiffLines : p[1] < g} \subseteq {p \in DiffLines : p[1] < h}
  <2>1. \A p \in DiffLines : p[1] \in Nat
    <3>1. DOMAIN patch = 1 .. Len(patch) /\ Len(patch) \in Nat
      BY LenProperties DEF WellFormed
    <3> QED BY <3>1 DEF DiffLines
  <2> QED BY <2>1
<1>2. IsFiniteSet({p \in DiffLines : p[1] < h})
  BY LinesBeforeType
<1> QED BY <1>1, <1>2, FS_Subset DEF LinesBefore

-------------------------------------------------------------------------------
(* The lines of one hunk.                                                   *)

\* The lines above a line of a hunk show a row of the new file or none.
LEMMA LinesAbove ==
  ASSUME NEW hunk \in Hunk, NEW i \in 1 .. Len(hunk.lines)
  PROVE  /\ Cardinality({j \in ShownIn(hunk) : j < i}) \in Nat
         /\ Cardinality(UnshownAbove(hunk, i)) \in Nat
         /\ Cardinality({j \in ShownIn(hunk) : j < i})
              + Cardinality(UnshownAbove(hunk, i)) = i - 1
         /\ Cardinality({j \in ShownIn(hunk) : j < i}) <= NewLines(hunk)
<1> DEFINE A == {j \in ShownIn(hunk) : j < i}
           B == UnshownAbove(hunk, i)
<1>1. /\ hunk.lines \in Seq(Origins)
      /\ DOMAIN hunk.lines = 1 .. Len(hunk.lines) /\ Len(hunk.lines) \in Nat
  BY LenProperties DEF Hunk
<1>2. \A j \in DOMAIN hunk.lines : hunk.lines[j] \in Origins
  BY <1>1, ElementOfSeq
<1>3. A \cup B = 1 .. i - 1
  BY <1>1, <1>2 DEF ShownIn, UnshownAbove, Lines, Origins
<1>4. A \cap B = {}
  BY DEF ShownIn, UnshownAbove, Lines
<1>5. IsFiniteSet(A) /\ Cardinality(A) \in Nat /\ Cardinality(A) <= NewLines(hunk)
  <2>1. IsFiniteSet(ShownIn(hunk)) /\ NewLines(hunk) = Cardinality(ShownIn(hunk))
    BY LinesFinite DEF ShownIn, NewLines
  <2>2. A \in SUBSET ShownIn(hunk)
    OBVIOUS
  <2> QED BY <2>1, <2>2, FS_Subset, FS_CardinalityType
<1>6. IsFiniteSet(B) /\ Cardinality(B) \in Nat
  <2>1. IsFiniteSet(Lines(hunk, {"deletion", "no_newline"}))
    BY LinesFinite
  <2>2. B \in SUBSET Lines(hunk, {"deletion", "no_newline"})
    BY DEF UnshownAbove
  <2> QED BY <2>1, <2>2, FS_Subset, FS_CardinalityType
<1>7. Cardinality(A \cup B) = Cardinality(A) + Cardinality(B) - Cardinality(A \cap B)
  BY <1>5, <1>6, FS_Union
<1>8. Cardinality(A \cap B) = 0
  BY <1>4, FS_EmptySet
<1>9. Cardinality(1 .. i - 1) = i - 1
  BY FS_Interval
<1>10. Cardinality(A \cup B) = i - 1
  BY <1>3, <1>9
<1> QED BY <1>5, <1>6, <1>7, <1>8, <1>10

\* A row the diff shows is in the hunk of the line that shows it, and as far below
\* the first row of the hunk as there are lines above it that show a row.
LEMMA PlaceFacts ==
  ASSUME WellFormed(patch), NEW row, NEW p \in Places(row)
  PROVE  /\ p[1] \in DOMAIN patch
         /\ p[2] \in 1 .. Len(patch[p[1]].lines)
         /\ row \in Nat
         /\ IsRowInHunk(patch[p[1]], row)
         /\ Cardinality(UnshownAbove(patch[p[1]], p[2])) \in Nat
         /\ row - patch[p[1]].new_start + 1
              = p[2] - Cardinality(UnshownAbove(patch[p[1]], p[2]))
<1> DEFINE hunk == patch[p[1]]
<1>1. PICK h \in DOMAIN patch : p \in {h} \X DOMAIN patch[h].lines
  BY DEF Places, DiffLines
<1>2. p[1] = h /\ p[2] \in DOMAIN hunk.lines
  BY <1>1
<1>3. p[1] \in DOMAIN patch
  BY <1>2
<1>4. /\ hunk \in Hunk /\ hunk.new_start \in Nat
      /\ DOMAIN hunk.lines = 1 .. Len(hunk.lines) /\ Len(hunk.lines) \in Nat
      /\ NewLines(hunk) \in Nat
  BY <1>3, HunkFacts
<1>5. row = hunk.new_start + Cardinality({j \in ShownIn(hunk) : j < p[2]})
  BY DEF Places, RowOf
<1> DEFINE above == Cardinality({j \in ShownIn(hunk) : j < p[2]})
           unshown == Cardinality(UnshownAbove(hunk, p[2]))
<1>6. /\ above \in Nat /\ unshown \in Nat
      /\ above + unshown = p[2] - 1
      /\ above <= NewLines(hunk)
  BY <1>2, <1>4, LinesAbove
<1>7. p[2] \in 1 .. Len(hunk.lines) /\ p[2] \in Int
  BY <1>2, <1>4
<1>8. row \in Nat /\ row = hunk.new_start + above
  BY <1>4, <1>5, <1>6
<1> HIDE DEF hunk, above, unshown
<1>9. row >= hunk.new_start /\ row <= hunk.new_start + NewLines(hunk)
  BY <1>4, <1>6, <1>8
<1>10. row - hunk.new_start + 1 = p[2] - unshown
  <2>1. \A start, a, d, i \in Int : a + d = i - 1 => (start + a) - start + 1 = i - d
    OBVIOUS
  <2>2. hunk.new_start \in Int /\ above \in Int /\ unshown \in Int
    BY <1>4, <1>6
  <2>3. (hunk.new_start + above) - hunk.new_start + 1 = p[2] - unshown
    BY <1>6, <1>7, <2>1, <2>2
  <2> QED BY <1>8, <2>3
<1> QED BY <1>3, <1>6, <1>7, <1>8, <1>9, <1>10 DEF IsRowInHunk, hunk, unshown

-------------------------------------------------------------------------------
(* The invariant.                                                           *)

InHunk(d, h) == IsRowInHunk(patch[h], diags[d])

\* Diagnostic d was compared with hunk h.
Tried(d, h) == d < diag \/ (d = diag /\ h < hunk_idx)

\* pos counts the lines of all hunks passed by, as long as no comment was made for
\* the diagnostic in hand.
PosCounts ==
  (\A g \in DOMAIN patch : g < hunk_idx => ~InHunk(diag, g)) => pos = LinesBefore(hunk_idx)

\* The position of a comment, as the loop computes it.
PositionOf(d, h) == LinesBefore(h) + diags[d] - patch[h].new_start + 1

\* Every comment was made for a row and a hunk that were compared and fit.
CommentsFit ==
  \A i \in DOMAIN comments :
    \E d \in DOMAIN diags, h \in DOMAIN patch :
      /\ comments[i].diag = d /\ comments[i].position = PositionOf(d, h)
      /\ InHunk(d, h) /\ Tried(d, h)

\* Whatever was compared and fits has a comment.
FitsCommented ==
  \A d \in DOMAIN diags, h \in DOMAIN patch :
    InHunk(d, h) /\ Tried(d, h) => \E i \in DOMAIN comments : comments[i].diag = d

InOrder == \A i, j \in DOMAIN comments : i < j => comments[i].diag < comments[j].diag

IInv == TypeOK /\ PosCounts /\ CommentsFit /\ FitsCommented /\ InOrder

\* The types of what the loops work on.
LEMMA TypeFacts ==
  ASSUME TypeOK
  PROVE  /\ WellFormed(patch)
         /\ diags \in Seq(Rows) /\ Rows \subseteq Nat
         /\ DOMAIN diags = 1 .. Len(diags) /\ Len(diags) \in Nat
         /\ \A d \in DOMAIN diags : diags[d] \in Nat
         /\ DOMAIN patch = 1 .. Len(patch) /\ Len(patch) \in Nat
         /\ diag \in Nat /\ hunk_idx \in Nat /\ pos \in Nat
         /\ DOMAIN comments = 1 .. Len(comments) /\ Len(comments) \in Nat
         /\ \A i \in DOMAIN comments :
              comments[i].diag \in DOMAIN diags /\ comments[i].position \in Nat \ {0}
<1>1. WellFormed(patch) /\ diags \in Seq(Rows) /\ Rows \subseteq Nat /\ pos \in Nat
  BY ReviewAssumption DEF TypeOK
<1>2. DOMAIN diags = 1 .. Len(diags) /\ Len(diags) \in Nat
  BY <1>1, LenProperties
<1>3. \A d \in DOMAIN diags : diags[d] \in Nat
  BY <1>1, <1>2, ElementOfSeq
<1>4. DOMAIN patch = 1 .. Len(patch) /\ Len(patch) \in Nat
  BY <1>1, LenProperties DEF WellFormed
<1>5. diag \in Nat /\ hunk_idx \in Nat
  BY <1>2, <1>4 DEF TypeOK
<1>6. DOMAIN comments = 1 .. Len(comments) /\ Len(comments) \in Nat
  BY LenProperties DEF TypeOK
<1>7. \A i \in DOMAIN comments : comments[i] \in [diag : DOMAIN diags, position : Nat \ {0}]
  BY <1>6, ElementOfSeq DEF TypeOK
<1> QED BY <1>1, <1>2, <1>3, <1>4, <1>5, <1>6, <1>7

LEMMA InitIInv == Init => IInv
<1> SUFFICES ASSUME Init
             PROVE  IInv
  OBVIOUS
<1>1. WellFormed(patch)
  BY ReviewAssumption DEF Init
<1>2. diags \in Seq(Rows) /\ Len(diags) <= MaxDiags /\ Len(diags) \in Nat
  <2>1. PICK m \in 0 .. MaxDiags : diags \in [1 .. m -> Rows]
    BY DEF Init, BoundedSeq, SeqOf
  <2>2. m \in Nat /\ m <= MaxDiags
    BY <2>1, ReviewAssumption
  <2>3. diags \in Seq(Rows)
    BY <2>1, <2>2, SeqDef
  <2>4. DOMAIN diags = 1 .. m /\ DOMAIN diags = 1 .. Len(diags) /\ Len(diags) \in Nat
    BY <2>1, <2>3, LenProperties
  <2>5. Len(diags) = m
    BY <2>2, <2>4
  <2> QED BY <2>2, <2>3, <2>4, <2>5
<1>3. DOMAIN patch = 1 .. Len(patch) /\ Len(patch) \in Nat
  BY <1>1, LenProperties DEF WellFormed
<1>4. comments = <<>> /\ DOMAIN comments = {} /\ diag = 1 /\ hunk_idx = 1 /\ pos = 0
  BY DEF Init
<1>5. comments \in Seq([diag : DOMAIN diags, position : Nat \ {0}])
  BY <1>4, EmptySeq
<1>6. TypeOK
  BY <1>1, <1>2, <1>3, <1>4, <1>5 DEF TypeOK
<1>7. PosCounts
  BY <1>1, <1>4, NoLinesBeforeFirst DEF PosCounts
<1>8. DOMAIN diags = 1 .. Len(diags)
  BY <1>2, LenProperties
<1>9. FitsCommented
  BY <1>2, <1>3, <1>4, <1>8 DEF FitsCommented, Tried
<1> QED BY <1>4, <1>6, <1>7, <1>9 DEF IInv, CommentsFit, InOrder

-------------------------------------------------------------------------------
(* The steps.                                                               *)

\* No hunk compared so far fits the diagnostic in hand when the one in hand does.
LEMMA NoneBefore ==
  ASSUME TypeOK, diag \in DOMAIN diags, hunk_idx \in DOMAIN patch, InHunk(diag, hunk_idx)
  PROVE  \A g \in DOMAIN patch : g < hunk_idx => ~InHunk(diag, g)
<1>1. WellFormed(patch) /\ diags[diag] \in Nat
  BY TypeFacts
<1>2. ASSUME NEW g \in DOMAIN patch, g < hunk_idx, InHunk(diag, g)
      PROVE  FALSE
  <2>1. g = hunk_idx
    BY <1>1, <1>2, OneHunk DEF InHunk
  <2>2. g \in Nat
    BY TypeFacts
  <2> QED BY <1>2, <2>1, <2>2
<1> QED BY <1>2

LEMMA LoopFacts ==
  ASSUME TypeOK, InLoop
  PROVE  diag \in DOMAIN diags /\ hunk_idx \in DOMAIN patch
BY TypeFacts DEF TypeOK, InLoop

\* What is said of the patch and the diagnostics stays true.
LEMMA SamePatch ==
  ASSUME patch' = patch, diags' = diags, NEW d, NEW h
  PROVE  /\ InHunk(d, h)' <=> InHunk(d, h)
         /\ LinesBefore(d)' = LinesBefore(d)
         /\ PositionOf(d, h)' = PositionOf(d, h)
<1>1. LinesBefore(d)' = LinesBefore(d)
  BY DEF LinesBefore, DiffLines
<1>2. LinesBefore(h)' = LinesBefore(h)
  BY DEF LinesBefore, DiffLines
<1> QED BY <1>1, <1>2 DEF InHunk, PositionOf

\* A hunk that does not fit is passed by: its lines are counted, and it is compared.
LEMMA PassHunkStep == IInv /\ PassHunk => IInv'
<1> SUFFICES ASSUME IInv, PassHunk
             PROVE  IInv'
  OBVIOUS
<1>1. /\ TypeOK /\ InLoop /\ diag \in DOMAIN diags /\ hunk_idx \in DOMAIN patch
      /\ ~InHunk(diag, hunk_idx)
      /\ pos' = pos + NumLines(patch[hunk_idx])
      /\ hunk_idx' = hunk_idx + 1
      /\ patch' = patch /\ diags' = diags /\ diag' = diag /\ comments' = comments
  BY LoopFacts DEF IInv, PassHunk, InHunk, Row, HunkInHand, Passed
<1>2. NumLines(patch[hunk_idx]) \in Nat
  BY <1>1, TypeFacts, HunkFacts
<1>3. TypeOK'
  <2>1. pos' \in Nat
    BY <1>1, <1>2, TypeFacts
  <2>2. hunk_idx' \in 1 .. Len(patch) + 1
    BY <1>1, TypeFacts
  <2> QED BY <1>1, <2>1, <2>2 DEF TypeOK
<1>4. PosCounts'
  <2>1. SUFFICES ASSUME (\A g \in DOMAIN patch : g < hunk_idx + 1 => ~InHunk(diag, g))
                 PROVE  pos' = LinesBefore(hunk_idx + 1)
    BY <1>1 DEF PosCounts, InHunk, LinesBefore, DiffLines
  <2>2. \A g \in DOMAIN patch : g < hunk_idx => ~InHunk(diag, g)
    BY <1>1, <2>1, TypeFacts
  <2>3. pos = LinesBefore(hunk_idx)
    BY <2>2 DEF IInv, PosCounts
  <2> QED BY <1>1, <2>3, TypeFacts, LinesOfOneMore
<1>5. \A d \in DOMAIN diags, h \in DOMAIN patch :
        Tried(d, h)' <=> Tried(d, h) \/ (d = diag /\ h = hunk_idx)
  BY <1>1, TypeFacts DEF Tried
<1>6. CommentsFit'
  <2>1. ASSUME NEW i \in DOMAIN comments
        PROVE  \E d \in DOMAIN diags, h \in DOMAIN patch :
                 /\ comments[i].diag = d /\ comments[i].position = PositionOf(d, h)
                 /\ InHunk(d, h) /\ Tried(d, h)'
    BY <1>5 DEF IInv, CommentsFit
  <2> QED BY <1>1, <2>1, SamePatch DEF CommentsFit
<1>7. FitsCommented'
  <2>1. ASSUME NEW d \in DOMAIN diags, NEW h \in DOMAIN patch, InHunk(d, h), Tried(d, h)'
        PROVE  \E i \in DOMAIN comments : comments[i].diag = d
    <3>1. Tried(d, h)
      BY <1>1, <1>5, <2>1
    <3> QED BY <2>1, <3>1 DEF IInv, FitsCommented
  <2> QED BY <1>1, <2>1 DEF FitsCommented, InHunk, Tried
<1>8. InOrder'
  BY <1>1 DEF IInv, InOrder
<1> QED BY <1>3, <1>4, <1>6, <1>7, <1>8 DEF IInv

\* A hunk that fits gets the comment of the diagnostic, and is the only one to fit.
LEMMA CommentOnHunkStep == IInv /\ CommentOnHunk => IInv'
<1> SUFFICES ASSUME IInv, CommentOnHunk
             PROVE  IInv'
  OBVIOUS
<1> DEFINE new == [diag |-> diag, position |-> PositionOf(diag, hunk_idx)]
<1>1. /\ TypeOK /\ InLoop /\ diag \in DOMAIN diags /\ hunk_idx \in DOMAIN patch
      /\ InHunk(diag, hunk_idx)
      /\ hunk_idx' = hunk_idx + 1
      /\ patch' = patch /\ diags' = diags /\ diag' = diag /\ pos' = pos
  BY LoopFacts DEF IInv, CommentOnHunk, InHunk, Row, HunkInHand
<1>2. \A g \in DOMAIN patch : g < hunk_idx => ~InHunk(diag, g)
  BY <1>1, NoneBefore
<1>3. pos = LinesBefore(hunk_idx)
  BY <1>2 DEF IInv, PosCounts
<1>4. Position = PositionOf(diag, hunk_idx)
  BY <1>3 DEF Position, PositionOf, Row, HunkInHand
<1>5. comments' = Append(comments, new)
  BY <1>4 DEF CommentOnHunk
<1>6. new.diag = diag /\ new.position = PositionOf(diag, hunk_idx)
  OBVIOUS
<1>7. PositionOf(diag, hunk_idx) \in Nat \ {0}
  <2>1. WellFormed(patch) /\ diags[diag] \in Nat /\ hunk_idx \in Int
    BY <1>1, TypeFacts
  <2>2. patch[hunk_idx].new_start \in Nat
    BY <1>1, <2>1, HunkFacts
  <2>3. LinesBefore(hunk_idx) \in Nat
    BY <2>1, LinesBeforeType
  <2>4. diags[diag] >= patch[hunk_idx].new_start
    BY <1>1 DEF InHunk, IsRowInHunk
  <2>5. \A l, r, s \in Nat : r >= s => l + r - s + 1 \in Nat \ {0}
    OBVIOUS
  <2> QED BY <2>1, <2>2, <2>3, <2>4, <2>5 DEF PositionOf
<1> DEFINE T == [diag : DOMAIN diags, position : Nat \ {0}]
<1>8. new \in T
  BY <1>1, <1>7
<1>9. /\ comments \in Seq(T) /\ DOMAIN comments = 1 .. Len(comments) /\ Len(comments) \in Nat
  BY <1>1, LenProperties DEF TypeOK
<1> HIDE DEF new, T
<1>10. /\ comments' \in Seq(T)
       /\ DOMAIN comments' = DOMAIN comments \cup {Len(comments) + 1}
       /\ \A i \in DOMAIN comments : comments'[i] = comments[i]
       /\ comments'[Len(comments) + 1] = new
  <2>1. comments' \in Seq(T) /\ Len(comments') = Len(comments) + 1
    BY <1>5, <1>8, <1>9
  <2>2. DOMAIN comments' = 1 .. Len(comments) + 1
    BY <2>1, LenProperties
  <2>3. \A i \in DOMAIN comments : comments'[i] = comments[i]
    BY <1>5, <1>8, <1>9
  <2>4. comments'[Len(comments) + 1] = new
    BY <1>5, <1>8, <1>9
  <2> QED BY <1>9, <2>1, <2>2, <2>3, <2>4
<1>11. TypeOK'
  <2>1. hunk_idx' \in 1 .. Len(patch) + 1
    BY <1>1, TypeFacts
  <2> QED BY <1>1, <1>10, <2>1 DEF TypeOK, T
<1>12. PosCounts'
  <2>1. ASSUME \A g \in DOMAIN patch : g < hunk_idx + 1 => ~InHunk(diag, g)
        PROVE  FALSE
    <3>1. hunk_idx < hunk_idx + 1
      BY <1>1, TypeFacts
    <3> QED BY <1>1, <2>1, <3>1
  <2> QED BY <1>1, <2>1 DEF PosCounts, InHunk
<1>13. \A d \in DOMAIN diags, h \in DOMAIN patch :
         Tried(d, h)' <=> Tried(d, h) \/ (d = diag /\ h = hunk_idx)
  BY <1>1, TypeFacts DEF Tried
<1>14. CommentsFit'
  <2>1. ASSUME NEW i \in DOMAIN comments'
        PROVE  \E d \in DOMAIN diags, h \in DOMAIN patch :
                 /\ comments'[i].diag = d /\ comments'[i].position = PositionOf(d, h)
                 /\ InHunk(d, h) /\ Tried(d, h)'
    <3>1. CASE i \in DOMAIN comments
      <4>1. comments'[i] = comments[i]
        BY <1>10, <3>1
      <4>2. PICK d \in DOMAIN diags, h \in DOMAIN patch :
              /\ comments[i].diag = d /\ comments[i].position = PositionOf(d, h)
              /\ InHunk(d, h) /\ Tried(d, h)
        BY <3>1 DEF IInv, CommentsFit
      <4>3. Tried(d, h)'
        BY <1>13, <4>2
      <4> QED BY <4>1, <4>2, <4>3
    <3>2. CASE i = Len(comments) + 1
      <4>1. comments'[i] = new
        BY <1>10, <3>2
      <4>2. \E d \in DOMAIN diags, h \in DOMAIN patch :
              d = diag /\ h = hunk_idx /\ Tried(d, h)'
        BY <1>1, <1>13
      <4> QED BY <1>1, <1>6, <4>1, <4>2
    <3> QED BY <1>10, <3>1, <3>2
  <2> QED BY <1>1, <2>1, SamePatch DEF CommentsFit
<1>15. FitsCommented'
  <2>1. ASSUME NEW d \in DOMAIN diags, NEW h \in DOMAIN patch, InHunk(d, h), Tried(d, h)'
        PROVE  \E i \in DOMAIN comments' : comments'[i].diag = d
    <3>1. CASE Tried(d, h)
      <4>1. PICK i \in DOMAIN comments : comments[i].diag = d
        BY <2>1, <3>1 DEF IInv, FitsCommented
      <4> QED BY <1>10, <4>1
    <3>2. CASE d = diag
      BY <1>6, <1>10, <3>2
    <3> QED BY <1>13, <2>1, <3>1, <3>2
  <2> QED BY <1>1, <2>1 DEF FitsCommented, InHunk, Tried
<1>16. \A i \in DOMAIN comments : comments[i].diag < diag
  <2>1. ASSUME NEW i \in DOMAIN comments
        PROVE  comments[i].diag < diag
    <3>1. PICK h \in DOMAIN patch : InHunk(comments[i].diag, h) /\ Tried(comments[i].diag, h)
      BY DEF IInv, CommentsFit
    <3>2. CASE comments[i].diag = diag /\ h < hunk_idx
      BY <1>2, <3>1, <3>2
    <3> QED BY <3>1, <3>2 DEF Tried
  <2> QED BY <2>1
<1>17. InOrder'
  <2>1. ASSUME NEW i \in DOMAIN comments', NEW j \in DOMAIN comments', i < j
        PROVE  comments'[i].diag < comments'[j].diag
    <3>1. i \in DOMAIN comments
      BY <1>9, <1>10, <2>1
    <3>2. CASE j \in DOMAIN comments
      <4>1. comments[i].diag < comments[j].diag
        BY <2>1, <3>1, <3>2 DEF IInv, InOrder
      <4> QED BY <1>10, <3>1, <3>2, <4>1
    <3>3. CASE j = Len(comments) + 1
      <4>1. comments'[j].diag = diag /\ comments'[i] = comments[i]
        BY <1>6, <1>10, <3>1, <3>3
      <4> QED BY <1>16, <3>1, <4>1
    <3> QED BY <1>10, <2>1, <3>2, <3>3
  <2> QED BY <2>1 DEF InOrder
<1> QED BY <1>11, <1>12, <1>14, <1>15, <1>17 DEF IInv

\* The next diagnostic starts with the first hunk and no lines passed by.
LEMMA NextDiagStep == IInv /\ NextDiag => IInv'
<1> SUFFICES ASSUME IInv, NextDiag
             PROVE  IInv'
  OBVIOUS
<1>1. /\ TypeOK /\ diag <= Len(diags) /\ hunk_idx = Len(patch) + 1
      /\ diag' = diag + 1 /\ hunk_idx' = 1 /\ pos' = 0
      /\ patch' = patch /\ diags' = diags /\ comments' = comments
  BY DEF IInv, NextDiag, FreshPos
<1>2. TypeOK'
  <2>1. diag' \in 1 .. Len(diags) + 1 /\ hunk_idx' \in 1 .. Len(patch) + 1
    BY <1>1, TypeFacts
  <2> QED BY <1>1, <2>1 DEF TypeOK
<1>3. PosCounts'
  <2>1. LinesBefore(1) = 0
    BY <1>1, TypeFacts, NoLinesBeforeFirst
  <2> QED BY <1>1, <2>1 DEF PosCounts, LinesBefore, DiffLines
<1>4. \A d \in DOMAIN diags, h \in DOMAIN patch : Tried(d, h)' <=> Tried(d, h)
  BY <1>1, TypeFacts DEF Tried
<1>5. CommentsFit'
  <2>1. ASSUME NEW i \in DOMAIN comments
        PROVE  \E d \in DOMAIN diags, h \in DOMAIN patch :
                 /\ comments[i].diag = d /\ comments[i].position = PositionOf(d, h)
                 /\ InHunk(d, h) /\ Tried(d, h)'
    BY <1>4 DEF IInv, CommentsFit
  <2> QED BY <1>1, <2>1, SamePatch DEF CommentsFit
<1>6. FitsCommented'
  <2>1. ASSUME NEW d \in DOMAIN diags, NEW h \in DOMAIN patch, InHunk(d, h), Tried(d, h)'
        PROVE  \E i \in DOMAIN comments : comments[i].diag = d
    BY <1>4, <2>1 DEF IInv, FitsCommented
  <2> QED BY <1>1, <2>1 DEF FitsCommented, InHunk, Tried
<1>7. InOrder'
  BY <1>1 DEF IInv, InOrder
<1> QED BY <1>2, <1>3, <1>5, <1>6, <1>7 DEF IInv

\* The invariant holds for any patch, any diagnostics and any rows.
THEOREM Invariance == Spec => []IInv
<1>1. IInv /\ [Next]_vars => IInv'
  <2> SUFFICES ASSUME IInv, [Next]_vars
               PROVE  IInv'
    OBVIOUS
  <2>1. CASE UNCHANGED vars
    <3>1. TypeOK' /\ InOrder'
      BY <2>1 DEF vars, IInv, TypeOK, InOrder
    <3>2. PosCounts'
      BY <2>1 DEF vars, IInv, PosCounts, InHunk, LinesBefore, DiffLines
    <3>3. CommentsFit'
      <4>1. \A d, h : Tried(d, h)' <=> Tried(d, h)
        BY <2>1 DEF vars, Tried
      <4> QED BY <2>1, <4>1, SamePatch DEF vars, IInv, CommentsFit
    <3>4. FitsCommented'
      BY <2>1 DEF vars, IInv, FitsCommented, InHunk, Tried
    <3> QED BY <3>1, <3>2, <3>3, <3>4 DEF IInv
  <2> QED BY <2>1, PassHunkStep, CommentOnHunkStep, NextDiagStep DEF Next
<1> QED BY <1>1, InitIInv, PTL DEF Spec

\* The state has the types that TypeOK says.
THEOREM TypeCorrect == Spec => []TypeOK
<1>1. IInv => TypeOK
  BY DEF IInv
<1> QED BY <1>1, Invariance, PTL

\* What comments on shown rows are: each in the hunk that shows the row, at a position
\* that counts the lines of the hunks before it.
LEMMA ShownComment ==
  ASSUME IInv, NEW c \in Range(comments), NEW p \in Places(diags[c.diag])
  PROVE  /\ c.diag \in DOMAIN diags /\ p[1] \in DOMAIN patch
         /\ p[2] \in 1 .. NumLines(patch[p[1]])
         /\ c.position = PositionOf(c.diag, p[1])
         /\ c.position \in Nat
         /\ c.position = LinesBefore(p[1]) + p[2] - Cardinality(UnshownAbove(patch[p[1]], p[2]))
         /\ Cardinality(UnshownAbove(patch[p[1]], p[2])) \in Nat
<1>1. PICK i \in DOMAIN comments : c = comments[i]
  BY DEF Range
<1>2. PICK d \in DOMAIN diags, h \in DOMAIN patch :
        /\ c.diag = d /\ c.position = PositionOf(d, h) /\ InHunk(d, h)
  BY <1>1 DEF IInv, CommentsFit
<1>3. WellFormed(patch) /\ diags[d] \in Nat /\ c.position \in Nat /\ DOMAIN patch \subseteq Int
  BY <1>1, TypeFacts DEF IInv
<1> DEFINE unshown == Cardinality(UnshownAbove(patch[p[1]], p[2]))
<1>4. /\ p[1] \in DOMAIN patch /\ p[2] \in 1 .. Len(patch[p[1]].lines)
      /\ IsRowInHunk(patch[p[1]], diags[d])
      /\ unshown \in Nat
      /\ diags[d] - patch[p[1]].new_start + 1 = p[2] - unshown
  BY <1>2, <1>3, PlaceFacts
<1>5. h = p[1]
  BY <1>2, <1>3, <1>4, OneHunk DEF InHunk
<1>6. /\ patch[h].new_start \in Nat /\ NumLines(patch[h]) = Len(patch[h].lines)
      /\ NumLines(patch[h]) \in Nat
  BY <1>3, HunkFacts
<1>7. LinesBefore(h) \in Nat
  BY <1>3, LinesBeforeType
<1> HIDE DEF unshown
<1>8. c.position = LinesBefore(h) + p[2] - unshown
  <2>1. c.position = LinesBefore(h) + diags[d] - patch[h].new_start + 1
    BY <1>2 DEF PositionOf
  <2>2. diags[d] - patch[h].new_start + 1 = p[2] - unshown
    BY <1>4, <1>5
  <2>3. \A l, r, s, n, x \in Int : r - s + 1 = n - x => l + r - s + 1 = l + n - x
    OBVIOUS
  <2>4. p[2] \in Int
    BY <1>4, <1>5, <1>6
  <2> QED BY <1>3, <1>4, <1>6, <1>7, <2>1, <2>2, <2>3, <2>4
<1> QED BY <1>2, <1>3, <1>4, <1>5, <1>6, <1>8 DEF unshown

\* The position of a comment on a row the diff shows lags behind the line of that row
\* in the text of the patch by the "@@" lines of further hunks and by the lines above
\* it in its hunk that show no row, exactly.
THEOREM PositionLagAlways == Spec => []PositionLag
<1>1. ASSUME IInv, NEW c \in Range(comments), NEW p \in Places(diags[c.diag])
      PROVE  TextPlace(p) - c.position
               = (p[1] - 1) + Cardinality(UnshownAbove(patch[p[1]], p[2]))
  <2> DEFINE before == LinesBefore(p[1])
             unshown == Cardinality(UnshownAbove(patch[p[1]], p[2]))
  <2>1. /\ p[1] \in DOMAIN patch /\ p[2] \in 1 .. NumLines(patch[p[1]])
        /\ unshown \in Nat /\ c.position = before + p[2] - unshown
    BY <1>1, ShownComment
  <2>2. WellFormed(patch) /\ p[1] \in Int
    BY <1>1, <2>1, TypeFacts DEF IInv
  <2>3. NumLines(patch[p[1]]) \in Nat
    BY <2>1, <2>2, HunkFacts
  <2>4. p[2] \in Int
    BY <2>1, <2>3
  <2>5. before \in Int
    <3>1. LinesBefore(p[1]) \in Nat
      BY <2>2, LinesBeforeType
    <3> QED BY <3>1
  <2>6. TextPlace(p) = before + (p[1] - 1) + p[2]
    BY DEF TextPlace
  <2> HIDE DEF before, unshown
  <2>7. \A b, h, i, u \in Int : (b + (h - 1) + i) - (b + i - u) = (h - 1) + u
    OBVIOUS
  <2>8. TextPlace(p) - c.position = (p[1] - 1) + unshown
    BY <2>1, <2>2, <2>4, <2>5, <2>6, <2>7
  <2> QED BY <2>8 DEF unshown
<1>2. IInv => PositionLag
  BY <1>1 DEF PositionLag
<1> QED BY <1>2, Invariance, PTL

\* The comments on shown rows keep the order of the rows.
THEOREM PositionsKeepOrderAlways == Spec => []PositionsKeepOrder
<1>1. ASSUME IInv, NEW c \in Range(comments), NEW d \in Range(comments),
             Shown(diags[c.diag]), Shown(diags[d.diag]), diags[c.diag] < diags[d.diag]
      PROVE  c.position < d.position
  <2> DEFINE a == diags[c.diag]
             b == diags[d.diag]
  <2>1. PICK p \in Places(a) : TRUE
    BY <1>1 DEF Shown
  <2>2. PICK q \in Places(b) : TRUE
    BY <1>1 DEF Shown
  <2>3. WellFormed(patch)
    BY <1>1, TypeFacts DEF IInv
  <2>4. /\ a \in Nat /\ p[1] \in DOMAIN patch /\ IsRowInHunk(patch[p[1]], a)
        /\ b \in Nat /\ q[1] \in DOMAIN patch /\ IsRowInHunk(patch[q[1]], b)
    BY <2>1, <2>2, <2>3, PlaceFacts
  <2>5. /\ c.position = PositionOf(c.diag, p[1]) /\ c.position \in Nat
        /\ d.position = PositionOf(d.diag, q[1]) /\ d.position \in Nat
    BY <1>1, <2>1, <2>2, ShownComment
  <2>6. DOMAIN patch \subseteq Nat
    BY <1>1, TypeFacts DEF IInv
  <2>7. /\ patch[p[1]].new_start \in Nat /\ NewLines(patch[p[1]]) \in Nat
        /\ patch[q[1]].new_start \in Nat /\ NewLines(patch[q[1]]) \in Nat
        /\ NumLines(patch[p[1]]) \in Nat
    BY <2>3, <2>4, HunkFacts
  <2>8. LinesBefore(p[1]) \in Nat /\ LinesBefore(q[1]) \in Nat
    <3>1. p[1] \in Int /\ q[1] \in Int
      BY <2>4, <2>6
    <3> QED BY <2>3, <3>1, LinesBeforeType
  <2>9. CASE p[1] = q[1]
    <3>1. /\ c.position = LinesBefore(p[1]) + a - patch[p[1]].new_start + 1
          /\ d.position = LinesBefore(p[1]) + b - patch[p[1]].new_start + 1
      BY <2>5, <2>9 DEF PositionOf
    <3>2. \A l, x, y, s \in Nat : x < y => l + x - s + 1 < l + y - s + 1
      OBVIOUS
    <3> QED BY <1>1, <2>4, <2>7, <2>8, <3>1, <3>2
  <2>10. CASE p[1] # q[1]
    <3>1. p[1] < q[1]
      <4>1. ~(q[1] < p[1])
        <5>1. q[1] < p[1] =>
                patch[p[1]].new_start > patch[q[1]].new_start + NewLines(patch[q[1]])
          BY <2>3, <2>4 DEF WellFormed
        <5>2. a >= patch[p[1]].new_start /\ b <= patch[q[1]].new_start + NewLines(patch[q[1]])
          BY <2>4 DEF IsRowInHunk
        <5> QED BY <1>1, <2>4, <2>7, <5>1, <5>2
      <4> QED BY <2>4, <2>6, <2>10, <4>1
    <3>2. LinesBefore(p[1] + 1) = LinesBefore(p[1]) + NumLines(patch[p[1]])
      BY <2>3, <2>4, LinesOfOneMore
    <3>3. LinesBefore(p[1] + 1) <= LinesBefore(q[1])
      BY <2>3, <2>4, <2>6, <3>1, LinesBeforeGrow
    <3>4. c.position <= LinesBefore(p[1]) + NumLines(patch[p[1]])
      <4> DEFINE x == Cardinality(UnshownAbove(patch[p[1]], p[2]))
      <4>1. /\ p[2] \in 1 .. NumLines(patch[p[1]]) /\ x \in Nat
            /\ c.position = LinesBefore(p[1]) + p[2] - x
        BY <1>1, <2>1, ShownComment
      <4> HIDE DEF x
      <4>2. \A l, i, y, n \in Nat : i <= n => l + i - y <= l + n
        OBVIOUS
      <4> QED BY <2>7, <2>8, <4>1, <4>2
    <3>5. d.position > LinesBefore(q[1])
      <4>1. d.position = LinesBefore(q[1]) + b - patch[q[1]].new_start + 1
        BY <2>5 DEF PositionOf
      <4>2. b >= patch[q[1]].new_start
        BY <2>4 DEF IsRowInHunk
      <4>3. \A l, r, s \in Nat : r >= s => l + r - s + 1 > l
        OBVIOUS
      <4> QED BY <2>4, <2>7, <2>8, <4>1, <4>2, <4>3
    <3> QED BY <2>5, <2>7, <2>8, <3>2, <3>3, <3>4, <3>5
  <2> QED BY <2>9, <2>10
<1>2. IInv => PositionsKeepOrder
  BY <1>1 DEF PositionsKeepOrder
<1> QED BY <1>2, Invariance, PTL

\* Once all diagnostics are compared, every one on a shown row has one comment, and
\* the comments are in the order of the diagnostics.
THEOREM EveryShownRowOnceAlways == Spec => []EveryShownRowOnce
<1>1. ASSUME IInv, Done, NEW d \in DOMAIN diags, Shown(diags[d])
      PROVE  Cardinality({i \in DOMAIN comments : comments[i].diag = d}) = 1
  <2>1. PICK p \in Places(diags[d]) : TRUE
    BY <1>1 DEF Shown
  <2>2. p[1] \in DOMAIN patch /\ InHunk(d, p[1])
    <3>1. WellFormed(patch)
      BY <1>1, TypeFacts DEF IInv
    <3> QED BY <2>1, <3>1, PlaceFacts DEF InHunk
  <2>3. Tried(d, p[1])
    <3>1. d \in 1 .. Len(diags) /\ Len(diags) \in Nat
      BY <1>1, TypeFacts DEF IInv
    <3> QED BY <1>1, <3>1 DEF Done, Tried
  <2>4. PICK i \in DOMAIN comments : comments[i].diag = d
    BY <1>1, <2>2, <2>3 DEF IInv, FitsCommented
  <2>5. ASSUME NEW j \in DOMAIN comments, comments[j].diag = d
        PROVE  j = i
    <3>1. i \in Nat /\ j \in Nat /\ d \in Nat
      BY <1>1, TypeFacts DEF IInv
    <3>2. ~(i < j) /\ ~(j < i)
      BY <1>1, <2>4, <2>5, <3>1 DEF IInv, InOrder
    <3> QED BY <3>1, <3>2
  <2>6. {j \in DOMAIN comments : comments[j].diag = d} = {i}
    BY <2>4, <2>5
  <2> QED BY <2>6, FS_Singleton
<1>2. IInv => EveryShownRowOnce
  BY <1>1 DEF EveryShownRowOnce, IInv, InOrder
<1> QED BY <1>2, Invariance, PTL
===============================================================================
