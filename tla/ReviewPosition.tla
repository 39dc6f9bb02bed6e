---------------------------- MODULE ReviewPosition ----------------------------
(****************************************************************************)
(* Where the review comments of clang-tidy go: the loops of                 *)
(* clang_tidy::reporter_t::make_review_comment over the diagnostics of one  *)
(* failed file and the hunks of its patch.                                  *)
(****************************************************************************)
EXTENDS Integers, SequencesExt

CONSTANTS
  Patches,   \* the patches of a file: sequences of hunks
  Rows,      \* the rows a diagnostic can have
  MaxDiags   \* bound: diagnostics of the file

\* git_diff_line.origin.  The three kinds of the line "\ No newline at end of file",
\* which follows the last row of a file that ends without a newline, are one here.
Origins == {"context", "addition", "deletion", "no_newline"}
Hunk == [new_start : Nat, lines : Seq(Origins)]

VARIABLES
  patch,     \* context.patches.at(file)
  diags,     \* the row of each diagnostic, in the order clang-tidy gave them
  diag,      \* the diagnostic in hand
  hunk_idx,  \* the hunk in hand
  pos,       \* the lines of the hunks passed by
  comments   \* the comments made: the diagnostic and its position

vars == <<patch, diags, diag, hunk_idx, pos, comments>>

Lines(hunk, origins) == {i \in DOMAIN hunk.lines : hunk.lines[i] \in origins}

\* git_diff_hunk.new_lines, and the line count git_patch_get_hunk adds to it.
NewLines(hunk) == Cardinality(Lines(hunk, {"context", "addition"}))
NumLines(hunk) == Len(hunk.lines)

\* Only the last row of the old file, or of the new one, has no newline: what comes
\* after it are the rows added where the last row of the old file was deleted.
MarksFit(lines) ==
  \A i \in DOMAIN lines : lines[i] = "no_newline" =>
    /\ i > 1 /\ lines[i - 1] # "no_newline"
    /\ \A j \in i + 1 .. Len(lines) :
         lines[j] # "no_newline" => lines[i - 1] = "deletion" /\ lines[j] = "addition"

\* A hunk changes something, and the end of the file is in the last.  Hunks come in
\* the order of their rows, with at least one unchanged row between them: libgit2
\* joins those that touch.
WellFormed(p) ==
  /\ p \in Seq(Hunk)
  /\ \A i \in DOMAIN p : Lines(p[i], {"addition", "deletion"}) # {}
  /\ \A i \in DOMAIN p : Lines(p[i], {"no_newline"}) # {} => i = Len(p) /\ MarksFit(p[i].lines)
  /\ \A i, j \in DOMAIN p : i < j => p[j].new_start > p[i].new_start + NewLines(p[i])

ASSUME ReviewAssumption ==
  /\ \A p \in Patches : WellFormed(p)
  /\ Rows \subseteq Nat /\ MaxDiags \in Nat

TypeOK ==
  /\ WellFormed(patch)
  /\ diags \in Seq(Rows) /\ Len(diags) <= MaxDiags
  /\ diag \in 1 .. Len(diags) + 1
  /\ hunk_idx \in 1 .. Len(patch) + 1
  /\ pos \in Nat
  /\ comments \in Seq([diag : DOMAIN diags, position : Nat \ {0}])

Init ==
  /\ patch \in Patches
  /\ diags \in BoundedSeq(Rows, MaxDiags)
  /\ diag = 1
  /\ hunk_idx = 1
  /\ pos = 0
  /\ comments = <<>>

-------------------------------------------------------------------------------
(* The loops.  A definition whose name ends in Slip is the one after it with *)
(* a plausible mistake; no specification uses it.                            *)

\* The first row of a hunk left out.
IsRowInHunkSlip(hunk, row) ==
  row > hunk.new_start /\ row <= hunk.new_start + NewLines(hunk)

IsRowInHunk(hunk, row) ==
  row >= hunk.new_start /\ row <= hunk.new_start + NewLines(hunk)

Row == diags[diag]
HunkInHand == patch[hunk_idx]

InLoop == diag <= Len(diags) /\ hunk_idx <= Len(patch)

\* The rows of a hunk taken for its lines.
PassedSlip(hunk) == NewLines(hunk)

Passed(hunk) == NumLines(hunk)

PassHunk ==
  /\ InLoop
  /\ ~IsRowInHunk(HunkInHand, Row)
  /\ pos' = pos + Passed(HunkInHand)
  /\ hunk_idx' = hunk_idx + 1
  /\ UNCHANGED <<patch, diags, diag, comments>>

\* Positions counted from zero.
PositionSlip == pos + Row - HunkInHand.new_start

Position == pos + Row - HunkInHand.new_start + 1

\* The hunk is not counted, and the loop goes on to the next one.
CommentOnHunk ==
  /\ InLoop
  /\ IsRowInHunk(HunkInHand, Row)
  /\ comments' = Append(comments, [diag |-> diag, position |-> Position])
  /\ hunk_idx' = hunk_idx + 1
  /\ UNCHANGED <<patch, diags, diag, pos>>

\* pos carried over to the next diagnostic.
FreshPosSlip == pos

\* pos is a variable of the loop body.
FreshPos == 0

NextDiag ==
  /\ diag <= Len(diags)
  /\ hunk_idx = Len(patch) + 1
  /\ diag' = diag + 1
  /\ hunk_idx' = 1
  /\ pos' = FreshPos
  /\ UNCHANGED <<patch, diags, comments>>

Next == PassHunk \/ CommentOnHunk \/ NextDiag

Spec == Init /\ [][Next]_vars
FairSpec == Spec /\ WF_vars(Next)

-------------------------------------------------------------------------------
(* What makes it correct.                                                   *)

Done == diag = Len(diags) + 1

\* The lines of hunk h that show a row of the new file, and the row of line i.
ShownIn(hunk) == Lines(hunk, {"context", "addition"})
RowOf(hunk, i) == hunk.new_start + Cardinality({j \in ShownIn(hunk) : j < i})

\* The lines of the diff: the hunk and the line of it.  The places of a row are
\* lines that show it, none or one.
DiffLines == UNION {{h} \X DOMAIN patch[h].lines : h \in DOMAIN patch}
Places(row) ==
  {p \in DiffLines : p[2] \in ShownIn(patch[p[1]]) /\ RowOf(patch[p[1]], p[2]) = row}

Shown(row) == Places(row) # {}

LinesBefore(h) == Cardinality({p \in DiffLines : p[1] < h})

\* Where a line is in the text of the patch, counted from under the first "@@" as
\* GitHub counts a position: every further hunk begins with an "@@" line too.
TextPlace(p) == LinesBefore(p[1]) + (p[1] - 1) + p[2]

\* The lines above line i of a hunk that show no row of the new file.
UnshownAbove(hunk, i) == {j \in Lines(hunk, {"deletion", "no_newline"}) : j < i}

\* Every diagnostic on a row the diff shows gets exactly one comment, and the
\* comments come in the order of the diagnostics.
EveryShownRowOnce ==
  Done =>
    /\ \A d \in DOMAIN diags :
         Shown(diags[d]) => Cardinality({i \in DOMAIN comments : comments[i].diag = d}) = 1
    /\ \A i, j \in DOMAIN comments : i < j => comments[i].diag < comments[j].diag

\* The position of a comment on a row the diff shows lags behind the line of that
\* row in the text of the patch: by one for the "@@" line of every hunk after the
\* first, and by one for every line above it in its hunk that shows no row (deleted,
\* or the mark of a missing newline).  It is right exactly for rows of the first
\* hunk with no such line above them.
PositionLag ==
  \A c \in Range(comments) : \A p \in Places(diags[c.diag]) :
    TextPlace(p) - c.position = (p[1] - 1) + Cardinality(UnshownAbove(patch[p[1]], p[2]))

\* Comments on rows the diff shows keep the order of the rows, so that no two rows
\* are given the same position.
PositionsKeepOrder ==
  \A c, d \in Range(comments) :
    LET a == diags[c.diag]  b == diags[d.diag]
    IN  Shown(a) /\ Shown(b) /\ a < b => c.position < d.position

\* "Check current diagnostic is in diff hunk": no comment is made for a row that
\* the diff does not show.
OnlyShownRows == \A c \in Range(comments) : Shown(diags[c.diag])
===============================================================================
