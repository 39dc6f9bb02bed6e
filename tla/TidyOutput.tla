------------------------------ MODULE TidyOutput ------------------------------
(****************************************************************************)
(* What clang_tidy_general reads out of clang-tidy's standard output:       *)
(* parse_stdout, line by line, with parse_diagnostic_header.  A line is a   *)
(* sequence of words and of the three marks the code looks for, ":", "["    *)
(* and "]"; blanks are left out.                                            *)
(****************************************************************************)
EXTENDS Integers, Sequences, FiniteSetsExt

CONSTANTS
  Paths,     \* the files diagnostics are about
  Numbers,   \* the rows and columns
  TextWords, \* the words of the texts of diagnostics and of source code
  Messages,  \* those texts: sequences of words and marks
  CodeTexts, \* the source code shown: sequences of any words, one that looks like a
             \* header included
  Outputs    \* what clang-tidy may print: sequences of lines

Marks == {":", "[", "]"}

\* The lines clang-tidy prints: the header of a diagnostic, a note of one, or source
\* code.
Severities == {"warning", "error"}
CheckName == "check"
LocatedLine ==
  [kind : Severities \cup {"note"}, path : Paths, row : Numbers, col : Numbers,
   message : Messages]
CodeLine == [kind : {"code"}, words : CodeTexts]
OutputLine == LocatedLine \cup CodeLine

Word == Marks \cup Severities \cup {"note", CheckName} \cup Paths \cup Numbers \cup TextWords

ASSUME TidyOutputAssumption ==
  /\ Outputs \subseteq Seq(OutputLine)
  /\ Messages \subseteq Seq(Marks \cup TextWords)
  /\ CodeTexts \subseteq Seq(Word)
  /\ (Paths \cup Numbers) \cap Marks = {}

Location(l) == <<l.path, ":", l.row, ":", l.col, ":", l.kind, ":">>
Check(l) == IF l.kind = "note" THEN <<>> ELSE <<"[", CheckName, "]">>
Text(l) == IF l.kind = "code" THEN l.words ELSE Location(l) \o (l.message \o Check(l))

VARIABLES
  printed,       \* standard output, split at its line ends
  next,          \* the line in hand
  diags,         \* the diagnostics found
  needs_details  \* a header was found

vars == <<printed, next, diags, needs_details>>

-------------------------------------------------------------------------------
(* The parser.  A definition whose name ends in Slip is the one after it with *)
(* a plausible mistake; no specification uses it.                             *)

Words(part) == {part[i] : i \in DOMAIN part}

Colons(line) == {i \in DOMAIN line : line[i] = ":"}

\* The k-th colon, between the start and the end of the line.
Cut(line, k) ==
  IF k = 0 THEN 0
  ELSE Min({i \in Colons(line) : Cardinality({j \in Colons(line) : j <= i}) = k}
             \cup {Len(line) + 1})

\* views::split(':'): one part more than there are colons.
Split(line) ==
  [k \in 1 .. Cardinality(Colons(line)) + 1 |->
     SubSeq(line, Cut(line, k - 1) + 1, Cut(line, k) - 1)]

supported_serverity == {"warning", "info", "error"}

EnoughParts(parts) == Len(parts) = 5

\* An empty part has no character that is not a digit.
AllDigits(part) == Words(part) \subseteq Numbers

HasCheckName(part) == "[" \in Words(part) /\ part[Len(part)] = "]"

IsHeader(line) ==
  LET parts == Split(line) IN
    /\ EnoughParts(parts)
    /\ AllDigits(parts[2]) /\ AllDigits(parts[3])
    /\ \E s \in supported_serverity : parts[4] = <<s>>
    /\ HasCheckName(parts[5])

\* The last "[" of the part.
BracketSlip(part) == Max({i \in DOMAIN part : part[i] = "["})

\* ranges::find: the first one.
Bracket(part) == Min({i \in DOMAIN part : part[i] = "["})

\* Row and column exchanged with what follows them.
FieldsSlip == [file_name |-> 1, row_idx |-> 3, col_idx |-> 4, serverity |-> 2]

\* The parts of a header, in their order.
Fields == [file_name |-> 1, row_idx |-> 2, col_idx |-> 3, serverity |-> 4]

Header(line) ==
  LET parts == Split(line)
      cut == Bracket(parts[5])
  IN  [file_name |-> parts[Fields.file_name], row_idx |-> parts[Fields.row_idx],
       col_idx |-> parts[Fields.col_idx], serverity |-> parts[Fields.serverity],
       brief |-> SubSeq(parts[5], 1, cut - 1),
       diagnostic_type |-> SubSeq(parts[5], cut, Len(parts[5]))]

Init ==
  /\ printed \in Outputs
  /\ next = 1
  /\ diags = <<>>
  /\ needs_details = FALSE

Done == next = Len(printed) + 1

Line == Text(printed[next])

ParseHeaderLine ==
  /\ ~Done
  /\ IsHeader(Line)
  /\ diags' = Append(diags, [header |-> Header(Line), details |-> <<>>])
  /\ needs_details' = TRUE
  /\ next' = next + 1
  /\ UNCHANGED printed

\* The last line only.
WithDetailsSlip(details, line) == <<line>>

\* The text of the lines, which the code joins; where one ends is kept here.
WithDetails(details, line) == Append(details, line)

ParseDetails ==
  /\ ~Done
  /\ ~IsHeader(Line)
  /\ needs_details
  /\ diags' = [diags EXCEPT ![Len(diags)].details = WithDetails(@, Line)]
  /\ next' = next + 1
  /\ UNCHANGED <<printed, needs_details>>

\* What comes before the first header is dropped.
SkipLine ==
  /\ ~Done
  /\ ~IsHeader(Line)
  /\ ~needs_details
  /\ next' = next + 1
  /\ UNCHANGED <<printed, diags, needs_details>>

Next == ParseHeaderLine \/ ParseDetails \/ SkipLine

Spec == Init /\ [][Next]_vars

-------------------------------------------------------------------------------
(* What makes it correct.                                                   *)

HeaderType ==
  [file_name : Seq(Word), row_idx : Seq(Numbers), col_idx : Seq(Numbers),
   serverity : {<<s>> : s \in supported_serverity},
   brief : Seq(Word), diagnostic_type : Seq(Word)]

TypeOK ==
  /\ printed \in Seq(OutputLine)
  /\ next \in 1 .. Len(printed) + 1
  /\ diags \in Seq([header : HeaderType, details : Seq(Seq(Word))])
  /\ needs_details \in BOOLEAN

\* The headers the parser can take up: their messages hold no colon.
Plain(l) == l.kind \in Severities /\ ":" \notin Words(l.message)

\* Source code that looks like a header is taken for one.
Lookalike(l) == l.kind = "code" /\ IsHeader(l.words)

HeaderLines == {i \in DOMAIN printed : Plain(printed[i]) \/ Lookalike(printed[i])}

\* The place of a line taken for a header among them.
Place(i) == Cardinality({j \in HeaderLines : j <= i})

\* The header of a line says where the diagnostic is and how severe; its text and
\* check are cut at the first bracket.
Says(header, l) ==
  /\ header.file_name = <<l.path>> /\ header.serverity = <<l.kind>>
  /\ header.row_idx = <<l.row>> /\ header.col_idx = <<l.col>>
  /\ header.brief \o header.diagnostic_type = l.message \o Check(l)
  /\ "[" \notin Words(header.brief)

\* The diagnostics found are the plain ones, all of them and in their order, each
\* with its place, its severity, its text and its check; between them stand those
\* made of source code that looks like a header, and no others.
PlainDiagnosticsRead ==
  Done =>
    /\ Len(diags) = Cardinality(HeaderLines)
    /\ \A i \in HeaderLines :
         Plain(printed[i]) => Says(diags[Place(i)].header, printed[i])

\* The lines after line i and before line end.
TextBetween(i, end) == [k \in 1 .. end - 1 - i |-> Text(printed[i + k])]

\* The details of a diagnostic are every line between its header and that of the
\* next diagnostic found, in order.  The lines of a diagnostic that was dropped are
\* among them: they are given to the one before it.
DetailsComplete ==
  Done =>
    \A i \in HeaderLines :
      LET end == Min({k \in HeaderLines : k > i} \cup {next})
      IN  diags[Place(i)].details = TextBetween(i, end)

\* "Represents all diagnostics which outputed by clang-tidy": none is left out.
AllDiagnosticsRead ==
  Done => Len(diags) >= Cardinality({i \in DOMAIN printed : printed[i].kind \in Severities})
===============================================================================
