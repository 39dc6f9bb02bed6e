----------------------------- MODULE MCTidyOutput -----------------------------
(* Up to three blocks, of two files, with messages that hold no mark, colons *)
(* or brackets; under them nothing, source code, code with colons and a note, *)
(* or code that looks like a header.                                         *)
EXTENDS TidyOutput, SequencesExt

MCPaths == {"a.cpp", "a.h"}
MCNumbers == {"1", "2"}
MCTextWords == {"text", "std", "array", "1"}

ShortCode == <<"text">>
CodeWithColons == <<"std", ":", ":", "text">>
CodeLikeHeader == <<"a.cpp", ":", "1", ":", "2", ":", "error", ":", "text", "[", "check", "]">>
MCCodeTexts == {ShortCode, CodeWithColons, CodeLikeHeader}
MCMessages == {<<"text">>, <<"std", ":", ":", "text">>, <<"array", "[", "1", "]", "text">>}

Code(text) == [kind |-> "code", words |-> text]
Note == [kind |-> "note"]

\* A block is a diagnostic and the lines under it.  A position for each file, so that
\* rows and columns cannot be taken for each other unseen.
MCBlocks ==
  {b \in [path : MCPaths, row : MCNumbers, col : MCNumbers, severity : {"warning", "error"},
          message : MCMessages,
          under : {<<>>, <<Code(ShortCode)>>, <<Code(CodeWithColons), Note>>,
                   <<Code(CodeLikeHeader)>>}] :
     b.row # b.col /\ (b.path = "a.h" => b.row = "2")}

SmallBlocks ==
  {b \in MCBlocks : b.path = "a.cpp" /\ b.row = "1" /\ Len(b.under) < 2
                     /\ b.message # <<"array", "[", "1", "]", "text">>}

LocatedLineOf(b, kind) ==
  [kind |-> kind, path |-> b.path, row |-> b.row, col |-> b.col, message |-> b.message]

LinesOf(b) ==
  <<LocatedLineOf(b, b.severity)>>
    \o [i \in DOMAIN b.under |->
          IF b.under[i] = Note THEN LocatedLineOf(b, "note") ELSE b.under[i]]

MCOutputs ==
  {FlattenSeq([i \in DOMAIN blocks |-> LinesOf(blocks[i])]) :
     blocks \in UNION {[1 .. n -> MCBlocks] : n \in 0 .. 2} \cup [1 .. 3 -> SmallBlocks]}
===============================================================================
