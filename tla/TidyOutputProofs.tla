---------------------------- MODULE TidyOutputProofs ----------------------------
(****************************************************************************)
(* What is read out of clang-tidy's output, for any output made of headers, *)
(* notes and source code.                                                   *)
(****************************************************************************)
EXTENDS TidyOutput, FiniteSetTheorems, SequenceTheorems, WellFoundedInduction, TLAPS

\* A set of numbers that is not empty has a smallest one.
LEMMA Smallest ==
  ASSUME NEW S \in SUBSET Nat, S # {}
  PROVE  Min(S) \in S /\ \A y \in S : Min(S) <= y
<1> DEFINE R == OpToRel(<, Nat)
<1>1. IsWellFoundedOn(R, Nat)
  BY NatLessThanWellFounded
<1>2. \A x, y \in Nat : <<y, x>> \in R <=> y < x
  BY DEF OpToRel
<1> HIDE DEF R
<1>3. PICK x \in S : \A y \in S : ~(<<y, x>> \in R)
  BY <1>1, WFMin
<1>4. ASSUME NEW y \in S
      PROVE  x <= y
  <2>1. x \in Nat /\ y \in Nat
    OBVIOUS
  <2>2. ~(y < x)
    BY <1>2, <1>3, <2>1
  <2> QED BY <2>1, <2>2
<1>5. \E m \in S : \A y \in S : m <= y
  BY <1>4
<1> QED BY <1>5 DEF Min

-------------------------------------------------------------------------------
(* The lines clang-tidy prints.                                             *)

Rest(l) == l.message \o Check(l)

LEMMA LocatedFacts ==
  ASSUME NEW l \in LocatedLine
  PROVE  /\ l.kind \in {"warning", "error", "note"}
         /\ l.path \in Word /\ l.row \in Word /\ l.col \in Word
         /\ l.path # ":" /\ l.row # ":" /\ l.col # ":"
         /\ l.path \in Paths /\ l.row \in Numbers /\ l.col \in Numbers
         /\ l.message \in Seq(Word)
         /\ Check(l) \in Seq(Word)
         /\ Rest(l) \in Seq(Word)
<1>1. l.message \in Seq(Word)
  <2>1. l.message \in Seq(Marks \cup TextWords)
    BY TidyOutputAssumption DEF LocatedLine
  <2> QED BY <2>1, SeqMonotonic DEF Word
<1>2. Check(l) \in Seq(Word)
  <2>1. "[" \in Word /\ "check" \in Word /\ "]" \in Word
    BY DEF Word, Marks, CheckName
  <2>2. <<>> \in Seq(Word) /\ <<"[", "check", "]">> \in Seq(Word)
    BY <2>1
  <2> QED BY <2>2 DEF Check, CheckName
<1>3. Rest(l) \in Seq(Word)
  BY <1>1, <1>2, ConcatProperties DEF Rest
<1>4. l.path \in Paths /\ l.row \in Numbers /\ l.col \in Numbers
  BY DEF LocatedLine
<1>5. l.kind \in {"warning", "error", "note"}
  BY DEF LocatedLine, Severities
<1>6. l.path \in Word /\ l.row \in Word /\ l.col \in Word
  BY <1>4 DEF Word
<1> QED BY <1>1, <1>2, <1>3, <1>4, <1>5, <1>6, TidyOutputAssumption DEF Marks

\* The words of a located line: eight, then those of the message and the check.
LEMMA TextFacts ==
  ASSUME NEW l \in LocatedLine
  PROVE  /\ Text(l) \in Seq(Word)
         /\ Len(Text(l)) = 8 + Len(Rest(l)) /\ Len(Rest(l)) \in Nat
         /\ DOMAIN Text(l) = 1 .. 8 + Len(Rest(l))
         /\ Text(l)[1] = l.path /\ Text(l)[3] = l.row /\ Text(l)[5] = l.col
         /\ Text(l)[7] = l.kind
         /\ \A i \in {2, 4, 6, 8} : Text(l)[i] = ":"
         /\ \A i \in 1 .. Len(Rest(l)) : Text(l)[8 + i] = Rest(l)[i]
<1>1. Text(l) = Location(l) \o Rest(l)
  <2>1. l.kind # "code"
    BY LocatedFacts
  <2> QED BY <2>1 DEF Text, Rest
<1>2. Location(l) \in Seq(Word) /\ Len(Location(l)) = 8
  <2>1. l.path \in Word /\ l.row \in Word /\ l.col \in Word
    BY LocatedFacts
  <2>2. l.kind \in Word /\ ":" \in Word
    BY LocatedFacts DEF Word, Severities, Marks
  <2> QED BY <2>1, <2>2 DEF Location
<1>3. Rest(l) \in Seq(Word) /\ Len(Rest(l)) \in Nat
  BY LocatedFacts, LenProperties
<1>4. /\ Text(l) \in Seq(Word)
      /\ Len(Text(l)) = 8 + Len(Rest(l))
      /\ \A i \in 1 .. 8 + Len(Rest(l)) :
           Text(l)[i] = IF i <= 8 THEN Location(l)[i] ELSE Rest(l)[i - 8]
  <2> DEFINE a == Location(l)
             b == Rest(l)
  <2>1. a \in Seq(Word) /\ b \in Seq(Word)
    BY <1>2, <1>3
  <2> HIDE DEF a, b
  <2>2. /\ a \o b \in Seq(Word)
        /\ Len(a \o b) = Len(a) + Len(b)
        /\ \A i \in 1 .. Len(a) + Len(b) : (a \o b)[i] = IF i <= Len(a) THEN a[i] ELSE b[i - Len(a)]
    BY <2>1, ConcatProperties
  <2>3. Text(l) = a \o b /\ Len(a) = 8
    BY <1>1, <1>2 DEF a, b
  <2> QED BY <2>2, <2>3 DEF a, b
<1>5. DOMAIN Text(l) = 1 .. 8 + Len(Rest(l))
  BY <1>4, LenProperties
<1>6. \A i \in 1 .. 8 : Text(l)[i] = Location(l)[i]
  BY <1>3, <1>4
<1>7. \A i \in 1 .. Len(Rest(l)) : Text(l)[8 + i] = Rest(l)[i]
  <2>1. ASSUME NEW i \in 1 .. Len(Rest(l))
        PROVE  Text(l)[8 + i] = Rest(l)[i]
    <3>1. 8 + i \in 1 .. 8 + Len(Rest(l)) /\ ~(8 + i <= 8) /\ 8 + i - 8 = i
      BY <1>3
    <3> QED BY <1>4, <3>1
  <2> QED BY <2>1
<1>8. /\ Location(l)[1] = l.path /\ Location(l)[3] = l.row /\ Location(l)[5] = l.col
      /\ Location(l)[7] = l.kind
      /\ \A i \in {2, 4, 6, 8} : Location(l)[i] = ":"
  BY DEF Location
<1>9. /\ Text(l)[1] = l.path /\ Text(l)[3] = l.row /\ Text(l)[5] = l.col
      /\ Text(l)[7] = l.kind
      /\ \A i \in {2, 4, 6, 8} : Text(l)[i] = ":"
  BY <1>6, <1>8
<1> QED BY <1>3, <1>4, <1>5, <1>7, <1>9

\* The words of the message and of the check after it.
LEMMA RestFacts ==
  ASSUME NEW l \in LocatedLine
  PROVE  /\ Words(l.message) \subseteq Words(Rest(l))
         /\ ":" \in Words(Rest(l)) => ":" \in Words(l.message)
         /\ l.kind # "note" => /\ "[" \in Words(Rest(l))
                               /\ Rest(l)[Len(Rest(l))] = "]"
<1> DEFINE m == l.message
           c == Check(l)
<1>1. m \in Seq(Word) /\ c \in Seq(Word)
  BY LocatedFacts
<1>2. Len(m) \in Nat /\ DOMAIN m = 1 .. Len(m) /\ Len(c) \in Nat /\ DOMAIN c = 1 .. Len(c)
  BY <1>1, LenProperties
<1>3. /\ Len(Rest(l)) = Len(m) + Len(c)
      /\ \A i \in 1 .. Len(m) + Len(c) : Rest(l)[i] = IF i <= Len(m) THEN m[i] ELSE c[i - Len(m)]
  BY <1>1, ConcatProperties DEF Rest
<1>4. DOMAIN Rest(l) = 1 .. Len(m) + Len(c)
  BY <1>3, LocatedFacts, LenProperties
<1>5. \A i \in DOMAIN c : c[i] # ":"
  BY DEF Check, CheckName
<1>6. l.kind # "note" => Len(c) = 3 /\ c[1] = "[" /\ c[3] = "]"
  BY DEF Check
<1> HIDE DEF m, c
<1>7. \A i \in DOMAIN m : i \in DOMAIN Rest(l) /\ Rest(l)[i] = m[i]
  BY <1>2, <1>3, <1>4
<1>8. ASSUME NEW i \in DOMAIN Rest(l), Rest(l)[i] = ":"
      PROVE  \E j \in DOMAIN m : m[j] = ":"
  <2>1. CASE i <= Len(m)
    BY <1>2, <1>3, <1>4, <1>8, <2>1
  <2>2. CASE ~(i <= Len(m))
    <3>1. Rest(l)[i] = c[i - Len(m)]
      BY <1>3, <1>4, <2>2
    <3>2. i - Len(m) \in DOMAIN c
      BY <1>2, <1>4, <2>2
    <3> QED BY <1>5, <1>8, <3>1, <3>2
  <2> QED BY <2>1, <2>2
<1>9. ASSUME l.kind # "note"
      PROVE  /\ Len(m) + 1 \in DOMAIN Rest(l) /\ Rest(l)[Len(m) + 1] = "["
             /\ Rest(l)[Len(Rest(l))] = "]"
  <2>1. Len(c) = 3 /\ c[1] = "[" /\ c[3] = "]"
    BY <1>6, <1>9
  <2>2. Rest(l)[Len(m) + 1] = c[1]
    <3>1. Len(m) + 1 \in 1 .. Len(m) + Len(c) /\ ~(Len(m) + 1 <= Len(m)) /\ Len(m) + 1 - Len(m) = 1
      BY <1>2, <2>1
    <3> QED BY <1>3, <3>1
  <2>3. Rest(l)[Len(m) + 3] = c[3]
    <3>1. Len(m) + 3 \in 1 .. Len(m) + Len(c) /\ ~(Len(m) + 3 <= Len(m)) /\ Len(m) + 3 - Len(m) = 3
      BY <1>2, <2>1
    <3> QED BY <1>3, <3>1
  <2> QED BY <1>2, <1>3, <1>4, <2>1, <2>2, <2>3
<1>10. Words(m) \subseteq Words(Rest(l))
  <2>1. \A w \in Words(m) : \E i \in DOMAIN m : w = m[i]
    BY DEF Words
  <2> QED BY <1>7, <2>1 DEF Words
<1>11. ":" \in Words(Rest(l)) => ":" \in Words(m)
  BY <1>8 DEF Words
<1>12. l.kind # "note" => "[" \in Words(Rest(l)) /\ Rest(l)[Len(Rest(l))] = "]"
  BY <1>9 DEF Words
<1> QED BY <1>10, <1>11, <1>12 DEF m

-------------------------------------------------------------------------------
(* Where a line is split.                                                   *)

LEMMA ColonsFinite ==
  ASSUME NEW line \in Seq(Word)
  PROVE  /\ IsFiniteSet(Colons(line)) /\ Cardinality(Colons(line)) \in Nat
         /\ Colons(line) \subseteq 1 .. Len(line)
<1>1. DOMAIN line = 1 .. Len(line) /\ Len(line) \in Nat
  BY LenProperties
<1>2. IsFiniteSet(1 .. Len(line))
  BY <1>1, FS_Interval
<1>3. Colons(line) \subseteq 1 .. Len(line)
  BY <1>1 DEF Colons
<1> QED BY <1>2, <1>3, FS_Subset, FS_CardinalityType

LEMMA SplitLength ==
  ASSUME NEW line \in Seq(Word)
  PROVE  Len(Split(line)) = Cardinality(Colons(line)) + 1
<1> DEFINE n == Cardinality(Colons(line)) + 1
           S == {Split(line)[k] : k \in 1 .. n}
<1>1. n \in Nat
  BY ColonsFinite
<1>2. DOMAIN Split(line) = 1 .. n /\ Split(line) \in [1 .. n -> S]
  BY DEF Split
<1>3. Split(line) \in Seq(S)
  BY <1>1, <1>2, SeqDef
<1>4. DOMAIN Split(line) = 1 .. Len(Split(line)) /\ Len(Split(line)) \in Nat
  BY <1>3, LenProperties
<1> HIDE DEF n, S
<1>5. Len(Split(line)) = n
  BY <1>1, <1>2, <1>4
<1> QED BY <1>5 DEF n

\* The four colons of a location, counted.
LEMMA FourColons ==
  /\ IsFiniteSet({2, 4, 6, 8}) /\ Cardinality({2, 4, 6, 8}) = 4
  /\ Cardinality({2, 4, 6}) = 3 /\ Cardinality({2, 4}) = 2 /\ Cardinality({2}) = 1
<1>1. IsFiniteSet({2}) /\ Cardinality({2}) = 1
  BY FS_Singleton
<1>2. IsFiniteSet({2} \cup {4}) /\ Cardinality({2} \cup {4}) = 2
  BY <1>1, FS_AddElement
<1>3. {2} \cup {4} = {2, 4}
  OBVIOUS
<1>4. IsFiniteSet({2, 4} \cup {6}) /\ Cardinality({2, 4} \cup {6}) = 3
  BY <1>2, <1>3, FS_AddElement
<1>5. {2, 4} \cup {6} = {2, 4, 6}
  OBVIOUS
<1>6. IsFiniteSet({2, 4, 6} \cup {8}) /\ Cardinality({2, 4, 6} \cup {8}) = 4
  BY <1>4, <1>5, FS_AddElement
<1>7. {2, 4, 6} \cup {8} = {2, 4, 6, 8}
  OBVIOUS
<1> QED BY <1>1, <1>2, <1>3, <1>4, <1>5, <1>6, <1>7

\* A line has the colons of its location, and others only in its message.
LEMMA ColonsOfLine ==
  ASSUME NEW l \in LocatedLine
  PROVE  /\ {2, 4, 6, 8} \subseteq Colons(Text(l))
         /\ ":" \notin Words(l.message) => Colons(Text(l)) = {2, 4, 6, 8}
         /\ ":" \in Words(l.message) => \E i \in Colons(Text(l)) : i \notin {2, 4, 6, 8}
<1> DEFINE t == Text(l)
           r == Rest(l)
<1>1. /\ DOMAIN t = 1 .. 8 + Len(r) /\ Len(r) \in Nat
      /\ t[1] # ":" /\ t[3] # ":" /\ t[5] # ":" /\ t[7] # ":"
      /\ \A i \in {2, 4, 6, 8} : t[i] = ":"
      /\ \A i \in 1 .. Len(r) : t[8 + i] = r[i]
  BY TextFacts, LocatedFacts
<1>2. DOMAIN r = 1 .. Len(r)
  BY LocatedFacts, LenProperties
<1>3. /\ Words(l.message) \subseteq Words(r)
      /\ ":" \in Words(r) => ":" \in Words(l.message)
  BY RestFacts
<1> HIDE DEF t, r
<1>4. {2, 4, 6, 8} \subseteq Colons(t)
  BY <1>1 DEF Colons
<1>5. ASSUME NEW i \in Colons(t), i \notin {2, 4, 6, 8}
      PROVE  ":" \in Words(l.message)
  <2>1. i \in 1 .. 8 + Len(r) /\ t[i] = ":"
    BY <1>1 DEF Colons
  <2>2. i \notin 1 .. 8
    BY <1>1, <1>5, <2>1
  <2>3. i - 8 \in 1 .. Len(r) /\ 8 + (i - 8) = i
    BY <1>1, <2>1, <2>2
  <2>4. r[i - 8] = ":"
    BY <1>1, <2>1, <2>3
  <2>5. ":" \in Words(r)
    BY <1>2, <2>3, <2>4 DEF Words
  <2> QED BY <1>3, <2>5
<1>6. ASSUME ":" \in Words(l.message)
      PROVE  \E i \in Colons(t) : i \notin {2, 4, 6, 8}
  <2>1. PICK i \in 1 .. Len(r) : r[i] = ":"
    BY <1>2, <1>3, <1>6 DEF Words
  <2>2. 8 + i \in DOMAIN t /\ t[8 + i] = ":" /\ 8 + i \notin {2, 4, 6, 8}
    BY <1>1, <2>1
  <2> QED BY <2>2 DEF Colons
<1> QED BY <1>4, <1>5, <1>6 DEF t

\* The cuts of a line whose only colons are those of its location.
LEMMA CutsOfLocation ==
  ASSUME NEW line \in Seq(Word), Colons(line) = {2, 4, 6, 8}
  PROVE  /\ Cut(line, 0) = 0 /\ Cut(line, 1) = 2 /\ Cut(line, 2) = 4 /\ Cut(line, 3) = 6
         /\ Cut(line, 4) = 8 /\ Cut(line, 5) = Len(line) + 1
<1> DEFINE upto(i) == Cardinality({j \in {2, 4, 6, 8} : j <= i})
<1>1. upto(2) = 1 /\ upto(4) = 2 /\ upto(6) = 3 /\ upto(8) = 4
  <2>1. /\ {j \in {2, 4, 6, 8} : j <= 2} = {2}
        /\ {j \in {2, 4, 6, 8} : j <= 4} = {2, 4}
        /\ {j \in {2, 4, 6, 8} : j <= 6} = {2, 4, 6}
        /\ {j \in {2, 4, 6, 8} : j <= 8} = {2, 4, 6, 8}
    OBVIOUS
  <2> QED BY <2>1, FourColons
<1>2. Len(line) \in Nat /\ 8 <= Len(line)
  <2>1. Len(line) \in Nat /\ 8 \in 1 .. Len(line)
    BY ColonsFinite, LenProperties
  <2> QED BY <2>1
<1> HIDE DEF upto
<1>3. ASSUME NEW k \in Nat \ {0}
      PROVE  Cut(line, k) = Min({i \in {2, 4, 6, 8} : upto(i) = k} \cup {Len(line) + 1})
  BY DEF Cut, upto
<1>4. ASSUME NEW k \in Nat \ {0}, NEW c \in {2, 4, 6, 8},
             {i \in {2, 4, 6, 8} : upto(i) = k} = {c}
      PROVE  Cut(line, k) = c
  <2> DEFINE S == {c} \cup {Len(line) + 1}
  <2>1. S \in SUBSET Nat /\ S # {}
    BY <1>2
  <2>2. Min(S) \in S /\ \A y \in S : Min(S) <= y
    BY <2>1, Smallest
  <2>3. Min(S) = c
    BY <1>2, <2>2
  <2>4. Cut(line, k) = Min(S)
    BY <1>3, <1>4
  <2> QED BY <2>3, <2>4
<1>5. /\ {i \in {2, 4, 6, 8} : upto(i) = 1} = {2}
      /\ {i \in {2, 4, 6, 8} : upto(i) = 2} = {4}
      /\ {i \in {2, 4, 6, 8} : upto(i) = 3} = {6}
      /\ {i \in {2, 4, 6, 8} : upto(i) = 4} = {8}
      /\ {i \in {2, 4, 6, 8} : upto(i) = 5} = {}
  BY <1>1
<1>6. Cut(line, 1) = 2 /\ Cut(line, 2) = 4 /\ Cut(line, 3) = 6 /\ Cut(line, 4) = 8
  BY <1>4, <1>5
<1>7. Cut(line, 5) = Len(line) + 1
  <2> DEFINE S == {Len(line) + 1}
  <2>1. S \in SUBSET Nat /\ S # {}
    BY <1>2
  <2>2. Min(S) = Len(line) + 1
    BY <2>1, Smallest
  <2>3. {i \in {2, 4, 6, 8} : upto(i) = 5} \cup {Len(line) + 1} = S
    BY <1>5
  <2> QED BY <1>3, <2>2, <2>3
<1>8. Cut(line, 0) = 0
  BY DEF Cut
<1> QED BY <1>6, <1>7, <1>8

\* Every cut is in the line or at one of its ends, so that its parts are made of its
\* words.
LEMMA PartsAreWords ==
  ASSUME NEW line \in Seq(Word), NEW k \in 1 .. Len(Split(line))
  PROVE  Split(line)[k] \in Seq(Word)
<1>1. /\ Len(line) \in Nat /\ Colons(line) \subseteq 1 .. Len(line)
      /\ Cardinality(Colons(line)) \in Nat
  BY ColonsFinite, LenProperties
<1>2. k \in 1 .. Cardinality(Colons(line)) + 1
  BY SplitLength
<1>3. ASSUME NEW n \in Nat
      PROVE  Cut(line, n) \in 0 .. Len(line) + 1
  <2> DEFINE S == {i \in Colons(line) : Cardinality({j \in Colons(line) : j <= i}) = n}
                    \cup {Len(line) + 1}
  <2>1. S \subseteq 1 .. Len(line) + 1 /\ S # {}
    BY <1>1
  <2>2. Cut(line, n) = IF n = 0 THEN 0 ELSE Min(S)
    BY DEF Cut
  <2> HIDE DEF S
  <2>3. S \in SUBSET Nat
    BY <1>1, <2>1
  <2>4. Min(S) \in S
    BY <2>1, <2>3, Smallest
  <2>5. CASE n = 0
    <3>1. Cut(line, n) = 0
      BY <2>2, <2>5
    <3> QED BY <1>1, <3>1
  <2>6. CASE n # 0
    <3>1. Cut(line, n) = Min(S)
      BY <2>2, <2>6
    <3>2. Min(S) \in 1 .. Len(line) + 1
      BY <2>1, <2>4
    <3> HIDE DEF S
    <3> QED BY <1>1, <3>1, <3>2
  <2> QED BY <2>5, <2>6
<1>4. k - 1 \in Nat /\ k \in Nat
  BY <1>1, <1>2
<1> DEFINE from == Cut(line, k - 1) + 1
           to == Cut(line, k) - 1
<1>5. from \in Int /\ to \in Int /\ from >= 1 /\ to <= Len(line)
  <2>1. Cut(line, k - 1) \in 0 .. Len(line) + 1
    BY <1>3, <1>4
  <2>2. Cut(line, k) \in 0 .. Len(line) + 1
    BY <1>3, <1>4
  <2> QED BY <1>1, <2>1, <2>2
<1>6. Split(line)[k] = SubSeq(line, from, to)
  BY <1>2 DEF Split
<1> HIDE DEF from, to
<1>7. \A i \in from .. to : line[i] \in Word
  <2>1. \A i \in 1 .. Len(line) : line[i] \in Word
    BY ElementOfSeq
  <2> QED BY <1>1, <1>5, <2>1
<1>8. from \in Int /\ to \in Int
  BY <1>1, <1>5
<1>9. SubSeq(line, from, to) \in Seq(Word)
  BY <1>7, <1>8, SubSeqProperties
<1> QED BY <1>6, <1>9

\* A sequence of one word cut out of a line.
LEMMA OneWord ==
  ASSUME NEW line \in Seq(Word), NEW i \in 1 .. Len(line)
  PROVE  SubSeq(line, i, i) = <<line[i]>>
<1>1. line[i] \in Word /\ i \in Int
  BY ElementOfSeq
<1>2. /\ SubSeq(line, i, i) \in Seq(Word) /\ Len(SubSeq(line, i, i)) = 1
      /\ SubSeq(line, i, i)[1] = line[i]
  <2>1. \A j \in i .. i : line[j] \in Word
    BY <1>1
  <2>2. /\ SubSeq(line, i, i) \in Seq(Word)
        /\ Len(SubSeq(line, i, i)) = IF i <= i THEN i - i + 1 ELSE 0
        /\ \A j \in 1 .. i - i + 1 : SubSeq(line, i, i)[j] = line[i + j - 1]
    BY <1>1, <2>1, SubSeqProperties
  <2> QED BY <1>1, <2>2
<1>3. <<line[i]>> \in Seq(Word) /\ Len(<<line[i]>>) = 1 /\ <<line[i]>>[1] = line[i]
  BY <1>1
<1> DEFINE a == SubSeq(line, i, i)
           b == <<line[i]>>
<1>4. /\ a \in Seq(Word) /\ Len(a) = 1 /\ a[1] = line[i]
      /\ b \in Seq(Word) /\ Len(b) = 1 /\ b[1] = line[i]
  BY <1>2, <1>3
<1> HIDE DEF a, b
<1>5. \A k \in 1 .. Len(a) : a[k] = b[k]
  BY <1>4
<1>6. a = b
  BY <1>4, <1>5, SeqEqual
<1> QED BY <1>6 DEF a, b

\* The parts of a located line whose message holds no colon.
LEMMA PartsOfPlain ==
  ASSUME NEW l \in LocatedLine, ":" \notin Words(l.message)
  PROVE  /\ Len(Split(Text(l))) = 5
         /\ Split(Text(l))[1] = <<l.path>> /\ Split(Text(l))[2] = <<l.row>>
         /\ Split(Text(l))[3] = <<l.col>> /\ Split(Text(l))[4] = <<l.kind>>
         /\ Split(Text(l))[5] = Rest(l)
<1> DEFINE t == Text(l)
           n == Len(Rest(l))
<1>1. /\ t \in Seq(Word) /\ Len(t) = 8 + n /\ n \in Nat
      /\ t[1] = l.path /\ t[3] = l.row /\ t[5] = l.col /\ t[7] = l.kind
      /\ \A i \in 1 .. n : t[8 + i] = Rest(l)[i]
  BY TextFacts
<1>2. Colons(t) = {2, 4, 6, 8}
  BY ColonsOfLine
<1>3. Rest(l) \in Seq(Word)
  BY LocatedFacts
<1> HIDE DEF t, n
<1>4. Cardinality(Colons(t)) = 4
  BY <1>2, FourColons
<1>5. Len(Split(t)) = 5
  <2>1. Len(Split(t)) = Cardinality(Colons(t)) + 1
    BY <1>1, SplitLength
  <2> QED BY <1>4, <2>1
<1>6. \A k \in 1 .. 5 : Split(t)[k] = SubSeq(t, Cut(t, k - 1) + 1, Cut(t, k) - 1)
  <2>1. \A k \in 1 .. Cardinality(Colons(t)) + 1 :
          Split(t)[k] = SubSeq(t, Cut(t, k - 1) + 1, Cut(t, k) - 1)
    BY DEF Split
  <2> QED BY <1>4, <2>1
<1>7. /\ Cut(t, 0) = 0 /\ Cut(t, 1) = 2 /\ Cut(t, 2) = 4 /\ Cut(t, 3) = 6
      /\ Cut(t, 4) = 8 /\ Cut(t, 5) = Len(t) + 1
  BY <1>1, <1>2, CutsOfLocation
<1>8. /\ Split(t)[1] = SubSeq(t, 1, 1) /\ Split(t)[2] = SubSeq(t, 3, 3)
      /\ Split(t)[3] = SubSeq(t, 5, 5) /\ Split(t)[4] = SubSeq(t, 7, 7)
      /\ Split(t)[5] = SubSeq(t, 9, Len(t))
  <2>1. Split(t)[1] = SubSeq(t, Cut(t, 0) + 1, Cut(t, 1) - 1)
    BY <1>6
  <2>2. Split(t)[2] = SubSeq(t, Cut(t, 1) + 1, Cut(t, 2) - 1)
    BY <1>6
  <2>3. Split(t)[3] = SubSeq(t, Cut(t, 2) + 1, Cut(t, 3) - 1)
    BY <1>6
  <2>4. Split(t)[4] = SubSeq(t, Cut(t, 3) + 1, Cut(t, 4) - 1)
    BY <1>6
  <2>5. Split(t)[5] = SubSeq(t, Cut(t, 4) + 1, Cut(t, 5) - 1)
    BY <1>6
  <2>6. /\ Cut(t, 0) + 1 = 1 /\ Cut(t, 1) - 1 = 1 /\ Cut(t, 1) + 1 = 3 /\ Cut(t, 2) - 1 = 3
        /\ Cut(t, 2) + 1 = 5 /\ Cut(t, 3) - 1 = 5 /\ Cut(t, 3) + 1 = 7 /\ Cut(t, 4) - 1 = 7
        /\ Cut(t, 4) + 1 = 9
    BY <1>7
  <2>7. Cut(t, 5) - 1 = Len(t)
    BY <1>1, <1>7
  <2> QED BY <2>1, <2>2, <2>3, <2>4, <2>5, <2>6, <2>7
<1>9. /\ SubSeq(t, 1, 1) = <<l.path>> /\ SubSeq(t, 3, 3) = <<l.row>>
      /\ SubSeq(t, 5, 5) = <<l.col>> /\ SubSeq(t, 7, 7) = <<l.kind>>
  BY <1>1, OneWord
<1>10. SubSeq(t, 9, Len(t)) = Rest(l)
  <2> DEFINE s == SubSeq(t, 9, Len(t))
  <2>1. \A i \in 9 .. Len(t) : t[i] \in Word
    BY <1>1, ElementOfSeq
  <2>2. 9 \in Int /\ Len(t) \in Int
    BY <1>1
  <2>3. /\ s \in Seq(Word)
        /\ Len(s) = IF 9 <= Len(t) THEN Len(t) - 9 + 1 ELSE 0
        /\ \A i \in 1 .. Len(t) - 9 + 1 : s[i] = t[9 + i - 1]
    BY <2>1, <2>2, SubSeqProperties
  <2> HIDE DEF s
  <2>4. Len(s) = n /\ Len(Rest(l)) = n
    BY <1>1, <2>3 DEF n
  <2>5. \A i \in 1 .. n : s[i] = Rest(l)[i]
    <3>1. ASSUME NEW i \in 1 .. n
          PROVE  s[i] = Rest(l)[i]
      <4>1. i \in 1 .. Len(t) - 9 + 1 /\ 9 + i - 1 = 8 + i
        BY <1>1
      <4> QED BY <1>1, <2>3, <4>1
    <3> QED BY <3>1
  <2>6. s = Rest(l)
    BY <1>3, <2>3, <2>4, <2>5, SeqEqual
  <2> QED BY <2>6 DEF s
<1> QED BY <1>5, <1>8, <1>9, <1>10 DEF t

-------------------------------------------------------------------------------
(* Which lines are taken for headers, and what is read out of them.         *)

\* A line with another number of colons than four is not one of five parts.
LEMMA OtherPartsOfColons ==
  ASSUME NEW l \in LocatedLine, ":" \in Words(l.message)
  PROVE  Len(Split(Text(l))) # 5
<1>1. Text(l) \in Seq(Word)
  BY TextFacts
<1>2. /\ {2, 4, 6, 8} \subseteq Colons(Text(l)) /\ Colons(Text(l)) # {2, 4, 6, 8}
  BY ColonsOfLine
<1>3. IsFiniteSet(Colons(Text(l))) /\ Cardinality(Colons(Text(l))) \in Nat
  BY <1>1, ColonsFinite
<1>4. Cardinality(Colons(Text(l))) # 4
  BY <1>2, <1>3, FourColons, FS_Subset
<1>5. Len(Split(Text(l))) = Cardinality(Colons(Text(l))) + 1
  BY <1>1, SplitLength
<1> QED BY <1>3, <1>4, <1>5

\* A line is taken for a header exactly when it is a plain one or code that looks
\* like one.
LEMMA HeaderIffTaken ==
  ASSUME NEW l \in OutputLine
  PROVE  IsHeader(Text(l)) <=> Plain(l) \/ Lookalike(l)
<1>1. CASE l \in CodeLine
  <2>1. l.kind = "code" /\ Text(l) = l.words
    BY <1>1 DEF CodeLine, Text
  <2> QED BY <2>1 DEF Plain, Lookalike, Severities
<1>0. ASSUME l \in LocatedLine
      PROVE  ~Lookalike(l)
  BY <1>0, LocatedFacts DEF Lookalike
<1>2. CASE l \in LocatedLine /\ ":" \in Words(l.message)
  BY <1>0, <1>2, OtherPartsOfColons DEF IsHeader, EnoughParts, Plain
<1>3. CASE l \in LocatedLine /\ ":" \notin Words(l.message)
  <2> DEFINE parts == Split(Text(l))
  <2>1. /\ Len(parts) = 5
        /\ parts[2] = <<l.row>> /\ parts[3] = <<l.col>> /\ parts[4] = <<l.kind>>
        /\ parts[5] = Rest(l)
    BY <1>3, PartsOfPlain
  <2>2. l.kind \in {"warning", "error", "note"} /\ l.row \in Numbers /\ l.col \in Numbers
    BY <1>3, LocatedFacts
  <2>3. AllDigits(parts[2]) /\ AllDigits(parts[3])
    BY <2>1, <2>2 DEF AllDigits, Words
  <2>4. CASE l.kind = "note"
    <3>1. ~\E s \in supported_serverity : parts[4] = <<s>>
      BY <2>1, <2>4 DEF supported_serverity
    <3> QED BY <1>0, <1>3, <2>4, <3>1 DEF IsHeader, Plain, Severities
  <2>5. CASE l.kind # "note"
    <3>1. HasCheckName(parts[5])
      BY <1>3, <2>1, <2>5, RestFacts DEF HasCheckName
    <3>2. \E s \in supported_serverity : parts[4] = <<s>>
      BY <2>1, <2>2, <2>5 DEF supported_serverity
    <3>3. IsHeader(Text(l))
      BY <2>1, <2>3, <3>1, <3>2 DEF IsHeader, EnoughParts
    <3>4. Plain(l)
      BY <1>3, <2>2, <2>5 DEF Plain, Severities
    <3> QED BY <3>3, <3>4
  <2> QED BY <2>4, <2>5
<1> QED BY <1>1, <1>2, <1>3 DEF OutputLine

LEMMA LineWords ==
  ASSUME NEW l \in OutputLine
  PROVE  Text(l) \in Seq(Word)
<1>1. CASE l \in LocatedLine
  BY <1>1, TextFacts
<1>2. CASE l \in CodeLine
  <2>1. Text(l) = l.words /\ l.words \in CodeTexts
    BY <1>2 DEF CodeLine, Text
  <2> QED BY <2>1, TidyOutputAssumption
<1> QED BY <1>1, <1>2 DEF OutputLine

\* What is read out of any line taken for a header has the type of a header.
LEMMA HeaderTyped ==
  ASSUME NEW line \in Seq(Word), IsHeader(line)
  PROVE  Header(line) \in HeaderType
<1> DEFINE parts == Split(line)
           last == parts[5]
           S == {i \in DOMAIN last : last[i] = "["}
           cut == Min(S)
<1>1. /\ Len(parts) = 5
      /\ AllDigits(parts[2]) /\ AllDigits(parts[3])
      /\ \E s \in supported_serverity : parts[4] = <<s>>
      /\ "[" \in Words(last)
  BY DEF IsHeader, EnoughParts, HasCheckName
<1>2. \A k \in 1 .. 5 : parts[k] \in Seq(Word)
  BY <1>1, PartsAreWords
<1>3. Header(line) =
        [file_name |-> parts[1], row_idx |-> parts[2], col_idx |-> parts[3],
         serverity |-> parts[4], brief |-> SubSeq(last, 1, cut - 1),
         diagnostic_type |-> SubSeq(last, cut, Len(last))]
  BY DEF Header, Fields, Bracket
<1> HIDE DEF parts
<1>4. ASSUME NEW part \in Seq(Word), AllDigits(part)
      PROVE  part \in Seq(Numbers)
  <2>1. DOMAIN part = 1 .. Len(part) /\ Len(part) \in Nat /\ part \in [1 .. Len(part) -> Word]
    BY LenProperties
  <2>2. \A i \in DOMAIN part : part[i] \in Numbers
    BY <1>4 DEF AllDigits, Words
  <2>3. part \in [1 .. Len(part) -> Numbers]
    BY <2>1, <2>2
  <2> QED BY <2>1, <2>3, SeqDef
<1>5. last \in Seq(Word) /\ DOMAIN last = 1 .. Len(last) /\ Len(last) \in Nat
  BY <1>2, LenProperties
<1>6. cut \in 1 .. Len(last)
  <2>1. S # {} /\ S \in SUBSET Nat
    BY <1>1, <1>5 DEF Words
  <2>2. S \subseteq 1 .. Len(last)
    BY <1>5
  <2> HIDE DEF S
  <2> QED BY <2>1, <2>2, Smallest
<1> HIDE DEF last, cut
<1>7. \A i \in 1 .. Len(last) : last[i] \in Word
  BY <1>5, ElementOfSeq
<1>8. SubSeq(last, 1, cut - 1) \in Seq(Word)
  <2>1. \A i \in 1 .. cut - 1 : last[i] \in Word
    BY <1>5, <1>6, <1>7
  <2>2. 1 \in Int /\ cut - 1 \in Int
    BY <1>5, <1>6
  <2> QED BY <2>1, <2>2, SubSeqProperties
<1>9. SubSeq(last, cut, Len(last)) \in Seq(Word)
  <2>1. \A i \in cut .. Len(last) : last[i] \in Word
    BY <1>5, <1>6, <1>7
  <2>2. cut \in Int /\ Len(last) \in Int
    BY <1>5, <1>6
  <2> QED BY <2>1, <2>2, SubSeqProperties
<1>10. parts[2] \in Seq(Numbers) /\ parts[3] \in Seq(Numbers) /\ parts[1] \in Seq(Word)
  BY <1>1, <1>2, <1>4
<1> QED BY <1>1, <1>3, <1>8, <1>9, <1>10 DEF HeaderType

\* What is read out of a plain header is what it says.
LEMMA HeaderSays ==
  ASSUME NEW l \in OutputLine, Plain(l)
  PROVE  Says(Header(Text(l)), l)
<1> DEFINE parts == Split(Text(l))
           rest == Rest(l)
           S == {i \in DOMAIN rest : rest[i] = "["}
           cut == Min(S)
           brief == SubSeq(rest, 1, cut - 1)
           type == SubSeq(rest, cut, Len(rest))
<1>1. l \in LocatedLine /\ l.kind \in Severities /\ ":" \notin Words(l.message)
  BY DEF OutputLine, CodeLine, Plain, Severities
<1>2. /\ parts[1] = <<l.path>> /\ parts[2] = <<l.row>> /\ parts[3] = <<l.col>>
      /\ parts[4] = <<l.kind>> /\ parts[5] = rest
  BY <1>1, PartsOfPlain
<1>3. rest \in Seq(Word) /\ DOMAIN rest = 1 .. Len(rest) /\ Len(rest) \in Nat
  BY <1>1, LocatedFacts, LenProperties
<1>4. "[" \in Words(rest)
  BY <1>1, RestFacts DEF Severities
<1>5. S # {} /\ S \in SUBSET Nat
  BY <1>3, <1>4 DEF Words
<1>6. cut \in S /\ \A i \in S : cut <= i
  BY <1>5, Smallest
<1>7. cut \in 1 .. Len(rest)
  BY <1>3, <1>6
<1>8. Header(Text(l)) =
        [file_name |-> <<l.path>>, row_idx |-> <<l.row>>, col_idx |-> <<l.col>>,
         serverity |-> <<l.kind>>, brief |-> brief, diagnostic_type |-> type]
  BY <1>2 DEF Header, Fields, Bracket
<1> HIDE DEF parts, rest, S, cut, brief, type
<1>9. /\ brief \in Seq(Word) /\ Len(brief) = cut - 1
      /\ \A i \in 1 .. cut - 1 : brief[i] = rest[i]
  <2>1. \A i \in 1 .. cut - 1 : rest[i] \in Word
    BY <1>3, <1>7, ElementOfSeq
  <2>2. 1 \in Int /\ cut - 1 \in Int
    BY <1>3, <1>7
  <2>3. /\ brief \in Seq(Word)
        /\ Len(brief) = IF 1 <= cut - 1 THEN cut - 1 - 1 + 1 ELSE 0
        /\ \A i \in 1 .. cut - 1 - 1 + 1 : brief[i] = rest[1 + i - 1]
    BY <2>1, <2>2, SubSeqProperties DEF brief
  <2> QED BY <1>3, <1>7, <2>3
<1>10. /\ type \in Seq(Word) /\ Len(type) = Len(rest) - cut + 1
       /\ \A i \in 1 .. Len(rest) - cut + 1 : type[i] = rest[cut + i - 1]
  <2>1. \A i \in cut .. Len(rest) : rest[i] \in Word
    BY <1>3, <1>7, ElementOfSeq
  <2>2. cut \in Int /\ Len(rest) \in Int /\ cut <= Len(rest)
    BY <1>3, <1>7
  <2> QED BY <2>1, <2>2, SubSeqProperties DEF type
<1>11. brief \o type = rest
  <2>1. /\ brief \o type \in Seq(Word) /\ Len(brief \o type) = Len(brief) + Len(type)
        /\ \A i \in 1 .. Len(brief) + Len(type) :
             (brief \o type)[i] = IF i <= Len(brief) THEN brief[i] ELSE type[i - Len(brief)]
    BY <1>9, <1>10, ConcatProperties
  <2>2. Len(brief) + Len(type) = Len(rest)
    BY <1>3, <1>7, <1>9, <1>10
  <2>3. ASSUME NEW i \in 1 .. Len(rest)
        PROVE  (brief \o type)[i] = rest[i]
    <3>1. CASE i <= cut - 1
      BY <1>3, <1>7, <1>9, <2>1, <2>2, <3>1
    <3>2. CASE ~(i <= cut - 1)
      <4>1. (brief \o type)[i] = type[i - (cut - 1)]
        BY <1>9, <2>1, <2>2, <3>2
      <4>2. i - (cut - 1) \in 1 .. Len(rest) - cut + 1 /\ cut + (i - (cut - 1)) - 1 = i
        BY <1>3, <1>7, <3>2
      <4>3. type[i - (cut - 1)] = rest[i]
        BY <1>10, <4>2
      <4> QED BY <4>1, <4>3
    <3> QED BY <3>1, <3>2
  <2> QED BY <1>3, <2>1, <2>2, <2>3, SeqEqual
<1>12. "[" \notin Words(brief)
  <2>1. ASSUME NEW i \in DOMAIN brief, brief[i] = "["
        PROVE  FALSE
    <3>1. i \in 1 .. cut - 1
      BY <1>3, <1>7, <1>9, LenProperties
    <3>2. i \in DOMAIN rest /\ rest[i] = "["
      BY <1>3, <1>7, <1>9, <2>1, <3>1
    <3>3. i \in S
      BY <3>2 DEF S
    <3> QED BY <1>3, <1>6, <1>7, <3>1, <3>3
  <2> QED BY <2>1 DEF Words
<1> QED BY <1>8, <1>11, <1>12 DEF Says, rest, Rest

-------------------------------------------------------------------------------
(* The lines taken for headers, counted.                                              *)

\* The lines taken for headers before line n.
Before(n) == Cardinality({j \in HeaderLines : j < n})

LEMMA PlainFacts ==
  ASSUME printed \in Seq(OutputLine)
  PROVE  /\ Len(printed) \in Nat /\ DOMAIN printed = 1 .. Len(printed)
         /\ HeaderLines \subseteq 1 .. Len(printed) /\ IsFiniteSet(HeaderLines)
         /\ \A i \in 1 .. Len(printed) : printed[i] \in OutputLine
<1>1. Len(printed) \in Nat /\ DOMAIN printed = 1 .. Len(printed)
  BY LenProperties
<1>2. HeaderLines \subseteq 1 .. Len(printed)
  BY <1>1 DEF HeaderLines
<1>3. IsFiniteSet(1 .. Len(printed))
  BY <1>1, FS_Interval
<1>4. IsFiniteSet(HeaderLines)
  BY <1>2, <1>3, FS_Subset
<1>5. \A i \in 1 .. Len(printed) : printed[i] \in OutputLine
  BY ElementOfSeq
<1> QED BY <1>1, <1>2, <1>4, <1>5

LEMMA BeforeType ==
  ASSUME printed \in Seq(OutputLine), NEW n
  PROVE  IsFiniteSet({j \in HeaderLines : j < n}) /\ Before(n) \in Nat
<1>1. {j \in HeaderLines : j < n} \in SUBSET HeaderLines
  OBVIOUS
<1>2. IsFiniteSet({j \in HeaderLines : j < n})
  BY <1>1, PlainFacts, FS_Subset
<1> QED BY <1>2, FS_CardinalityType DEF Before

\* A line taken for a header is one place after those before it.
LEMMA PlaceOfPlain ==
  ASSUME printed \in Seq(OutputLine), NEW i \in HeaderLines
  PROVE  Place(i) = Before(i) + 1 /\ Place(i) = Before(i + 1)
<1> DEFINE S == {j \in HeaderLines : j < i}
<1>1. i \in Nat /\ HeaderLines \subseteq Nat
  BY PlainFacts
<1>2. {j \in HeaderLines : j <= i} = S \cup {i} /\ i \notin S
  <2>1. \A j \in HeaderLines : j <= i <=> j < i \/ j = i
    BY <1>1
  <2>2. ~(i < i)
    BY <1>1
  <2> QED BY <2>1, <2>2
<1>3. {j \in HeaderLines : j <= i} = {j \in HeaderLines : j < i + 1}
  <2>1. \A j \in HeaderLines : j <= i <=> j < i + 1
    BY <1>1
  <2> QED BY <2>1
<1>4. IsFiniteSet(S)
  BY BeforeType
<1>5. Before(i) = Cardinality(S)
  BY DEF Before
<1>6. Place(i) = Before(i + 1)
  BY <1>3 DEF Place, Before
<1> HIDE DEF S
<1>7. Cardinality(S \cup {i}) = Cardinality(S) + 1
  BY <1>2, <1>4, FS_AddElement
<1> QED BY <1>2, <1>5, <1>6, <1>7 DEF Place

\* More lines hold no fewer headers.
LEMMA BeforeGrows ==
  ASSUME printed \in Seq(OutputLine), NEW m \in Nat, NEW n \in Nat, m <= n
  PROVE  Before(m) <= Before(n)
<1>1. HeaderLines \subseteq Nat
  BY PlainFacts
<1>2. {j \in HeaderLines : j < m} \in SUBSET {j \in HeaderLines : j < n}
  <2>1. \A j \in HeaderLines : j < m => j < n
    BY <1>1
  <2> QED BY <2>1
<1> QED BY <1>2, BeforeType, FS_Subset DEF Before

\* Its place is among those of the headers before a later line.
LEMMA PlaceBefore ==
  ASSUME printed \in Seq(OutputLine), NEW i \in HeaderLines, NEW n \in Nat, i < n
  PROVE  Place(i) \in 1 .. Before(n)
<1>1. i \in Nat /\ i + 1 <= n
  BY PlainFacts
<1>2. Before(i) \in Nat /\ Before(n) \in Nat
  BY BeforeType
<1>3. Before(i + 1) <= Before(n)
  BY <1>1, BeforeGrows
<1> QED BY <1>2, <1>3, PlaceOfPlain

\* It is the last place when no other comes in between.
LEMMA LastPlace ==
  ASSUME printed \in Seq(OutputLine), NEW i \in HeaderLines, NEW n \in Nat, i < n,
         \A k \in HeaderLines : ~(i < k /\ k < n)
  PROVE  Place(i) = Before(n)
<1>1. i \in Nat /\ HeaderLines \subseteq Nat
  BY PlainFacts
<1>2. {j \in HeaderLines : j <= i} = {j \in HeaderLines : j < n}
  <2>1. \A j \in HeaderLines : j <= i <=> j < n
    BY <1>1
  <2> QED BY <2>1
<1> QED BY <1>2 DEF Place, Before

LEMMA OneLineMore ==
  ASSUME printed \in Seq(OutputLine), NEW n \in Nat
  PROVE  /\ n \in HeaderLines => Before(n + 1) = Before(n) + 1
         /\ n \notin HeaderLines => Before(n + 1) = Before(n)
<1>1. ASSUME n \in HeaderLines
      PROVE  Before(n + 1) = Before(n) + 1
  BY <1>1, PlaceOfPlain
<1>2. ASSUME n \notin HeaderLines
      PROVE  Before(n + 1) = Before(n)
  <2>1. HeaderLines \subseteq Nat
    BY PlainFacts
  <2>2. \A j \in HeaderLines : j < n + 1 <=> j < n
    BY <1>2, <2>1
  <2>3. {j \in HeaderLines : j < n + 1} = {j \in HeaderLines : j < n}
    BY <2>2
  <2> QED BY <2>3 DEF Before
<1> QED BY <1>1, <1>2

-------------------------------------------------------------------------------
(* The invariant.                                                           *)

\* A diagnostic was found for every line taken for a header among those read.
AllFound == Len(diags) = Before(next)

Needed == needs_details <=> Len(diags) > 0

HeadersSay ==
  \A i \in HeaderLines :
    i < next /\ Plain(printed[i]) => Says(diags[Place(i)].header, printed[i])

\* The lines up to end belong to the header of line i: end is the next header or
\* the line in hand.
Owns(i, end) ==
  /\ i < end /\ (end = next \/ (end \in HeaderLines /\ end < next))
  /\ \A k \in HeaderLines : ~(i < k /\ k < end)

DetailsKept ==
  \A i \in HeaderLines, end \in 1 .. next :
    Owns(i, end) => diags[Place(i)].details = TextBetween(i, end)

IInv == TypeOK /\ AllFound /\ Needed /\ HeadersSay /\ DetailsKept

DiagType == [header : HeaderType, details : Seq(Seq(Word))]

LEMMA TypeFacts ==
  ASSUME TypeOK
  PROVE  /\ printed \in Seq(OutputLine) /\ Len(printed) \in Nat /\ next \in Nat
         /\ diags \in Seq(DiagType) /\ Len(diags) \in Nat /\ DOMAIN diags = 1 .. Len(diags)
         /\ \A i \in 1 .. Len(diags) : diags[i] \in DiagType
         /\ HeaderLines \subseteq Nat
<1>1. printed \in Seq(OutputLine) /\ diags \in Seq(DiagType)
  BY DEF TypeOK, DiagType
<1>2. Len(printed) \in Nat
  BY <1>1, LenProperties
<1>3. Len(diags) \in Nat /\ DOMAIN diags = 1 .. Len(diags)
  BY <1>1, LenProperties
<1>4. \A i \in 1 .. Len(diags) : diags[i] \in DiagType
  BY <1>1, ElementOfSeq
<1> QED BY <1>1, <1>2, <1>3, <1>4, PlainFacts DEF TypeOK

LEMMA LineFacts ==
  ASSUME TypeOK, ~Done
  PROVE  /\ next \in 1 .. Len(printed) /\ printed[next] \in OutputLine
         /\ IsHeader(Line) <=> next \in HeaderLines
         /\ Line \in Seq(Word)
<1>1. next \in 1 .. Len(printed)
  BY TypeFacts DEF TypeOK, Done
<1>2. printed[next] \in OutputLine /\ next \in DOMAIN printed
  BY <1>1, TypeFacts, PlainFacts
<1>3. IsHeader(Line) <=> next \in HeaderLines
  BY <1>2, HeaderIffTaken DEF Line, HeaderLines
<1>4. Line \in Seq(Word)
  BY <1>2, LineWords DEF Line
<1> QED BY <1>1, <1>2, <1>3, <1>4

\* A sequence made longer by the line in hand.
LEMMA TextGrows ==
  ASSUME NEW i \in Nat, NEW n \in Nat, i < n
  PROVE  /\ TextBetween(i, i + 1) = <<>>
         /\ Append(TextBetween(i, n), Text(printed[n])) = TextBetween(i, n + 1)
<1> DEFINE S == {Text(printed[i + k]) : k \in Nat}
           s == TextBetween(i, n)
           t == TextBetween(i, n + 1)
           m == n - 1 - i
<1>1. TextBetween(i, i + 1) = <<>>
  <2>1. i + 1 - 1 - i = 0
    OBVIOUS
  <2> QED BY <2>1 DEF TextBetween
<1>2. m \in Nat /\ n + 1 - 1 - i = m + 1 /\ i + (m + 1) = n
  OBVIOUS
<1>3. s = [k \in 1 .. m |-> Text(printed[i + k])] /\ t = [k \in 1 .. m + 1 |-> Text(printed[i + k])]
  BY <1>2 DEF TextBetween
<1> HIDE DEF m, s, t
<1>4. s \in [1 .. m -> S] /\ t \in [1 .. m + 1 -> S]
  BY <1>2, <1>3
<1>5. Text(printed[n]) \in S /\ t[m + 1] = Text(printed[n])
  BY <1>2, <1>3
<1>6. \A k \in 1 .. m : s[k] = t[k]
  BY <1>2, <1>3
<1> HIDE DEF S
<1>7. s \in Seq(S) /\ t \in Seq(S)
  BY <1>2, <1>4, SeqDef
<1>8. Len(s) = m /\ Len(t) = m + 1
  BY <1>2, <1>4, <1>7, LenProperties
<1>9. /\ Append(s, Text(printed[n])) \in Seq(S)
      /\ Len(Append(s, Text(printed[n]))) = m + 1
      /\ \A k \in 1 .. m : Append(s, Text(printed[n]))[k] = s[k]
      /\ Append(s, Text(printed[n]))[m + 1] = Text(printed[n])
  BY <1>2, <1>5, <1>7, <1>8
<1>10. \A k \in 1 .. m + 1 : Append(s, Text(printed[n]))[k] = t[k]
  BY <1>2, <1>5, <1>6, <1>9
<1>11. Append(s, Text(printed[n])) = t
  BY <1>7, <1>8, <1>9, <1>10, SeqEqual
<1> QED BY <1>1, <1>11 DEF s, t

LEMMA InitIInv == Init => IInv
<1> SUFFICES ASSUME Init
             PROVE  IInv
  OBVIOUS
<1>1. /\ printed \in Seq(OutputLine) /\ next = 1 /\ diags = <<>> /\ needs_details = FALSE
  BY TidyOutputAssumption DEF Init
<1>2. Len(printed) \in Nat /\ HeaderLines \subseteq 1 .. Len(printed)
  BY <1>1, PlainFacts
<1>3. diags \in Seq(DiagType) /\ Len(diags) = 0
  BY <1>1, EmptySeq
<1>4. TypeOK
  <2>1. next \in 1 .. Len(printed) + 1
    BY <1>1, <1>2
  <2>2. needs_details \in BOOLEAN
    BY <1>1
  <2> QED BY <1>1, <1>3, <2>1, <2>2 DEF TypeOK, DiagType
<1>5. \A i \in HeaderLines : ~(i < 1)
  BY <1>2
<1>6. Before(1) = 0
  <2>1. {j \in HeaderLines : j < 1} = {}
    BY <1>5
  <2> QED BY <2>1, FS_EmptySet DEF Before
<1>7. AllFound /\ Needed /\ HeadersSay
  BY <1>1, <1>3, <1>5, <1>6 DEF AllFound, Needed, HeadersSay
<1>8. DetailsKept
  <2>1. \A i \in HeaderLines, end \in 1 .. 1 : ~(i < end)
    BY <1>5
  <2> QED BY <1>1, <2>1 DEF DetailsKept, Owns
<1> QED BY <1>4, <1>7, <1>8 DEF IInv

\* What is said of the printed lines stays true.
LEMMA SamePrinted ==
  ASSUME printed' = printed, NEW i, NEW j
  PROVE  /\ HeaderLines' = HeaderLines
         /\ Place(i)' = Place(i) /\ Before(i)' = Before(i)
         /\ TextBetween(i, j)' = TextBetween(i, j)
<1>1. HeaderLines' = HeaderLines
  BY DEF HeaderLines
<1> QED BY <1>1 DEF Place, Before, TextBetween

\* A header that is taken up is given a diagnostic of its own.
LEMMA ParseHeaderLineStep == IInv /\ ParseHeaderLine => IInv'
<1> SUFFICES ASSUME IInv, ParseHeaderLine
             PROVE  IInv'
  OBVIOUS
<1> DEFINE new == [header |-> Header(Line), details |-> <<>>]
<1>1. /\ TypeOK /\ ~Done /\ IsHeader(Line)
      /\ diags' = Append(diags, new) /\ needs_details' = TRUE
      /\ next' = next + 1 /\ printed' = printed
  BY DEF IInv, ParseHeaderLine
<1>2. /\ printed \in Seq(OutputLine) /\ next \in Nat /\ next \in 1 .. Len(printed)
      /\ Len(printed) \in Nat /\ Len(diags) \in Nat /\ diags \in Seq(DiagType)
      /\ DOMAIN diags = 1 .. Len(diags) /\ HeaderLines \subseteq Nat
      /\ next \in HeaderLines /\ printed[next] \in OutputLine
  BY <1>1, TypeFacts, LineFacts
<1>3. /\ Header(Line) \in HeaderType
      /\ Plain(printed[next]) => Says(Header(Line), printed[next])
  <2>1. Header(Line) \in HeaderType
    BY <1>1, LineFacts, HeaderTyped
  <2>2. Plain(printed[next]) => Says(Header(Line), printed[next])
    BY <1>2, HeaderSays DEF Line
  <2> QED BY <2>1, <2>2
<1>4. new \in DiagType /\ new.header = Header(Line) /\ new.details = <<>>
  BY <1>3, EmptySeq DEF DiagType
<1> HIDE DEF new
<1>5. /\ diags' \in Seq(DiagType) /\ Len(diags') = Len(diags) + 1
      /\ \A i \in 1 .. Len(diags) : diags'[i] = diags[i]
      /\ diags'[Len(diags) + 1] = new
  BY <1>1, <1>2, <1>4
<1>6. TypeOK'
  BY <1>1, <1>2, <1>5 DEF TypeOK, DiagType
<1>7. Len(diags) = Before(next) /\ Place(next) = Before(next) + 1
  BY <1>2, PlaceOfPlain DEF IInv, AllFound
<1>8. AllFound'
  <2>1. Len(diags') = Before(next + 1)
    BY <1>2, <1>5, <1>7, OneLineMore
  <2> QED BY <1>1, <2>1 DEF AllFound, Before, HeaderLines
<1>9. Needed'
  BY <1>1, <1>2, <1>5 DEF Needed
<1>10. \A i \in HeaderLines :
         /\ i < next => diags'[Place(i)] = diags[Place(i)]
         /\ i = next => diags'[Place(i)] = new
  <2>1. ASSUME NEW i \in HeaderLines, i < next
        PROVE  diags'[Place(i)] = diags[Place(i)]
    <3>1. Place(i) \in 1 .. Len(diags)
      BY <1>2, <1>7, <2>1, PlaceBefore
    <3> QED BY <1>5, <3>1
  <2> QED BY <1>5, <1>7, <2>1
<1>11. HeadersSay'
  <2>1. ASSUME NEW i \in HeaderLines, i < next + 1, Plain(printed[i])
        PROVE  Says(diags'[Place(i)].header, printed[i])
    <3>1. CASE i < next
      <4>1. Says(diags[Place(i)].header, printed[i])
        BY <2>1, <3>1 DEF IInv, HeadersSay
      <4> QED BY <1>10, <3>1, <4>1
    <3>2. CASE i = next
      BY <1>3, <1>4, <1>10, <2>1, <3>2
    <3> QED BY <1>2, <2>1, <3>1, <3>2
  <2> QED BY <1>1, <2>1, SamePrinted DEF HeadersSay, Says, Plain
<1>12. DetailsKept'
  <2>1. ASSUME NEW i \in HeaderLines, NEW end \in 1 .. next + 1, i < end,
               end = next + 1 \/ (end \in HeaderLines /\ end < next + 1),
               \A k \in HeaderLines : ~(i < k /\ k < end)
        PROVE  diags'[Place(i)].details = TextBetween(i, end)
    <3>1. CASE i < next
      <4>1. end <= next
        BY <1>2, <2>1, <3>1
      <4>2. end \in 1 .. next /\ (end = next \/ end < next)
        BY <1>2, <2>1, <4>1
      <4>3. diags[Place(i)].details = TextBetween(i, end)
        BY <1>2, <2>1, <4>2 DEF IInv, DetailsKept, Owns
      <4> QED BY <1>10, <3>1, <4>3
    <3>2. CASE i = next
      <4>1. end = next + 1
        BY <1>2, <2>1, <3>2
      <4>2. TextBetween(next, next + 1) = <<>>
        BY <1>2, TextGrows
      <4> QED BY <1>4, <1>10, <3>2, <4>1, <4>2
    <3>3. i <= next
      BY <1>2, <2>1
    <3> QED BY <1>2, <3>1, <3>2, <3>3
  <2>2. \A i \in HeaderLines, end \in 1 .. next' :
          Owns(i, end)' => diags'[Place(i)].details = TextBetween(i, end)
    BY <1>1, <2>1, SamePrinted DEF Owns
  <2> QED BY <1>1, <2>2, SamePrinted DEF DetailsKept
<1> QED BY <1>6, <1>8, <1>9, <1>11, <1>12 DEF IInv

\* A line that is no header is added to the diagnostic found last.
LEMMA ParseDetailsStep == IInv /\ ParseDetails => IInv'
<1> SUFFICES ASSUME IInv, ParseDetails
             PROVE  IInv'
  OBVIOUS
<1> DEFINE last == Len(diags)
           details == Append(diags[last].details, Line)
           new == [diags[last] EXCEPT !.details = details]
<1>1. /\ TypeOK /\ ~Done /\ ~IsHeader(Line) /\ needs_details
      /\ diags' = [diags EXCEPT ![last] = new]
      /\ next' = next + 1 /\ printed' = printed /\ needs_details' = needs_details
  BY DEF IInv, ParseDetails, WithDetails
<1>2. /\ printed \in Seq(OutputLine) /\ next \in Nat /\ next \in 1 .. Len(printed)
      /\ Len(printed) \in Nat /\ last \in Nat /\ diags \in Seq(DiagType)
      /\ DOMAIN diags = 1 .. last /\ HeaderLines \subseteq Nat
      /\ next \notin HeaderLines /\ Line \in Seq(Word)
  BY <1>1, TypeFacts, LineFacts
<1>3. last \in 1 .. last /\ diags[last] \in DiagType
  <2>1. last > 0
    BY <1>1 DEF IInv, Needed
  <2> QED BY <1>1, <1>2, <2>1, TypeFacts
<1>4. new \in DiagType /\ new.header = diags[last].header /\ new.details = details
  <2>1. diags[last].header \in HeaderType /\ diags[last].details \in Seq(Seq(Word))
    BY <1>3 DEF DiagType
  <2>2. details \in Seq(Seq(Word))
    BY <1>2, <2>1
  <2> QED BY <1>3, <2>2 DEF DiagType
<1> HIDE DEF new
<1>5. /\ diags' \in Seq(DiagType) /\ Len(diags') = last
      /\ \A i \in 1 .. last : diags'[i] = IF i = last THEN new ELSE diags[i]
  BY <1>1, <1>2, <1>3, <1>4, ExceptSeq
<1>6. TypeOK'
  <2>1. next' \in 1 .. Len(printed) + 1
    BY <1>1, <1>2
  <2> QED BY <1>1, <1>2, <1>5, <2>1 DEF TypeOK, DiagType
<1>7. last = Before(next) /\ Before(next + 1) = Before(next)
  BY <1>2, OneLineMore DEF IInv, AllFound
<1>8. AllFound'
  BY <1>1, <1>5, <1>7, SamePrinted DEF AllFound, Before, HeaderLines
<1>9. Needed'
  BY <1>1, <1>5 DEF IInv, Needed
<1>10. ASSUME NEW i \in HeaderLines, i < next
       PROVE  /\ Place(i) \in 1 .. last
              /\ diags'[Place(i)] = IF Place(i) = last THEN new ELSE diags[Place(i)]
  <2>1. Place(i) \in 1 .. last
    BY <1>2, <1>7, <1>10, PlaceBefore
  <2> QED BY <1>5, <2>1
<1>11. HeadersSay'
  <2>1. ASSUME NEW i \in HeaderLines, i < next + 1, Plain(printed[i])
        PROVE  Says(diags'[Place(i)].header, printed[i])
    <3>1. i < next
      <4>1. i \in Nat /\ i # next
        BY <1>2
      <4> QED BY <1>2, <2>1, <4>1
    <3>2. Says(diags[Place(i)].header, printed[i])
      BY <2>1, <3>1 DEF IInv, HeadersSay
    <3>3. diags'[Place(i)].header = diags[Place(i)].header
      BY <1>4, <1>10, <3>1
    <3> QED BY <3>2, <3>3
  <2> QED BY <1>1, <2>1, SamePrinted DEF HeadersSay, Says, Plain
<1>12. DetailsKept'
  <2>1. ASSUME NEW i \in HeaderLines, NEW end \in 1 .. next + 1, i < end,
               end = next + 1 \/ (end \in HeaderLines /\ end < next + 1),
               \A k \in HeaderLines : ~(i < k /\ k < end)
        PROVE  diags'[Place(i)].details = TextBetween(i, end)
    <3>1. i \in Nat /\ i # next /\ end \in Nat /\ i < next
      <4>1. i \in Nat /\ i # next /\ end \in Nat /\ end <= next + 1
        BY <1>2
      <4> QED BY <1>2, <2>1, <4>1
    <3>2. CASE end = next + 1
      <4>1. \A k \in HeaderLines : ~(i < k /\ k < next)
        BY <1>2, <2>1, <3>2
      <4>2. Place(i) = last
        BY <1>2, <1>7, <3>1, <4>1, LastPlace
      <4>3. Owns(i, next)
        BY <3>1, <4>1 DEF Owns
      <4>4. next \in 1 .. next
        BY <1>2
      <4>5. diags[last].details = TextBetween(i, next)
        BY <4>2, <4>3, <4>4 DEF IInv, DetailsKept
      <4>6. diags'[Place(i)].details = Append(TextBetween(i, next), Text(printed[next]))
        BY <1>4, <1>10, <3>1, <4>2, <4>5 DEF Line
      <4> QED BY <1>2, <3>1, <3>2, <4>6, TextGrows
    <3>3. CASE end \in HeaderLines /\ end < next + 1
      <4>1. end < next
        <5>1. end # next
          BY <1>2, <3>3
        <5> QED BY <1>2, <3>1, <3>3, <5>1
      <4>2. Owns(i, end) /\ end \in 1 .. next
        BY <1>2, <2>1, <3>1, <3>3, <4>1 DEF Owns
      <4>3. diags[Place(i)].details = TextBetween(i, end)
        BY <4>2 DEF IInv, DetailsKept
      <4>4. Place(i) # last
        <5>1. Place(i) \in 1 .. Before(end) /\ Before(end) \in Nat
          BY <1>2, <2>1, <3>1, PlaceBefore, BeforeType
        <5>2. Place(end) \in 1 .. last /\ Place(end) = Before(end) + 1
          BY <1>2, <1>7, <3>3, <4>1, PlaceBefore, PlaceOfPlain
        <5> QED BY <1>2, <5>1, <5>2
      <4> QED BY <1>10, <3>1, <4>3, <4>4
    <3> QED BY <2>1, <3>2, <3>3
  <2>2. \A i \in HeaderLines, end \in 1 .. next' :
          Owns(i, end)' => diags'[Place(i)].details = TextBetween(i, end)
    BY <1>1, <2>1, SamePrinted DEF Owns
  <2> QED BY <1>1, <2>2, SamePrinted DEF DetailsKept
<1> QED BY <1>6, <1>8, <1>9, <1>11, <1>12 DEF IInv

\* A line before the first header is dropped: no diagnostic owns it.
LEMMA SkipLineStep == IInv /\ SkipLine => IInv'
<1> SUFFICES ASSUME IInv, SkipLine
             PROVE  IInv'
  OBVIOUS
<1>1. /\ TypeOK /\ ~Done /\ ~IsHeader(Line) /\ ~needs_details
      /\ next' = next + 1 /\ printed' = printed
      /\ diags' = diags /\ needs_details' = needs_details
  BY DEF IInv, SkipLine
<1>2. /\ printed \in Seq(OutputLine) /\ next \in Nat /\ next \in 1 .. Len(printed)
      /\ Len(printed) \in Nat /\ Len(diags) \in Nat /\ HeaderLines \subseteq Nat
      /\ next \notin HeaderLines
  BY <1>1, TypeFacts, LineFacts
<1>3. TypeOK'
  <2>1. next' \in 1 .. Len(printed) + 1
    BY <1>1, <1>2
  <2> QED BY <1>1, <2>1 DEF TypeOK
<1>4. /\ Before(next) = 0 /\ Before(next + 1) = Before(next) /\ Len(diags) = 0
  <2>1. Len(diags) = 0
    BY <1>1, <1>2 DEF IInv, Needed
  <2> QED BY <1>2, <2>1, OneLineMore DEF IInv, AllFound
<1>5. AllFound'
  BY <1>1, <1>4, SamePrinted DEF AllFound, Before, HeaderLines
<1>6. Needed'
  BY <1>1 DEF IInv, Needed
<1>7. \A i \in HeaderLines : ~(i < next + 1)
  <2>1. ASSUME NEW i \in HeaderLines, i < next + 1
        PROVE  FALSE
    <3>1. next + 1 \in Nat
      BY <1>2
    <3>2. Place(i) \in 1 .. Before(next + 1)
      BY <1>2, <2>1, <3>1, PlaceBefore
    <3> QED BY <1>4, <3>2
  <2> QED BY <2>1
<1>8. HeadersSay'
  BY <1>1, <1>7, SamePrinted DEF HeadersSay
<1>9. DetailsKept'
  <2>1. \A i \in HeaderLines, end \in 1 .. next + 1 : ~(i < end)
    BY <1>2, <1>7
  <2>2. \A i \in HeaderLines, end \in 1 .. next' : ~Owns(i, end)'
    BY <1>1, <2>1 DEF Owns
  <2> QED BY <1>1, <2>2, SamePrinted DEF DetailsKept
<1> QED BY <1>3, <1>5, <1>6, <1>8, <1>9 DEF IInv

\* The invariant holds whatever clang-tidy prints.
THEOREM Invariance == Spec => []IInv
<1>1. IInv /\ [Next]_vars => IInv'
  <2> SUFFICES ASSUME IInv, [Next]_vars
               PROVE  IInv'
    OBVIOUS
  <2>1. CASE UNCHANGED vars
    <3>1. printed' = printed /\ next' = next /\ diags' = diags /\ needs_details' = needs_details
      BY <2>1 DEF vars
    <3>2. TypeOK' /\ Needed'
      BY <3>1 DEF IInv, TypeOK, Needed
    <3>3. AllFound'
      BY <3>1 DEF IInv, AllFound, Before, HeaderLines
    <3>4. HeadersSay'
      BY <3>1, SamePrinted DEF IInv, HeadersSay, Says, Plain
    <3>5. DetailsKept'
      <4>1. HeaderLines' = HeaderLines /\ \A i, end : Owns(i, end)' <=> Owns(i, end)
        BY <3>1, SamePrinted DEF Owns
      <4> QED BY <3>1, <4>1, SamePrinted DEF IInv, DetailsKept
    <3> QED BY <3>2, <3>3, <3>4, <3>5 DEF IInv
  <2> QED BY <2>1, ParseHeaderLineStep, ParseDetailsStep, SkipLineStep DEF Next
<1> QED BY <1>1, InitIInv, PTL DEF Spec

\* The state has the types that TypeOK says.
THEOREM TypeCorrect == Spec => []TypeOK
<1>1. IInv => TypeOK
  BY DEF IInv
<1> QED BY <1>1, Invariance, PTL

LEMMA DoneFacts ==
  ASSUME TypeOK, Done
  PROVE  /\ Before(next) = Cardinality(HeaderLines)
         /\ \A i \in HeaderLines : i < next
<1>1. /\ printed \in Seq(OutputLine) /\ next = Len(printed) + 1 /\ Len(printed) \in Nat
      /\ HeaderLines \subseteq 1 .. Len(printed)
  BY TypeFacts, PlainFacts DEF Done
<1>2. \A i \in HeaderLines : i < next
  BY <1>1
<1>3. {j \in HeaderLines : j < next} = HeaderLines
  BY <1>2
<1> QED BY <1>2, <1>3 DEF Before

\* The diagnostics found are the plain ones, in their order, as they were printed.
THEOREM PlainDiagnosticsReadAlways == Spec => []PlainDiagnosticsRead
<1>1. IInv => PlainDiagnosticsRead
  <2> SUFFICES ASSUME IInv, Done
               PROVE  /\ Len(diags) = Cardinality(HeaderLines)
                      /\ \A i \in HeaderLines :
                           Plain(printed[i]) => Says(diags[Place(i)].header, printed[i])
    BY DEF PlainDiagnosticsRead
  <2>1. TypeOK
    BY DEF IInv
  <2> QED BY <2>1, DoneFacts DEF IInv, AllFound, HeadersSay
<1> QED BY <1>1, Invariance, PTL

\* Every line after a plain header and before the next is in its details, in order.
THEOREM DetailsCompleteAlways == Spec => []DetailsComplete
<1>1. ASSUME IInv, Done, NEW i \in HeaderLines
      PROVE  diags[Place(i)].details
               = TextBetween(i, Min({k \in HeaderLines : k > i} \cup {next}))
  <2> DEFINE S == {k \in HeaderLines : k > i} \cup {next}
             end == Min(S)
  <2>1. TypeOK /\ HeaderLines \subseteq Nat /\ next \in Nat
    BY <1>1, TypeFacts DEF IInv
  <2>2. \A k \in HeaderLines : k < next
    BY <1>1, <2>1, DoneFacts
  <2>3. S \in SUBSET Nat /\ S # {}
    BY <2>1
  <2>4. end \in S /\ \A k \in S : end <= k
    BY <2>3, Smallest
  <2>5. i \in Nat /\ i < next /\ end \in Nat /\ i < end
    BY <2>1, <2>2, <2>3, <2>4
  <2>6. end = next \/ (end \in HeaderLines /\ end < next)
    BY <2>2, <2>4
  <2>7. next \in S
    OBVIOUS
  <2>8. end \in 1 .. next
    BY <2>1, <2>4, <2>5, <2>7
  <2>9. \A k \in HeaderLines : ~(i < k /\ k < end)
    <3>1. ASSUME NEW k \in HeaderLines, i < k, k < end
          PROVE  FALSE
      <4>1. k \in S /\ k \in Nat
        BY <2>1, <2>5, <3>1
      <4> QED BY <2>4, <2>5, <3>1, <4>1
    <3> QED BY <3>1
  <2> HIDE DEF S, end
  <2>10. Owns(i, end)
    BY <2>5, <2>6, <2>9 DEF Owns
  <2>11. diags[Place(i)].details = TextBetween(i, end)
    BY <1>1, <2>8, <2>10 DEF IInv, DetailsKept
  <2> QED BY <2>11 DEF end, S
<1>2. IInv => DetailsComplete
  BY <1>1 DEF DetailsComplete
<1> QED BY <1>2, Invariance, PTL
===============================================================================
