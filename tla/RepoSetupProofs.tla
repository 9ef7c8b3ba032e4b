--------------------------- MODULE RepoSetupProofs ---------------------------
(* Proofs about RepoSetup, for every value of its constants.                 *)
EXTENDS RepoSetup, TLAPS, FiniteSetTheorems, SequenceTheorems,
        WellFoundedInduction
-----------------------------------------------------------------------------
(* The blocks of the .gitignore files.                                       *)

\* A set of positions has a least and a greatest one.
LEMMA Bounds ==
  ASSUME NEW n \in Nat, NEW I \in SUBSET (1 .. n), I # {}
  PROVE  /\ \E x \in I : \A y \in I : x <= y
         /\ \E x \in I : \A y \in I : x >= y
<1>1. ASSUME NEW T \in SUBSET Nat, T # {}
      PROVE  \E x \in T : \A y \in T : x <= y
  <2>1. PICK x \in T : \A y \in T : ~ (<<y, x>> \in OpToRel(<, Nat))
    BY <1>1, WFMin, NatLessThanWellFounded
  <2>2. \A y \in T : ~ (y < x)
    BY <2>1 DEF OpToRel
  <2>3. QED
    BY <2>2
<1>2. \E x \in I : \A y \in I : x <= y
  <2>1. I \in SUBSET Nat
    OBVIOUS
  <2>2. QED
    BY <1>1, <2>1
<1>3. \E x \in I : \A y \in I : x >= y
  <2> DEFINE T == {n - y : y \in I}
  <2>1. \A y \in I : y \in 1 .. n /\ n - y \in Nat
    OBVIOUS
  <2>2. T \in SUBSET Nat /\ T # {}
    BY <2>1
  <2>3. PICK z \in T : \A t \in T : z <= t
    BY <1>1, <2>2
  <2>4. PICK x \in I : z = n - x
    BY <2>3
  <2>5. \A y \in I : n - x <= n - y
    BY <2>3, <2>4
  <2>6. QED
    BY <2>1, <2>4, <2>5
<1>4. QED
  BY <1>2, <1>3

NoMark(s) == \A i \in 1 .. Len(s) : s[i] # "mark"

\* The kinds of lines of a .gitignore file.
LEMMA LinesAre == Lines = {"mark", "ours", "blank", "own"}
BY DEF Lines, Own

\* The mark is at the first position that holds it.
LEMMA MarkIs ==
  ASSUME NEW s \in Seq(Lines)
  PROVE  /\ Mark(s) \in 0 .. Len(s)
         /\ Mark(s) > 0 => s[Mark(s)] = "mark"
         /\ Mark(s) = 0 <=> NoMark(s)
<1> DEFINE I == {i \in 1 .. Len(s) : s[i] = "mark"}
<1>1. Mark(s) = IF I # {} THEN Min(I) ELSE 0
  BY DEF Mark, SelectInSeq
<1>2. Len(s) \in Nat
  BY LenProperties
<1>3. CASE I = {}
  BY <1>1, <1>2, <1>3 DEF NoMark
<1>4. CASE I # {}
  <2>1. Min(I) \in I
    BY <1>2, <1>4, Bounds DEF Min
  <2>2. Mark(s) \in I
    BY <1>1, <1>4, <2>1
  <2>3. QED
    BY <1>2, <2>2 DEF NoMark
<1>5. QED
  BY <1>3, <1>4

\* Trimming cuts a sequence off at a position.
LEMMA TrimmedIs ==
  ASSUME NEW s \in Seq(Lines)
  PROVE  /\ \E k \in 0 .. Len(s) : TrimRight(s) = SubSeq(s, 1, k)
         /\ \E k \in 1 .. Len(s) + 1 : TrimLeft(s) = SubSeq(s, k, Len(s))
<1> DEFINE I == {i \in 1 .. Len(s) : s[i] # "blank"}
           first == IF I # {} THEN Min(I) ELSE 0
           last == IF I # {} THEN Max(I) ELSE 0
<1>1. Len(s) \in Nat
  BY LenProperties
<1>2. TrimRight(s) = SubSeq(s, 1, last)
  BY DEF TrimRight, SelectLastInSeq
<1>3. TrimLeft(s) = SubSeq(s, IF first = 0 THEN Len(s) + 1 ELSE first, Len(s))
  BY DEF TrimLeft, SelectInSeq
<1>4. CASE I = {}
  BY <1>1, <1>2, <1>3, <1>4
<1>5. CASE I # {}
  <2>1. Min(I) \in I /\ Max(I) \in I
    BY <1>1, <1>5, Bounds DEF Min, Max
  <2>2. first \in 1 .. Len(s) /\ last \in 1 .. Len(s)
    BY <1>5, <2>1
  <2> HIDE DEF first, last
  <2>3. first # 0 /\ first \in 1 .. Len(s) + 1 /\ last \in 0 .. Len(s)
    BY <1>1, <2>2
  <2>4. QED
    BY <1>2, <1>3, <2>3
<1>6. QED
  BY <1>4, <1>5

\* A part of a sequence without a mark.
LEMMA Part ==
  ASSUME NEW s \in Seq(Lines), NEW a \in Nat \ {0}, NEW b \in 0 .. Len(s),
         \A i \in a .. b : s[i] # "mark"
  PROVE  SubSeq(s, a, b) \in Seq(Lines) /\ NoMark(SubSeq(s, a, b))
<1>1. Len(s) \in Nat /\ b \in Nat /\ \A i \in a .. b : s[i] \in Lines
  BY LenProperties
<1>2. /\ SubSeq(s, a, b) \in Seq(Lines)
      /\ Len(SubSeq(s, a, b)) = IF a <= b THEN b - a + 1 ELSE 0
      /\ \A i \in 1 .. b - a + 1 : SubSeq(s, a, b)[i] = s[a + i - 1]
  BY <1>1, SubSeqProperties
<1>3. ASSUME NEW i \in 1 .. Len(SubSeq(s, a, b)) PROVE SubSeq(s, a, b)[i] # "mark"
  <2>1. i \in 1 .. b - a + 1 /\ a + i - 1 \in a .. b
    BY <1>1, <1>2
  <2>2. QED
    BY <1>2, <2>1
<1>4. QED
  BY <1>2, <1>3 DEF NoMark

\* Two texts without a mark make one without a mark.
LEMMA Joined ==
  ASSUME NEW s \in Seq(Lines), NEW t \in Seq(Lines), NoMark(s), NoMark(t)
  PROVE  s \o t \in Seq(Lines) /\ NoMark(s \o t)
<1>1. /\ s \o t \in Seq(Lines)
      /\ Len(s \o t) = Len(s) + Len(t)
      /\ \A i \in 1 .. Len(s) + Len(t) :
           (s \o t)[i] = IF i <= Len(s) THEN s[i] ELSE t[i - Len(s)]
  BY ConcatProperties
<1>2. Len(s) \in Nat /\ Len(t) \in Nat
  BY LenProperties
<1>3. ASSUME NEW i \in 1 .. Len(s) + Len(t) PROVE (s \o t)[i] # "mark"
  <2>1. CASE i <= Len(s)
    BY <1>1, <1>2, <2>1 DEF NoMark
  <2>2. CASE i > Len(s)
    <3>1. i - Len(s) \in 1 .. Len(t)
      BY <1>2, <2>2
    <3>2. QED
      BY <1>1, <1>2, <2>2, <3>1 DEF NoMark
  <2>3. QED
    BY <1>2, <2>1, <2>2
<1>4. QED
  BY <1>1, <1>3 DEF NoMark

\* The block between lines that are not marked is the only one.
LEMMA BlockBetween ==
  ASSUME NEW s \in Seq(Lines), NEW t \in Seq(Lines), NoMark(s), NoMark(t)
  PROVE  /\ s \o Block \o t \in Seq(Lines)
         /\ Whole(s \o Block \o t)
         /\ Mark(s \o Block \o t) > 0
<1> DEFINE u == s \o Block
           w == u \o t
           n == Len(s)
<1>1. /\ Block \in Seq(Lines)
      /\ Len(Block) = 2
      /\ Block[1] = "mark"
      /\ Block[2] = "ours"
  BY LinesAre DEF Block
<1>2. n \in Nat /\ Len(t) \in Nat
  BY LenProperties
<1>3. /\ u \in Seq(Lines)
      /\ Len(u) = n + 2
      /\ \A i \in 1 .. n + 2 : u[i] = IF i <= n THEN s[i] ELSE Block[i - n]
  <2>1. /\ u \in Seq(Lines)
        /\ Len(u) = Len(s) + Len(Block)
        /\ \A i \in 1 .. Len(s) + Len(Block) :
             u[i] = IF i <= Len(s) THEN s[i] ELSE Block[i - Len(s)]
    BY <1>1, ConcatProperties
  <2>2. QED
    BY <1>1, <2>1
<1>4. /\ w \in Seq(Lines)
      /\ Len(w) = n + 2 + Len(t)
      /\ \A i \in 1 .. n + 2 + Len(t) : w[i] = IF i <= n + 2 THEN u[i] ELSE t[i - (n + 2)]
  <2> HIDE DEF u
  <2>1. /\ w \in Seq(Lines)
        /\ Len(w) = Len(u) + Len(t)
        /\ \A i \in 1 .. Len(u) + Len(t) :
             w[i] = IF i <= Len(u) THEN u[i] ELSE t[i - Len(u)]
    BY <1>3, ConcatProperties
  <2>2. QED
    BY <1>3, <2>1
<1> HIDE DEF u, w, n
<1>5. w[n + 1] = "mark" /\ w[n + 2] = "ours"
  <2>1. n + 1 \in 1 .. n + 2 /\ n + 2 \in 1 .. n + 2
    BY <1>2
  <2>2. u[n + 1] = Block[n + 1 - n] /\ u[n + 2] = Block[n + 2 - n]
    BY <1>2, <1>3, <2>1
  <2>3. n + 1 - n = 1 /\ n + 2 - n = 2
    BY <1>2
  <2>4. QED
    BY <1>1, <1>2, <1>4, <2>2, <2>3
<1>6. ASSUME NEW i \in 1 .. Len(w), i # n + 1 PROVE w[i] # "mark"
  <2>1. CASE i <= n
    <3>1. i \in 1 .. n /\ i \in 1 .. n + 2 /\ i \in 1 .. n + 2 + Len(t)
      BY <1>2, <1>4, <2>1
    <3>2. w[i] = s[i]
      BY <1>2, <1>3, <1>4, <2>1, <3>1
    <3>3. QED
      BY <3>1, <3>2 DEF NoMark, n
  <2>2. CASE i = n + 2
    BY <1>5, <2>2
  <2>3. CASE i > n + 2
    <3>1. i - (n + 2) \in 1 .. Len(t)
      BY <1>2, <1>4, <2>3
    <3>2. t[i - (n + 2)] # "mark"
      BY <3>1 DEF NoMark
    <3>3. w[i] = t[i - (n + 2)]
      BY <1>2, <1>4, <1>6, <2>3
    <3>4. QED
      BY <3>2, <3>3
  <2>4. QED
    BY <1>2, <1>4, <1>6, <2>1, <2>2, <2>3
<1>7. Whole(w)
  <2>1. n + 1 < Len(w)
    BY <1>2, <1>4
  <2>2. QED
    BY <1>2, <1>5, <1>6, <2>1 DEF Whole
<1>8. Mark(w) > 0
  <2>1. ~ NoMark(w)
    BY <1>2, <1>4, <1>5 DEF NoMark
  <2>2. QED
    BY <1>4, <2>1, MarkIs
<1>9. QED
  BY <1>4, <1>7, <1>8 DEF w, u


\* What is before the block and what is after it is not marked.
LEMMA Surroundings ==
  ASSUME NEW s \in Seq(Lines), Whole(s), Mark(s) > 0
  PROVE  /\ Before(s) \in Seq(Lines) /\ NoMark(Before(s))
         /\ After(s) \in Seq(Lines) /\ NoMark(After(s))
<1> DEFINE m == Mark(s)
           blanks == {i \in m .. Len(s) : s[i] = "blank"}
<1>1. Len(s) \in Nat /\ m \in 1 .. Len(s) /\ s[m] = "mark"
  BY MarkIs, LenProperties
<1>2. \A i \in 1 .. Len(s) : i # m => s[i] # "mark"
  BY <1>1 DEF Whole
<1>3. BlockEnd(s) \in m + 1 .. Len(s) + 1
  <2>1. BlockEnd(s) = IF blanks = {} THEN Len(s) + 1
                      ELSE CHOOSE i \in blanks : \A j \in blanks : i <= j
    BY DEF BlockEnd
  <2> HIDE DEF m
  <2>2. CASE blanks = {}
    BY <1>1, <2>1, <2>2
  <2>3. CASE blanks # {}
    <3>1. blanks \in SUBSET (1 .. Len(s))
      BY <1>1
    <3>2. \E i \in blanks : \A j \in blanks : i <= j
      BY <1>1, <2>3, <3>1, Bounds
    <3>3. BlockEnd(s) \in blanks
      BY <2>1, <2>3, <3>2
    <3>4. BlockEnd(s) # m
      BY <1>1, <3>3
    <3>5. QED
      BY <1>1, <3>3, <3>4
  <2>4. QED
    BY <2>2, <2>3
<1>4. Before(s) \in Seq(Lines) /\ NoMark(Before(s))
  <2>1. Before(s) = SubSeq(s, 1, m - 1)
    BY DEF Before
  <2> HIDE DEF m
  <2>2. m - 1 \in 0 .. Len(s) /\ \A i \in 1 .. m - 1 : s[i] # "mark"
    BY <1>1, <1>2
  <2>3. QED
    BY <2>1, <2>2, Part
<1>5. After(s) \in Seq(Lines) /\ NoMark(After(s))
  <2>1. After(s) = SubSeq(s, BlockEnd(s), Len(s))
    BY DEF After
  <2> HIDE DEF m
  <2>2. /\ BlockEnd(s) \in Nat \ {0}
        /\ Len(s) \in 0 .. Len(s)
        /\ \A i \in BlockEnd(s) .. Len(s) : s[i] # "mark"
    BY <1>1, <1>2, <1>3
  <2>3. QED
    BY <2>1, <2>2, Part
<1>6. QED
  BY <1>4, <1>5

\* Trimming leaves no mark where there was none.
LEMMA TrimmedUnmarked ==
  ASSUME NEW s \in Seq(Lines), NoMark(s)
  PROVE  /\ TrimRight(s) \in Seq(Lines) /\ NoMark(TrimRight(s))
         /\ TrimLeft(s) \in Seq(Lines) /\ NoMark(TrimLeft(s))
<1>0. Len(s) \in Nat /\ \A i \in 1 .. Len(s) : s[i] # "mark"
  BY LenProperties DEF NoMark
<1>1. TrimRight(s) \in Seq(Lines) /\ NoMark(TrimRight(s))
  <2>1. PICK k \in 0 .. Len(s) : TrimRight(s) = SubSeq(s, 1, k)
    BY TrimmedIs
  <2>2. \A i \in 1 .. k : s[i] # "mark"
    BY <1>0, <2>1
  <2>3. QED
    BY <2>1, <2>2, Part
<1>2. TrimLeft(s) \in Seq(Lines) /\ NoMark(TrimLeft(s))
  <2>1. PICK k \in 1 .. Len(s) + 1 : TrimLeft(s) = SubSeq(s, k, Len(s))
    BY TrimmedIs
  <2>2. /\ k \in Nat \ {0}
        /\ Len(s) \in 0 .. Len(s)
        /\ \A i \in k .. Len(s) : s[i] # "mark"
    BY <1>0, <2>1
  <2>3. QED
    BY <2>1, <2>2, Part
<1>3. QED
  BY <1>1, <1>2

\* An installation leaves one whole block.
LEMMA IgnoringIs ==
  ASSUME NEW f \in IgnoreFiles, NEW s \in Seq(Lines), Whole(s)
  PROVE  /\ Ignoring(f, s) \in Seq(Lines)
         /\ Whole(Ignoring(f, s))
         /\ Mark(Ignoring(f, s)) > 0
<1>0. /\ Len(s) \in Nat
      /\ <<>> \in Seq(Lines) /\ NoMark(<<>>)
      /\ <<"blank">> \in Seq(Lines) /\ NoMark(<<"blank">>)
      /\ Block \in Seq(Lines)
      /\ f \in {"root", "claude"}
      /\ Mark(s) \in Nat
  BY LinesAre, LenProperties, MarkIs DEF NoMark, Block, IgnoreFiles
<1>1. CASE Mark(s) = 0 /\ s = <<>>
  <2>1. Ignoring(f, s) = Block
    BY <1>1 DEF Ignoring
  <2>2. Block = <<>> \o Block \o <<>>
    BY <1>0, ConcatEmptySeq
  <2>3. QED
    BY <1>0, <2>1, <2>2, BlockBetween
<1>2. CASE Mark(s) = 0 /\ s # <<>>
  <2>1. TrimRight(s) \in Seq(Lines) /\ NoMark(TrimRight(s))
    BY <1>2, MarkIs, TrimmedUnmarked
  <2>2. PICK t \in Seq(Lines) : NoMark(t) /\ Ignoring(f, s) = t \o Block
    <3>1. /\ TrimRight(s) \o <<"blank">> \in Seq(Lines)
          /\ NoMark(TrimRight(s) \o <<"blank">>)
      BY <1>0, <2>1, Joined
    <3>2. CASE f = "root"
      <4>1. Ignoring(f, s) = TrimRight(s) \o <<"blank">> \o Block
        BY <1>2, <3>2 DEF Ignoring
      <4> DEFINE t == TrimRight(s) \o <<"blank">>
      <4>2. t \in Seq(Lines) /\ NoMark(t) /\ Ignoring(f, s) = t \o Block
        BY <3>1, <4>1
      <4> HIDE DEF t
      <4>3. QED
        BY <4>2
    <3>3. CASE f = "claude"
      BY <1>2, <2>1, <3>3 DEF Ignoring
    <3>4. QED
      BY <1>0, <3>2, <3>3
  <2>3. t \o Block = t \o Block \o <<>>
    <3>1. t \o Block \in Seq(Lines)
      BY <1>0, ConcatProperties
    <3>2. QED
      BY <3>1, ConcatEmptySeq
  <2>4. QED
    BY <1>0, <2>2, <2>3, BlockBetween
<1>3. CASE Mark(s) > 0 /\ f = "root"
  <2>1. Ignoring(f, s) = Before(s) \o Block \o After(s)
    BY <1>3 DEF Ignoring
  <2>2. QED
    BY <1>3, <2>1, Surroundings, BlockBetween
<1>4. CASE Mark(s) > 0 /\ f = "claude"
  BY <1>4 DEF Ignoring
<1>5. QED
  BY <1>0, <1>1, <1>2, <1>3, <1>4

\* A file without a mark holds no half of a block.
LEMMA Unmarked ==
  ASSUME NEW s \in Seq(Lines), NoMark(s)
  PROVE  Whole(s) /\ Mark(s) = 0
BY MarkIs DEF NoMark, Whole

\* An uninstallation leaves none.
LEMMA NotIgnoringIs ==
  ASSUME NEW s \in Seq(Lines), Whole(s)
  PROVE  /\ NotIgnoring(s) \in Seq(Lines)
         /\ Whole(NotIgnoring(s))
         /\ Mark(NotIgnoring(s)) = 0
<1>1. NotIgnoring(s) \in Seq(Lines) /\ NoMark(NotIgnoring(s))
  <2>1. CASE Mark(s) = 0
    BY <2>1, MarkIs DEF NotIgnoring
  <2>2. CASE Mark(s) # 0
    <3>1. /\ Before(s) \in Seq(Lines) /\ NoMark(Before(s))
          /\ After(s) \in Seq(Lines) /\ NoMark(After(s))
      BY <2>2, MarkIs, Surroundings
    <3>2. /\ TrimRight(Before(s)) \in Seq(Lines) /\ NoMark(TrimRight(Before(s)))
          /\ TrimLeft(After(s)) \in Seq(Lines) /\ NoMark(TrimLeft(After(s)))
      BY <3>1, TrimmedUnmarked
    <3>3. NotIgnoring(s) = TrimRight(Before(s)) \o TrimLeft(After(s))
      BY <2>2 DEF NotIgnoring
    <3>4. QED
      BY <3>2, <3>3, Joined
  <2>3. QED
    BY <2>1, <2>2
<1>2. QED
  BY <1>1, Unmarked

\* Lines that are added at the end leave a block as it is.
LEMMA AddedLines ==
  ASSUME NEW s \in Seq(Lines), Whole(s), NEW t \in Seq(Lines), NoMark(t)
  PROVE  /\ s \o t \in Seq(Lines)
         /\ Whole(s \o t)
         /\ Mark(s \o t) > 0 <=> Mark(s) > 0
<1> DEFINE n == Len(s)
           w == s \o t
<1>1. /\ w \in Seq(Lines)
      /\ Len(w) = n + Len(t)
      /\ \A i \in 1 .. n + Len(t) : w[i] = IF i <= n THEN s[i] ELSE t[i - n]
  BY ConcatProperties
<1>2. n \in Nat /\ Len(t) \in Nat
  BY LenProperties
<1>3. \A i \in 1 .. n : i \in 1 .. Len(w) /\ w[i] = s[i]
  BY <1>1, <1>2
<1>4. ASSUME NEW i \in 1 .. Len(w), w[i] = "mark" PROVE i \in 1 .. n
  <2>1. SUFFICES ASSUME i > n PROVE FALSE
    BY <1>1, <1>2
  <2>2. i - n \in 1 .. Len(t) /\ w[i] = t[i - n]
    BY <1>1, <1>2, <2>1
  <2>3. QED
    BY <1>4, <2>2 DEF NoMark
<1> HIDE DEF w
<1>5. Whole(w)
  <2> SUFFICES ASSUME NEW i \in 1 .. Len(w), w[i] = "mark"
               PROVE  /\ i < Len(w) /\ w[i + 1] = "ours"
                      /\ \A k \in 1 .. Len(w) : w[k] = "mark" => k = i
    BY DEF Whole
  <2>1. i \in 1 .. n /\ s[i] = "mark"
    BY <1>3, <1>4
  <2>2. i < n /\ s[i + 1] = "ours" /\ \A k \in 1 .. n : s[k] = "mark" => k = i
    BY <2>1 DEF Whole
  <2>3. i + 1 \in 1 .. n /\ i < Len(w)
    BY <1>1, <1>2, <2>1, <2>2
  <2>4. QED
    BY <1>3, <1>4, <2>2, <2>3
<1>6. NoMark(w) <=> NoMark(s)
  BY <1>3, <1>4 DEF NoMark
<1>7. QED
  <2>1. /\ Mark(w) \in Nat /\ (Mark(w) = 0 <=> NoMark(w))
        /\ Mark(s) \in Nat /\ (Mark(s) = 0 <=> NoMark(s))
    BY <1>1, <1>2, MarkIs
  <2>2. QED
    BY <1>1, <1>5, <1>6, <2>1 DEF w

\* The user's line, after a blank one or not.
LEMMA AddedLine ==
  ASSUME NEW s \in Seq(Lines), Whole(s), NEW gap \in {<<>>, <<"blank">>}
  PROVE  /\ s \o gap \o <<Own>> \in Seq(Lines)
         /\ Whole(s \o gap \o <<Own>>)
         /\ Mark(s \o gap \o <<Own>>) > 0 <=> Mark(s) > 0
<1>1. /\ gap \in Seq(Lines) /\ NoMark(gap)
      /\ <<Own>> \in Seq(Lines) /\ NoMark(<<Own>>)
  <2>1. Own # "mark" /\ Own \in Lines /\ "blank" \in Lines
    BY LinesAre DEF Own
  <2>2. /\ <<>> \in Seq(Lines) /\ NoMark(<<>>)
        /\ <<"blank">> \in Seq(Lines) /\ NoMark(<<"blank">>)
        /\ <<Own>> \in Seq(Lines) /\ NoMark(<<Own>>)
    BY <2>1 DEF NoMark
  <2>3. QED
    BY <2>2
<1>2. /\ s \o gap \in Seq(Lines)
      /\ Whole(s \o gap)
      /\ Mark(s \o gap) > 0 <=> Mark(s) > 0
  BY <1>1, AddedLines
<1>3. QED
  BY <1>1, <1>2, AddedLines

\* What the type invariant says of a file.
LEMMA WholeIs ==
  ASSUME NEW s \in Seq(Lines), Whole(s)
  PROVE  /\ Cardinality({i \in DOMAIN s : s[i] = "mark"}) <= 1
         /\ Mark(s) > 0 => Mark(s) < Len(s) /\ s[Mark(s) + 1] = "ours"
<1>1. DOMAIN s = 1 .. Len(s)
  BY LenProperties
<1> DEFINE I == {i \in DOMAIN s : s[i] = "mark"}
<1>2. I = {} \/ \E i \in I : I = {i}
  BY <1>1 DEF Whole
<1> HIDE DEF I
<1>3. Cardinality(I) <= 1
  <2>1. CASE I = {}
    BY <2>1, FS_EmptySet
  <2>2. CASE \E i \in I : I = {i}
    <3>1. Cardinality(I) = 1
      BY <2>2, FS_Singleton
    <3>2. QED
      BY <3>1
  <2>3. QED
    BY <1>2, <2>1, <2>2
<1>4. Mark(s) > 0 => Mark(s) < Len(s) /\ s[Mark(s) + 1] = "ours"
  BY MarkIs DEF Whole
<1>5. QED
  BY <1>3, <1>4 DEF I

-----------------------------------------------------------------------------
(* The hook entries of settings.json.                                        *)

Commands == [name : Names, by : Runners]

\* The names of hooks differ from those of old versions and of the user.
LEMMA NamesAre ==
  /\ Hooks \subseteq Names /\ Legacy \in Names /\ Own \in Names
  /\ Own \notin Hooks /\ Legacy \notin Hooks /\ Own # Legacy
  /\ \A n \in Names : n \in DOMAIN EventOf
BY HooksAssumption DEF Names, Own, Legacy

\* The image of a finite set under a function is finite.
LEMMA FiniteImage ==
  ASSUME NEW S, IsFiniteSet(S), NEW T, NEW f \in [S -> T]
  PROVE  IsFiniteSet({f[x] : x \in S})
<1> DEFINE R == {f[x] : x \in S}
<1>1. f \in [S -> R]
  OBVIOUS
<1>2. \A y \in R : \E x \in S : f[x] = y
  OBVIOUS
<1>3. f \in Surjection(S, R)
  BY <1>1, <1>2 DEF Surjection
<1>4. QED
  BY <1>3, FS_Surjection

\* What sound entries are made of.
LEMMA SoundIs ==
  ASSUME NEW s, Sound(s), NEW e \in s
  PROVE  /\ e \in Entries
         /\ e = [event |-> e.event, cmds |-> e.cmds]
         /\ e.cmds \subseteq Commands
         /\ e.cmds # {}
         /\ \A c \in e.cmds : /\ c.name \in Names /\ c.by \in Runners
                              /\ e.event = EventOf[c.name]
                              /\ c.name = Own => c.by = "none"
                              /\ c = Command(c.name, c.by)
<1>1. e \in Entries
  BY DEF Sound
<1>2. e.cmds \subseteq Commands /\ e = [event |-> e.event, cmds |-> e.cmds]
  BY <1>1 DEF Entries, Commands
<1>3. e.cmds # {}
  BY DEF Sound
<1>4. ASSUME NEW c \in e.cmds
      PROVE  /\ c.name \in Names /\ c.by \in Runners
             /\ e.event = EventOf[c.name]
             /\ c.name = Own => c.by = "none"
             /\ c = Command(c.name, c.by)
  <2>1. c \in Commands
    BY <1>2
  <2>2. c.name \in Names /\ c.by \in Runners /\ c = Command(c.name, c.by)
    BY <2>1 DEF Commands, Command
  <2>3. e.event = EventOf[c.name] /\ (c.name = Own => c.by = "none")
    BY DEF Sound
  <2>4. QED
    BY <2>2, <2>3
<1>5. QED
  BY <1>1, <1>2, <1>3, <1>4

\* An entry with one command.
LEMMA EntryIs ==
  ASSUME NEW n \in Names, NEW by \in Runners, n = Own => by = "none"
  PROVE  /\ Sound({Entry(n, by)})
         /\ Entry(n, by).cmds = {Command(n, by)}
         /\ Entry(n, by).event = EventOf[n]
<1>1. Command(n, by) \in [name : Names, by : Runners]
  BY DEF Command
<1>2. Entry(n, by) \in Entries
  <2>1. {Command(n, by)} \in SUBSET [name : Names, by : Runners]
    BY <1>1
  <2>2. EventOf[n] \in {EventOf[k] : k \in Names}
    OBVIOUS
  <2>3. QED
    BY <2>1, <2>2 DEF Entry, Entries
<1>3. /\ Entry(n, by).cmds = {Command(n, by)}
      /\ Entry(n, by).event = EventOf[n]
      /\ Command(n, by).name = n /\ Command(n, by).by = by
  BY DEF Entry, Command
<1>4. Sound({Entry(n, by)})
  BY <1>2, <1>3 DEF Sound
<1>5. QED
  BY <1>3, <1>4

\* filterHookEntries finds every command of a hook's name, whoever runs it.
LEMMA MatchesAre ==
  ASSUME NEW s, Sound(s), NEW h \in Names
  PROVE  /\ \A m \in Matches(s, h) : /\ m = <<m[1], m[2]>>
                                     /\ m[1] \in s /\ m[2] \in m[1].cmds
                                     /\ m[2].name = h
         /\ \A e \in s : \A c \in e.cmds : c.name = h => <<e, c>> \in Matches(s, h)
<1>1. \A m \in Matches(s, h) : /\ m = <<m[1], m[2]>>
                               /\ m[1] \in s /\ m[2] \in m[1].cmds
                               /\ m[2].name = h
  BY DEF Matches
<1>2. ASSUME NEW e \in s, NEW c \in e.cmds, c.name = h
      PROVE  <<e, c>> \in Matches(s, h)
  <2>1. /\ e.event = EventOf[h]
        /\ c \in [name : {h}, by : Runners]
    BY <1>2, SoundIs DEF Command
  <2>2. QED
    BY <2>1 DEF Matches
<1>3. QED
  BY <1>1, <1>2

\* A set of entries without a hook has no match, and the other way round.
LEMMA NoMatches ==
  ASSUME NEW s, Sound(s), NEW h \in Names
  PROVE  Matches(s, h) = {} <=> \A e \in s : \A c \in e.cmds : c.name # h
<1>1. CASE Matches(s, h) = {}
  BY <1>1, MatchesAre
<1>2. CASE Matches(s, h) # {}
  <2>1. PICK m \in Matches(s, h) : m[1] \in s /\ m[2] \in m[1].cmds /\ m[2].name = h
    BY <1>2, MatchesAre
  <2>2. QED
    BY <1>2, <2>1
<1>3. QED
  BY <1>1, <1>2

\* Finitely many entries name a hook.
LEMMA MatchesFinite ==
  ASSUME NEW s, IsFiniteSet(s), NEW h
  PROVE  IsFiniteSet(Matches(s, h))
<1>1. IsFiniteSet(Runners)
  <2>1. IsFiniteSet({"npx"})
    BY FS_Singleton
  <2>2. IsFiniteSet({"npx"} \cup {"here"})
    BY <2>1, FS_AddElement
  <2>3. IsFiniteSet(({"npx"} \cup {"here"}) \cup {"there"})
    BY <2>2, FS_AddElement
  <2>4. IsFiniteSet((({"npx"} \cup {"here"}) \cup {"there"}) \cup {"none"})
    BY <2>3, FS_AddElement
  <2>5. Runners = (({"npx"} \cup {"here"}) \cup {"there"}) \cup {"none"}
    BY DEF Runners
  <2>6. QED
    BY <2>4, <2>5
<1> DEFINE R == [name : {h}, by : Runners]
           f == [b \in Runners |-> [name |-> h, by |-> b]]
<1>2. R = {f[b] : b \in Runners}
  <2>1. \A b \in Runners : f[b] = [name |-> h, by |-> b] /\ f[b] \in R
    OBVIOUS
  <2>2. \A r \in R : r.by \in Runners /\ r = [name |-> h, by |-> r.by]
    OBVIOUS
  <2> HIDE DEF f, R
  <2>3. \A r \in R : r = f[r.by]
    BY <2>1, <2>2
  <2>4. QED
    BY <2>1, <2>2, <2>3
<1>3. IsFiniteSet(R)
  <2>1. f \in [Runners -> R]
    OBVIOUS
  <2> HIDE DEF f, R
  <2>2. QED
    BY <1>1, <1>2, <2>1, FiniteImage
<1>4. IsFiniteSet(s \X R)
  BY <1>3, FS_Product
<1>5. Matches(s, h) \in SUBSET (s \X R)
  BY DEF Matches
<1>6. QED
  BY <1>4, <1>5, FS_Subset

\* What needs no installation has what the profile asks for.
LEMMA NotNeeded ==
  ASSUME NEW s, IsFiniteSet(s), NEW p, ~ Needs(s, p)
  PROVE  Installed(s, p)
<1>1. ASSUME NEW h \in Hooks, h \in InProfile(p)
      PROVE  \E m \in Matches(s, h) : Matches(s, h) = {m}
  <2>1. Matches(s, h) # {} /\ ~ (Cardinality(Matches(s, h)) > 1)
    BY <1>1 DEF Needs, NeedsDedupe, Has
  <2>2. IsFiniteSet(Matches(s, h))
    BY MatchesFinite
  <2>3. Cardinality(Matches(s, h)) = 1
    BY <2>1, <2>2, FS_CardinalityType, FS_EmptySet
  <2>4. QED
    BY <2>2, <2>3, FS_Singleton
<1>2. ASSUME NEW h \in Hooks, h \notin InProfile(p)
      PROVE  Matches(s, h) = {}
  BY <1>2 DEF Needs, Has
<1>3. ~ NeedsUpgrade(s)
  BY DEF Needs
<1>4. QED
  BY <1>1, <1>2, <1>3 DEF Installed

\* Exactly what is asked for, counted.
LEMMA InstalledCounts ==
  ASSUME NEW s, NEW p, Installed(s, p)
  PROVE  /\ \A h \in Hooks : Cardinality(Matches(s, h)) = IF h \in InProfile(p) THEN 1 ELSE 0
         /\ ~ NeedsUpgrade(s)
<1>1. ASSUME NEW h \in Hooks
      PROVE  Cardinality(Matches(s, h)) = IF h \in InProfile(p) THEN 1 ELSE 0
  <2>1. CASE h \in InProfile(p)
    <3>1. PICK m \in Matches(s, h) : Matches(s, h) = {m}
      BY <2>1 DEF Installed
    <3>2. QED
      BY <2>1, <3>1, FS_Singleton
  <2>2. CASE h \notin InProfile(p)
    BY <2>2, FS_EmptySet DEF Installed
  <2>3. QED
    BY <2>1, <2>2
<1>2. QED
  BY <1>1 DEF Installed


\* What AddHooksForProfile does to an entry, and to a command of it.
UpgradedCommand(c) == IF c.by = "npx" THEN [c EXCEPT !.by = "here"] ELSE c
UpgradedEntry(e) == [e EXCEPT !.cmds = {UpgradedCommand(c) : c \in e.cmds}]
FilteredEntry(e) == [e EXCEPT !.cmds = {c \in e.cmds : c.name \notin Hooks}]

\* An upgraded command does not run by npx; the user's stay.
LEMMA UpgradedCommandIs ==
  ASSUME NEW c \in Commands
  PROVE  /\ UpgradedCommand(c) \in Commands
         /\ UpgradedCommand(c).name = c.name
         /\ UpgradedCommand(c).by # "npx"
         /\ c.by = "none" => UpgradedCommand(c) = c
<1>1. "here" \in Runners
  BY DEF Runners
<1>2. QED
  BY <1>1 DEF Commands, UpgradedCommand

\* An upgrade leaves nothing to upgrade and keeps the user's hooks.
LEMMA UpgradedIs ==
  ASSUME NEW s, Sound(s), IsFiniteSet(s)
  PROVE  /\ Sound(Upgraded(s))
         /\ IsFiniteSet(Upgraded(s))
         /\ ~ NeedsUpgrade(Upgraded(s))
         /\ OwnHooks(s) \subseteq OwnHooks(Upgraded(s))
<1> DEFINE U == Upgraded(s)
<1>1. U = {UpgradedEntry(e) : e \in s}
  BY DEF Upgraded, UpgradedEntry, UpgradedCommand
<1>2. ASSUME NEW e \in s
      PROVE  /\ UpgradedEntry(e).cmds = {UpgradedCommand(c) : c \in e.cmds}
             /\ UpgradedEntry(e).event = e.event
             /\ UpgradedEntry(e) \in Entries
             /\ Sound({UpgradedEntry(e)})
  <2>1. /\ e \in [event : {EventOf[n] : n \in Names}, cmds : SUBSET Commands]
        /\ e.cmds # {}
        /\ \A c \in e.cmds : /\ c \in Commands
                             /\ e.event = EventOf[c.name]
                             /\ c.name = Own => c.by = "none"
    <3>1. e \in Entries
      BY SoundIs
    <3>2. QED
      BY <3>1, SoundIs DEF Entries, Commands
  <2>2. \A c \in e.cmds : /\ UpgradedCommand(c) \in Commands
                          /\ UpgradedCommand(c).name = c.name
                          /\ c.by = "none" => UpgradedCommand(c) = c
    BY <2>1, UpgradedCommandIs
  <2> DEFINE C == {UpgradedCommand(c) : c \in e.cmds}
  <2>3. C \in SUBSET Commands /\ C # {}
    BY <2>1, <2>2
  <2>4. \A d \in C : e.event = EventOf[d.name] /\ (d.name = Own => d.by = "none")
    BY <2>1, <2>2
  <2>5. UpgradedEntry(e) = [e EXCEPT !.cmds = C]
    BY DEF UpgradedEntry
  <2> HIDE DEF C
  <2>6. /\ UpgradedEntry(e).cmds = C
        /\ UpgradedEntry(e).event = e.event
        /\ UpgradedEntry(e) \in [event : {EventOf[n] : n \in Names}, cmds : SUBSET Commands]
    BY <2>1, <2>3, <2>5
  <2>7. UpgradedEntry(e) \in Entries
    BY <2>6 DEF Entries, Commands
  <2>8. Sound({UpgradedEntry(e)})
    BY <2>3, <2>4, <2>6, <2>7 DEF Sound
  <2>9. QED
    BY <2>6, <2>7, <2>8 DEF C
<1>3. Sound(U)
  BY <1>1, <1>2 DEF Sound
<1>4. IsFiniteSet(U)
  <2> DEFINE f == [e \in s |-> UpgradedEntry(e)]
  <2>1. f \in [s -> Entries] /\ \A e \in s : f[e] = UpgradedEntry(e)
    BY <1>2
  <2> HIDE DEF f
  <2>2. IsFiniteSet({f[e] : e \in s})
    BY <2>1, FiniteImage
  <2>3. {f[e] : e \in s} = U
    BY <1>1, <2>1
  <2>4. QED
    BY <2>2, <2>3
<1>5. ~ NeedsUpgrade(U)
  <2>1. ASSUME NEW e \in s, NEW c \in e.cmds PROVE UpgradedCommand(c).by # "npx"
    BY <2>1, SoundIs, UpgradedCommandIs
  <2>2. ASSUME NEW u \in U, NEW d \in u.cmds PROVE d.by # "npx"
    <3>1. PICK e \in s : u = UpgradedEntry(e)
      BY <1>1
    <3>2. PICK c \in e.cmds : d = UpgradedCommand(c)
      BY <1>2, <3>1
    <3>3. QED
      BY <2>1, <3>2
  <2> HIDE DEF U
  <2>3. QED
    BY <2>2 DEF NeedsUpgrade
<1>6. OwnHooks(s) \subseteq OwnHooks(U)
  <2> SUFFICES ASSUME NEW c \in OwnHooks(s) PROVE c \in OwnHooks(U)
    OBVIOUS
  <2>1. PICK e \in s : c \in e.cmds
    BY DEF OwnHooks
  <2>2. c.name = Own
    BY DEF OwnHooks
  <2>3. c \in Commands /\ c.by = "none"
    BY <2>1, <2>2, SoundIs
  <2>4. UpgradedCommand(c) = c
    BY <2>3, UpgradedCommandIs
  <2>5. c \in UpgradedEntry(e).cmds
    BY <1>2, <2>1, <2>4
  <2>6. UpgradedEntry(e) \in U
    BY <1>1, <2>1
  <2>7. QED
    BY <2>2, <2>5, <2>6 DEF OwnHooks
<1>7. QED
  BY <1>3, <1>4, <1>5, <1>6

\* Filtering takes every command of ours and keeps the user's.
LEMMA FilteredIs ==
  ASSUME NEW s, Sound(s), IsFiniteSet(s)
  PROVE  /\ Sound(Filtered(s))
         /\ IsFiniteSet(Filtered(s))
         /\ NeedsUpgrade(Filtered(s)) => NeedsUpgrade(s)
         /\ \A e \in Filtered(s) : \A c \in e.cmds : c.name \notin Hooks
         /\ OwnHooks(s) \subseteq OwnHooks(Filtered(s))
<1> DEFINE F == Filtered(s)
<1>1. F = {e \in {FilteredEntry(d) : d \in s} : e.cmds # {}}
  BY DEF Filtered, FilteredEntry
<1>2. ASSUME NEW e \in s
      PROVE  /\ FilteredEntry(e).cmds = {c \in e.cmds : c.name \notin Hooks}
             /\ FilteredEntry(e).event = e.event
             /\ FilteredEntry(e) \in Entries
  <2>1. e \in [event : {EventOf[n] : n \in Names}, cmds : SUBSET Commands]
    BY SoundIs DEF Entries, Commands
  <2> DEFINE C == {c \in e.cmds : c.name \notin Hooks}
  <2>2. C \in SUBSET Commands
    BY <2>1
  <2>3. FilteredEntry(e) = [e EXCEPT !.cmds = C]
    BY DEF FilteredEntry
  <2> HIDE DEF C
  <2>4. /\ FilteredEntry(e).cmds = C
        /\ FilteredEntry(e).event = e.event
        /\ FilteredEntry(e) \in [event : {EventOf[n] : n \in Names}, cmds : SUBSET Commands]
    BY <2>1, <2>2, <2>3
  <2>5. QED
    BY <2>4 DEF C, Entries, Commands
<1>3. ASSUME NEW d \in F
      PROVE  /\ d \in Entries
             /\ d.cmds # {}
             /\ \E e \in s : d.event = e.event /\ d.cmds = {c \in e.cmds : c.name \notin Hooks}
  BY <1>1, <1>2
<1>4. Sound(F)
  <2>1. ASSUME NEW d \in F, NEW c \in d.cmds
        PROVE  d.event = EventOf[c.name] /\ (c.name = Own => c.by = "none")
    <3>1. PICK e \in s : d.event = e.event /\ d.cmds = {k \in e.cmds : k.name \notin Hooks}
      BY <1>3
    <3>2. c \in e.cmds
      BY <2>1, <3>1
    <3>3. e.event = EventOf[c.name] /\ (c.name = Own => c.by = "none")
      BY <3>2 DEF Sound
    <3>4. QED
      BY <3>1, <3>3
  <2> HIDE DEF F
  <2>2. QED
    BY <1>3, <2>1 DEF Sound
<1>5. IsFiniteSet(F)
  <2> DEFINE f == [e \in s |-> FilteredEntry(e)]
  <2>1. f \in [s -> Entries] /\ \A e \in s : f[e] = FilteredEntry(e)
    BY <1>2
  <2> HIDE DEF f
  <2>2. IsFiniteSet({f[e] : e \in s})
    BY <2>1, FiniteImage
  <2>3. F \in SUBSET {f[e] : e \in s}
    BY <1>1, <2>1
  <2> HIDE DEF F
  <2>4. QED
    BY <2>2, <2>3, FS_Subset
<1>6. NeedsUpgrade(F) => NeedsUpgrade(s)
  <2> SUFFICES ASSUME NEW d \in F, NEW c \in d.cmds, c.by = "npx" PROVE NeedsUpgrade(s)
    BY DEF NeedsUpgrade
  <2>1. PICK e \in s : d.cmds = {k \in e.cmds : k.name \notin Hooks}
    BY <1>3
  <2>2. c \in e.cmds
    BY <2>1
  <2>3. QED
    BY <2>2 DEF NeedsUpgrade
<1>7. \A d \in F : \A c \in d.cmds : c.name \notin Hooks
  <2> HIDE DEF F
  <2>1. QED
    BY <1>3
<1>8. OwnHooks(s) \subseteq OwnHooks(F)
  <2> SUFFICES ASSUME NEW c \in OwnHooks(s) PROVE c \in OwnHooks(F)
    OBVIOUS
  <2>1. PICK e \in s : c \in e.cmds
    BY DEF OwnHooks
  <2>2. c.name = Own
    BY DEF OwnHooks
  <2>3. c \in FilteredEntry(e).cmds
    BY <1>2, <2>1, <2>2, NamesAre
  <2>4. FilteredEntry(e) \in F
    BY <1>1, <2>1, <2>3
  <2>5. QED
    BY <2>2, <2>3, <2>4 DEF OwnHooks
<1>9. QED
  BY <1>4, <1>5, <1>6, <1>7, <1>8


\* An installation leaves what the profile asks for, and every hook of the
\* user's.
LEMMA WithHooksIs ==
  ASSUME NEW s, Sound(s), IsFiniteSet(s), NEW p
  PROVE  /\ Sound(WithHooks(s, p))
         /\ IsFiniteSet(WithHooks(s, p))
         /\ Installed(WithHooks(s, p), p)
         /\ OwnHooks(s) \subseteq OwnHooks(WithHooks(s, p))
<1> DEFINE F == Filtered(Upgraded(s))
           N == {Entry(h, "here") : h \in InProfile(p)}
           W == WithHooks(s, p)
<1>1. /\ Sound(F) /\ IsFiniteSet(F) /\ ~ NeedsUpgrade(F)
      /\ \A e \in F : \A c \in e.cmds : c.name \notin Hooks
      /\ OwnHooks(s) \subseteq OwnHooks(F)
  <2>1. /\ Sound(Upgraded(s)) /\ IsFiniteSet(Upgraded(s)) /\ ~ NeedsUpgrade(Upgraded(s))
        /\ OwnHooks(s) \subseteq OwnHooks(Upgraded(s))
    BY UpgradedIs
  <2>2. QED
    BY <2>1, FilteredIs
<1>2. W = F \cup N
  BY DEF WithHooks
<1>3. InProfile(p) \subseteq Hooks /\ InProfile(p) \subseteq Names
  BY NamesAre DEF InProfile
<1>4. ASSUME NEW h \in InProfile(p)
      PROVE  /\ Sound({Entry(h, "here")})
             /\ Entry(h, "here").cmds = {Command(h, "here")}
             /\ Command(h, "here").name = h
             /\ Command(h, "here").by = "here"
  <2>1. h \in Names /\ h # Own /\ "here" \in Runners
    BY <1>3, NamesAre DEF Runners
  <2>2. QED
    BY <2>1, EntryIs DEF Command
<1>5. Sound(N)
  BY <1>4 DEF Sound
<1>6. IsFiniteSet(N)
  <2> DEFINE f == [h \in InProfile(p) |-> Entry(h, "here")]
  <2>1. f \in [InProfile(p) -> N] /\ \A h \in InProfile(p) : f[h] = Entry(h, "here")
    OBVIOUS
  <2>2. IsFiniteSet(InProfile(p))
    BY <1>3, HooksAssumption, FS_Subset
  <2> HIDE DEF f
  <2>3. IsFiniteSet({f[h] : h \in InProfile(p)})
    <3> HIDE DEF N
    <3>1. QED
      BY <2>1, <2>2, FiniteImage
  <2>4. {f[h] : h \in InProfile(p)} = N
    BY <2>1
  <2>5. QED
    BY <2>3, <2>4
<1> HIDE DEF F, W
<1>7. Sound(W)
  BY <1>1, <1>2, <1>5 DEF Sound
<1>8. IsFiniteSet(W)
  BY <1>1, <1>2, <1>6, FS_Union
<1>9. ~ NeedsUpgrade(W)
  <2> SUFFICES ASSUME NEW e \in W, NEW c \in e.cmds, c.by = "npx" PROVE FALSE
    BY DEF NeedsUpgrade
  <2>1. CASE e \in F
    BY <1>1, <2>1 DEF NeedsUpgrade
  <2>2. CASE e \in N
    <3>1. PICK h \in InProfile(p) : e = Entry(h, "here")
      BY <2>2
    <3>2. e.cmds = {Command(h, "here")} /\ Command(h, "here").by = "here"
      BY <1>4, <3>1
    <3>3. c = Command(h, "here")
      BY <3>2
    <3>4. QED
      BY <3>2, <3>3
  <2>3. QED
    BY <1>2, <2>1, <2>2
<1>10. ASSUME NEW h \in Hooks, NEW e \in W, NEW c \in e.cmds, c.name = h
       PROVE  h \in InProfile(p) /\ e = Entry(h, "here") /\ c = Command(h, "here")
  <2>1. e \in N
    BY <1>1, <1>2, <1>10
  <2>2. PICK k \in InProfile(p) : e = Entry(k, "here")
    BY <2>1
  <2>3. c = Command(k, "here") /\ k = h
    BY <1>4, <1>10, <2>2
  <2>4. QED
    BY <2>2, <2>3
<1>11. ASSUME NEW h \in Hooks, h \in InProfile(p)
       PROVE  \E m \in Matches(W, h) : Matches(W, h) = {m}
  <2> DEFINE m == <<Entry(h, "here"), Command(h, "here")>>
  <2>0. h \in Names
    BY NamesAre
  <2>1. m \in Matches(W, h)
    <3>1. Entry(h, "here") \in W
      BY <1>2, <1>11
    <3>2. Command(h, "here") \in Entry(h, "here").cmds /\ Command(h, "here").name = h
      BY <1>4, <1>11
    <3>3. QED
      BY <1>7, <2>0, <3>1, <3>2, MatchesAre
  <2>2. ASSUME NEW k \in Matches(W, h) PROVE k = m
    <3>1. k = <<k[1], k[2]>> /\ k[1] \in W /\ k[2] \in k[1].cmds /\ k[2].name = h
      BY <1>7, <2>0, MatchesAre
    <3>2. k[1] = Entry(h, "here") /\ k[2] = Command(h, "here")
      BY <1>10, <3>1
    <3>3. QED
      BY <3>1, <3>2
  <2> HIDE DEF m
  <2>3. QED
    BY <2>1, <2>2
<1>12. ASSUME NEW h \in Hooks, h \notin InProfile(p)
       PROVE  Matches(W, h) = {}
  <2>1. h \in Names
    BY NamesAre
  <2>2. \A e \in W : \A c \in e.cmds : c.name # h
    BY <1>10, <1>12
  <2>3. QED
    BY <1>7, <2>1, <2>2, NoMatches
<1>13. Installed(W, p)
  BY <1>9, <1>11, <1>12 DEF Installed
<1>14. OwnHooks(s) \subseteq OwnHooks(W)
  BY <1>1, <1>2 DEF OwnHooks
<1>15. QED
  BY <1>7, <1>8, <1>13, <1>14 DEF W

\* An uninstallation leaves no hook of ours.
LEMMA WithoutHooksIs ==
  ASSUME NEW s, Sound(s), IsFiniteSet(s)
  PROVE  /\ Sound(WithoutHooks(s))
         /\ IsFiniteSet(WithoutHooks(s))
         /\ Unhooked(WithoutHooks(s))
<1>1. WithoutHooks(s) \in SUBSET s
  BY DEF WithoutHooks
<1>2. IsFiniteSet(WithoutHooks(s))
  BY <1>1, FS_Subset
<1>3. Sound(WithoutHooks(s))
  BY <1>1 DEF Sound
<1>4. Unhooked(WithoutHooks(s))
  BY DEF WithoutHooks, Unhooked
<1>5. QED
  BY <1>2, <1>3, <1>4

\* What the user's hook does not disturb.
Undisturbed(s, t) ==
  /\ Sound(t)
  /\ IsFiniteSet(t)
  /\ OwnHooks(s) \subseteq OwnHooks(t)
  /\ \A p : Installed(s, p) => Installed(t, p)
  /\ Unhooked(s) => Unhooked(t)

\* The user adds an entry of its own.
LEMMA EntryAdded ==
  ASSUME NEW s, Sound(s), IsFiniteSet(s)
  PROVE  Undisturbed(s, s \cup {Entry(Own, "none")})
<1> DEFINE o == Entry(Own, "none")
           t == s \cup {o}
<1>1. /\ Sound({o}) /\ o.cmds = {Command(Own, "none")}
      /\ Command(Own, "none").name = Own
      /\ Command(Own, "none").by = "none"
  <2>1. Own \in Names /\ "none" \in Runners
    BY NamesAre DEF Runners
  <2>2. QED
    BY <2>1, EntryIs DEF Command
<1> HIDE DEF o
<1>2. Sound(t)
  BY <1>1 DEF Sound
<1>3. IsFiniteSet(t)
  BY FS_AddElement
<1>4. \A e \in t : \A c \in e.cmds : e \in s \/ (c.name = Own /\ c.by = "none")
  BY <1>1
<1>5. ASSUME NEW h \in Hooks PROVE Matches(t, h) = Matches(s, h)
  <2>1. h \in Names /\ h # Own
    BY NamesAre
  <2>2. \A m : m \in Matches(t, h) => m \in Matches(s, h)
    <3> SUFFICES ASSUME NEW m \in Matches(t, h) PROVE m \in Matches(s, h)
      OBVIOUS
    <3>1. m = <<m[1], m[2]>> /\ m[1] \in t /\ m[2] \in m[1].cmds /\ m[2].name = h
      BY <1>2, <2>1, MatchesAre
    <3>2. m[1] \in s
      BY <1>4, <2>1, <3>1
    <3>3. <<m[1], m[2]>> \in Matches(s, h)
      BY <2>1, <3>1, <3>2, MatchesAre
    <3>4. QED
      BY <3>1, <3>3
  <2>3. Matches(s, h) \subseteq Matches(t, h)
    BY DEF Matches
  <2>4. QED
    BY <2>2, <2>3
<1>6. NeedsUpgrade(t) => NeedsUpgrade(s)
  BY <1>4 DEF NeedsUpgrade
<1>7. \A p : Installed(s, p) => Installed(t, p)
  BY <1>5, <1>6 DEF Installed
<1>8. OwnHooks(s) \subseteq OwnHooks(t)
  BY DEF OwnHooks
<1>9. Unhooked(s) => Unhooked(t)
  <2>1. Own \notin Hooks \cup {Legacy}
    BY NamesAre
  <2>2. QED
    BY <1>4, <2>1 DEF Unhooked
<1>10. QED
  BY <1>2, <1>3, <1>7, <1>8, <1>9 DEF Undisturbed, o

\* The user adds a command to an entry that is there.
LEMMA CommandAdded ==
  ASSUME NEW s, Sound(s), IsFiniteSet(s), NEW e \in s, e.event = EventOf[Own]
  PROVE  Undisturbed(s, (s \ {e}) \cup {[e EXCEPT !.cmds = e.cmds \cup {Command(Own, "none")}]})
<1> DEFINE own == Command(Own, "none")
           C == e.cmds \cup {own}
           d == [e EXCEPT !.cmds = C]
           t == (s \ {e}) \cup {d}
<1>0. own \in Commands /\ own.name = Own /\ own.by = "none"
  <2>1. Own \in Names /\ "none" \in Runners
    BY NamesAre DEF Runners
  <2>2. QED
    BY <2>1 DEF Command, Commands
<1> HIDE DEF own
<1>1. /\ e \in [event : {EventOf[n] : n \in Names}, cmds : SUBSET Commands]
      /\ \A c \in e.cmds : e.event = EventOf[c.name] /\ (c.name = Own => c.by = "none")
  BY SoundIs DEF Entries, Commands
<1>2. C \in SUBSET Commands
  BY <1>0, <1>1
<1>3. /\ d.cmds = C
      /\ d.event = e.event
      /\ d \in [event : {EventOf[n] : n \in Names}, cmds : SUBSET Commands]
  <2> HIDE DEF C
  <2>1. QED
    BY <1>1, <1>2
<1>4. Sound({d})
  <2>1. d \in Entries
    BY <1>3 DEF Entries, Commands
  <2>2. \A c \in C : e.event = EventOf[c.name] /\ (c.name = Own => c.by = "none")
    BY <1>0, <1>1
  <2>3. C # {}
    OBVIOUS
  <2> HIDE DEF C, d
  <2>4. QED
    BY <1>3, <2>1, <2>2, <2>3 DEF Sound
<1> HIDE DEF d
<1>5. Sound(t)
  BY <1>4 DEF Sound
<1>6. IsFiniteSet(t)
  BY FS_AddElement, FS_RemoveElement
<1>7. ASSUME NEW u \in t, NEW c \in u.cmds
      PROVE  \/ c.name = Own /\ c.by = "none"
             \/ u \in s /\ u # e
             \/ u = d /\ c \in e.cmds
  BY <1>0, <1>3
<1>8. ASSUME NEW h \in Hooks, Matches(s, h) = {}
      PROVE  Matches(t, h) = {}
  <2>1. h \in Names /\ h # Own
    BY NamesAre
  <2>2. \A u \in s : \A c \in u.cmds : c.name # h
    BY <1>8, <2>1, NoMatches
  <2>3. \A u \in t : \A c \in u.cmds : c.name # h
    BY <1>7, <2>1, <2>2
  <2>4. QED
    BY <1>5, <2>1, <2>3, NoMatches
<1>9. ASSUME NEW h \in Hooks, NEW m \in Matches(s, h), Matches(s, h) = {m}
      PROVE  \E k \in Matches(t, h) : Matches(t, h) = {k}
  <2>1. h \in Names /\ h # Own
    BY NamesAre
  <2>2. m = <<m[1], m[2]>> /\ m[1] \in s /\ m[2] \in m[1].cmds /\ m[2].name = h
    BY <2>1, MatchesAre
  <2> DEFINE k == <<IF m[1] = e THEN d ELSE m[1], m[2]>>
  <2>3. k \in Matches(t, h)
    <3>1. /\ k[1] \in t /\ k[2] \in k[1].cmds /\ k[2].name = h
          /\ k = <<k[1], k[2]>>
      BY <1>3, <2>2
    <3> HIDE DEF k
    <3>2. <<k[1], k[2]>> \in Matches(t, h)
      BY <1>5, <2>1, <3>1, MatchesAre
    <3>3. QED
      BY <3>1, <3>2
  <2>4. ASSUME NEW l \in Matches(t, h) PROVE l = k
    <3>1. l = <<l[1], l[2]>> /\ l[1] \in t /\ l[2] \in l[1].cmds /\ l[2].name = h
      BY <1>5, <2>1, MatchesAre
    <3>2. \/ l[1] \in s /\ l[1] # e
          \/ l[1] = d /\ l[2] \in e.cmds
      BY <1>7, <2>1, <3>1
    <3>3. CASE l[1] \in s /\ l[1] # e
      <4>1. <<l[1], l[2]>> \in Matches(s, h)
        BY <2>1, <3>1, <3>3, MatchesAre
      <4>2. l = m
        BY <1>9, <3>1, <4>1
      <4>3. QED
        BY <2>2, <3>3, <4>2
    <3>4. CASE l[1] = d /\ l[2] \in e.cmds
      <4>1. <<e, l[2]>> \in Matches(s, h)
        BY <2>1, <3>1, <3>4, MatchesAre
      <4>2. m = <<e, l[2]>>
        BY <1>9, <4>1
      <4>3. m[1] = e /\ m[2] = l[2]
        BY <4>2
      <4>4. QED
        BY <3>1, <3>4, <4>3
    <3>5. QED
      BY <3>2, <3>3, <3>4
  <2> HIDE DEF k
  <2>5. QED
    BY <2>3, <2>4
<1>10. NeedsUpgrade(t) => NeedsUpgrade(s)
  <2> SUFFICES ASSUME NEW u \in t, NEW c \in u.cmds, c.by = "npx" PROVE NeedsUpgrade(s)
    BY DEF NeedsUpgrade
  <2>1. \/ u \in s
        \/ c \in e.cmds
    BY <1>7
  <2>2. QED
    BY <2>1 DEF NeedsUpgrade
<1>11. ASSUME NEW p, Installed(s, p)
       PROVE  Installed(t, p)
  <2>1. ASSUME NEW h \in Hooks, h \in InProfile(p)
        PROVE  \E k \in Matches(t, h) : Matches(t, h) = {k}
    <3>1. \E m \in Matches(s, h) : Matches(s, h) = {m}
      BY <1>11, <2>1 DEF Installed
    <3>2. QED
      BY <1>9, <3>1
  <2>2. ASSUME NEW h \in Hooks, h \notin InProfile(p)
        PROVE  Matches(t, h) = {}
    BY <1>8, <1>11, <2>2 DEF Installed
  <2>3. ~ NeedsUpgrade(t)
    BY <1>10, <1>11 DEF Installed
  <2>4. QED
    BY <2>1, <2>2, <2>3 DEF Installed
<1>12. OwnHooks(s) \subseteq OwnHooks(t)
  <2> SUFFICES ASSUME NEW c \in OwnHooks(s) PROVE c \in OwnHooks(t)
    OBVIOUS
  <2>1. PICK u \in s : c \in u.cmds /\ c.name = Own
    BY DEF OwnHooks
  <2>2. \E v \in t : c \in v.cmds
    BY <1>3, <2>1
  <2>3. QED
    BY <2>1, <2>2 DEF OwnHooks
<1>13. Unhooked(s) => Unhooked(t)
  <2>1. Own \notin Hooks \cup {Legacy}
    BY NamesAre
  <2>2. QED
    BY <1>7, <2>1 DEF Unhooked
<1>14. QED
  BY <1>5, <1>6, <1>11, <1>12, <1>13 DEF Undisturbed, d, own

-----------------------------------------------------------------------------
(* Commands.                                                                 *)

LEMMA GroupsAre ==
  /\ Groups = {"agents", "commands", "skills", "roles", "docs", "research"}
  /\ Len(GroupOrder) = 6
  /\ \A i \in 1 .. 6 : GroupOrder[i] \in Groups /\ PruneOrder[i] \in Groups
  /\ \A g \in Groups : \E i \in 1 .. 6 : GroupOrder[i] = g
  /\ \A g \in Groups : \E i \in 1 .. 6 : PruneOrder[i] = g
<1>1. /\ Len(GroupOrder) = 6
      /\ DOMAIN GroupOrder = 1 .. 6
      /\ GroupOrder[1] = "agents" /\ GroupOrder[2] = "commands" /\ GroupOrder[3] = "skills"
      /\ GroupOrder[4] = "roles" /\ GroupOrder[5] = "docs" /\ GroupOrder[6] = "research"
  BY DEF GroupOrder
<1>2. /\ PruneOrder[1] = "agents" /\ PruneOrder[2] = "commands" /\ PruneOrder[3] = "docs"
      /\ PruneOrder[4] = "research" /\ PruneOrder[5] = "skills" /\ PruneOrder[6] = "roles"
  BY DEF PruneOrder
<1>3. \A i \in 1 .. 6 : i = 1 \/ i = 2 \/ i = 3 \/ i = 4 \/ i = 5 \/ i = 6
  OBVIOUS
<1>4. Groups = {"agents", "commands", "skills", "roles", "docs", "research"}
  <2>1. Groups = {GroupOrder[i] : i \in 1 .. 6}
    BY <1>1 DEF Groups, ToSet
  <2>2. QED
    BY <1>1, <1>3, <2>1
<1>5. \A i \in 1 .. 6 : GroupOrder[i] \in Groups /\ PruneOrder[i] \in Groups
  BY <1>1, <1>2, <1>3, <1>4
<1>6. \A g \in Groups : \E i \in 1 .. 6 : GroupOrder[i] = g
  BY <1>1, <1>4
<1>7. \A g \in Groups : \E i \in 1 .. 6 : PruneOrder[i] = g
  BY <1>2, <1>4
<1>8. QED
  BY <1>1, <1>4, <1>5, <1>6, <1>7

\* The command that runs, field by field.
LEMMA CommandFields ==
  ASSUME CommandOK
  PROVE  /\ cmd.pc \in Steps(cmd.job.kind)
         /\ cmd.at \in 1 .. 6
         /\ cmd.todo \in SUBSET Targets
         /\ cmd.job.kind \in {"none", "setup", "hooks", "unhook", "uninstall"}
         /\ cmd.job.kind # "none" => /\ cmd.job \in Jobs
                                     /\ cmd.job.profile \in 0 .. 2
                                     /\ cmd.job.confirm \in BOOLEAN
                                     /\ cmd.job.hooks \in BOOLEAN
                                     /\ cmd.job.templates \in BOOLEAN
                                     /\ cmd.job.targets \in SUBSET Targets
                                     /\ cmd.job.mode \in 0 .. 2
<1>1. /\ cmd.pc \in Steps(cmd.job.kind)
      /\ cmd.at \in 1 .. 6
      /\ cmd.todo \in SUBSET Targets
      /\ cmd.job \in Jobs \cup {Idle.job}
  BY GroupsAre DEF CommandOK, Memory
<1>2. CASE cmd.job = Idle.job
  BY <1>1, <1>2 DEF Idle, NewCommand
<1>3. CASE cmd.job \in Jobs
  BY <1>1, <1>3, JobsAssumption
<1>4. QED
  BY <1>1, <1>2, <1>3

\* Which command is at a step.
LEMMA StepsAre ==
  /\ Steps("none") = {"idle"}
  /\ Steps("setup") = {"ignore", "rootignore", "migrate", "read", "write", "agents",
                       "claudemd", "plugin", "guard", "install", "prune", "index",
                       "targets", "refused", "ok"}
  /\ Steps("hooks") = {"read", "write", "ok"}
  /\ Steps("unhook") = {"read", "write", "ok"}
  /\ Steps("uninstall") = {"plan", "nothing", "read", "write", "remove", "unplug",
                           "runtime", "strip", "ok"}
BY DEF Steps, Templating, Removing

\* A command goes on to another step.
LEMMA Moves ==
  ASSUME CommandOK, NEW pc \in Steps(cmd.job.kind), cmd' = [cmd EXCEPT !.pc = pc]
  PROVE  /\ cmd'.pc = pc
         /\ cmd'.job = cmd.job
         /\ cmd'.read = cmd.read
         /\ cmd'.at = cmd.at
         /\ cmd'.todo = cmd.todo
         /\ cmd' \in Memory(cmd.job.kind)
BY DEF CommandOK, Memory

\* A setup removes nothing of what an uninstallation looks at, and the other
\* way round.
LEMMA NotUninstalling ==
  ASSUME CommandOK', cmd'.job.kind # "uninstall"
  PROVE  RemovedOK'
<1>1. cmd'.pc \in Steps(cmd'.job.kind)
  BY DEF CommandOK, Memory
<1>2. cmd'.job.kind \in {"none", "setup", "hooks", "unhook", "uninstall"}
  <2>1. cmd'.job \in Jobs \cup {Idle.job}
    BY DEF CommandOK, Memory
  <2>2. QED
    BY <2>1, JobsAssumption DEF Idle, NewCommand
<1>3. QED
  BY <1>1, <1>2, StepsAre DEF RemovedOK, At, Ended

\* Nothing is asked of a command that sets nothing up.
LEMMA NotSettingUp ==
  ASSUME CommandOK', cmd'.job.kind # "setup"
  PROVE  SetupOK' /\ TemplatesOK'
<1>1. cmd'.pc \in Steps(cmd'.job.kind)
  BY DEF CommandOK, Memory
<1>2. cmd'.job.kind \in {"none", "setup", "hooks", "unhook", "uninstall"}
  <2>1. cmd'.job \in Jobs \cup {Idle.job}
    BY DEF CommandOK, Memory
  <2>2. QED
    BY <2>1, JobsAssumption DEF Idle, NewCommand
<1>3. cmd'.pc \notin {"install", "prune"}
  BY <1>1, <1>2, StepsAre
<1>4. QED
  BY <1>3 DEF SetupOK, TemplatesOK, ForClaude, At

-----------------------------------------------------------------------------
(* The steps of a setup.                                                     *)

\* A command that ended, was killed, or was given up.
LEMMA IdleKeeps ==
  ASSUME cmd' = Idle, FilesOK'
  PROVE  IInv'
<1>2. /\ Idle.pc = "idle" /\ Idle.job.kind = "none" /\ Idle.at = 1
      /\ Idle.todo = {} /\ Idle.read = {}
  BY DEF Idle, NewCommand
<1>3. CommandOK'
  <2>1. Idle \in Memory("none")
    <3>1. Idle = [pc |-> "idle", job |-> Idle.job, read |-> {}, at |-> 1, todo |-> {}]
      BY DEF Idle, NewCommand
    <3>2. QED
      BY <3>1, StepsAre, GroupsAre DEF Memory
  <2>2. QED
    BY <1>2, <2>1 DEF CommandOK, At, Templating, Removing
<1>4. HooksOK'
  BY <1>2 DEF HooksOK, At, ForClaude, Ended
<1>5. QED
  BY <1>2, <1>3, <1>4, NotUninstalling, NotSettingUp DEF IInv

\* The directories and their .gitignore files.
LEMMA WriteIgnoreKeeps ==
  ASSUME IInv, WriteClaudeIgnore \/ WriteRootIgnore
  PROVE  IInv'
<1> DEFINE f == IF At("ignore") THEN "claude" ELSE "root"
           pc == IF At("ignore") THEN "rootignore" ELSE "migrate"
<1>0. /\ CommandOK
      /\ cmd.pc \in {"ignore", "rootignore"}
      /\ ForClaude
      /\ cmd.job.kind = "setup"
      /\ f = "claude" <=> cmd.pc = "ignore"
      /\ pc = "rootignore" <=> cmd.pc = "ignore"
      /\ f \in IgnoreFiles
      /\ f \in {"root", "claude"}
      /\ pc \in {"rootignore", "migrate"}
      /\ cmd' = [cmd EXCEPT !.pc = pc]
      /\ ignore' = [ignore EXCEPT ![f] = Ignoring(f, ignore[f])]
      /\ UNCHANGED <<settings, tree, agents, claudeMd, plugin, artifacts>>
  BY DEF IInv, CommandOK, ForClaude, WriteClaudeIgnore, WriteRootIgnore, At, Goto, Keep,
     IgnoreFiles
<1> HIDE DEF f, pc
<1>1. /\ cmd'.pc = pc
      /\ cmd'.job = cmd.job
      /\ cmd'.at = cmd.at
      /\ cmd' \in Memory(cmd.job.kind)
  BY <1>0, StepsAre, Moves
<1>2. /\ ignore \in [IgnoreFiles -> Seq(Lines)]
      /\ \A g \in IgnoreFiles : Whole(ignore[g])
  BY DEF IInv, FilesOK
<1>3. /\ Ignoring(f, ignore[f]) \in Seq(Lines)
      /\ Whole(Ignoring(f, ignore[f]))
      /\ Mark(Ignoring(f, ignore[f])) > 0
  BY <1>0, <1>2, IgnoringIs
<1>4. /\ ignore' \in [IgnoreFiles -> Seq(Lines)]
      /\ \A g \in IgnoreFiles : Whole(ignore'[g])
      /\ Mark(ignore'[f]) > 0
      /\ \A g \in IgnoreFiles : g # f => ignore'[g] = ignore[g]
  BY <1>0, <1>2, <1>3
<1>5. FilesOK'
  BY <1>0, <1>4 DEF IInv, FilesOK
<1>6. CommandOK'
  BY <1>0, <1>1 DEF CommandOK, At, ForClaude, Templating, Removing
<1>7. HooksOK'
  BY <1>0, <1>1 DEF HooksOK, At, Ended, Templating
<1>8. SetupOK'
  <2>1. "claude" \in IgnoreFiles /\ "root" \in IgnoreFiles
    BY DEF IgnoreFiles
  <2>2. Mark(ignore'["claude"]) > 0
    BY <1>0, <1>4, <2>1 DEF IInv, SetupOK, At
  <2>3. cmd'.pc = "migrate" => Mark(ignore'["root"]) > 0
    BY <1>0, <1>1, <1>4
  <2>4. QED
    BY <1>0, <1>1, <2>2, <2>3 DEF SetupOK, Templating, Pruned
<1>9. TemplatesOK'
  BY <1>0, <1>1 DEF TemplatesOK, At, Pruned
<1>10. QED
  BY <1>0, <1>1, <1>5, <1>6, <1>7, <1>8, <1>9, NotUninstalling DEF IInv

\* The step after the hooks.
LEMMA AfterHooksIs ==
  ASSUME CommandOK, cmd.job.kind # "none"
  PROVE  /\ AfterHooks \in Steps(cmd.job.kind) \cap {"agents", "targets", "remove", "ok"}
         /\ AfterHooks = "agents" <=> cmd.job.kind = "setup" /\ cmd.job.templates
         /\ AfterHooks = "targets" <=> cmd.job.kind = "setup" /\ ~ cmd.job.templates
         /\ AfterHooks = "remove" <=> cmd.job.kind = "uninstall" /\ cmd.job.mode > 0
<1>1. CASE cmd.job.kind = "setup"
  BY <1>1, StepsAre, CommandFields DEF AfterHooks
<1>2. CASE cmd.job.kind = "uninstall" /\ cmd.job.mode > 0
  BY <1>2, StepsAre DEF AfterHooks
<1>3. CASE cmd.job.kind = "uninstall" /\ ~ (cmd.job.mode > 0)
  BY <1>3, StepsAre DEF AfterHooks
<1>4. CASE cmd.job.kind \in {"hooks", "unhook"}
  BY <1>4, StepsAre DEF AfterHooks
<1>5. QED
  BY <1>1, <1>2, <1>3, <1>4, CommandFields

\* The old directory becomes the new one.
LEMMA MigrateKeeps ==
  ASSUME IInv, Migrate
  PROVE  IInv'
<1> DEFINE pc == IF cmd.job.hooks THEN "read" ELSE AfterHooks
<1>0. /\ CommandOK
      /\ cmd.pc = "migrate"
      /\ ForClaude
      /\ cmd.job.kind = "setup"
      /\ "claude" \in cmd.job.targets
      /\ cmd.at = 1
      /\ cmd' = [cmd EXCEPT !.pc = pc]
      /\ UNCHANGED <<settings, tree, agents, claudeMd, plugin, ignore>>
  BY DEF IInv, CommandOK, ForClaude, Migrate, At, Goto, Keep
<1>1. /\ pc \in Steps(cmd.job.kind) \cap {"read", "agents", "targets"}
      /\ pc = "read" <=> cmd.job.hooks
      /\ pc = "agents" => cmd.job.templates
      /\ pc = "targets" => ~ cmd.job.templates
  BY <1>0, AfterHooksIs, StepsAre
<1> HIDE DEF pc
<1>2. /\ cmd'.pc = pc
      /\ cmd'.job = cmd.job
      /\ cmd'.at = cmd.at
      /\ cmd' \in Memory(cmd.job.kind)
  BY <1>0, <1>1, Moves
<1>3. FilesOK'
  <2>1. artifacts' \subseteq Artifacts
    BY DEF IInv, FilesOK, Migrate, Artifacts
  <2>2. QED
    BY <1>0, <2>1 DEF IInv, FilesOK
<1>4. CommandOK'
  BY <1>0, <1>1, <1>2 DEF CommandOK, At, ForClaude, Templating, Removing
<1>5. HooksOK'
  BY <1>0, <1>1, <1>2 DEF HooksOK, At, Ended, Templating
<1>6. SetupOK'
  BY <1>0, <1>1, <1>2 DEF IInv, SetupOK, At, ForClaude, Templating, Pruned
<1>7. TemplatesOK'
  BY <1>0, <1>1, <1>2 DEF TemplatesOK, At, ForClaude, Pruned
<1>8. QED
  BY <1>0, <1>2, <1>3, <1>4, <1>5, <1>6, <1>7, NotUninstalling DEF IInv

\* The hooks read are those of the file, until the user edits it.
LEMMA ReadSettingsKeeps ==
  ASSUME IInv, ReadSettings
  PROVE  IInv'
<1>0. /\ CommandOK
      /\ cmd.pc = "read"
      /\ cmd.job.kind # "none"
      /\ cmd.at = 1
      /\ cmd' = [cmd EXCEPT !.pc = "write", !.read = settings]
      /\ UNCHANGED repo
      /\ UNCHANGED <<settings, tree, agents, claudeMd, plugin, ignore, artifacts>>
  BY CommandFields, StepsAre DEF IInv, CommandOK, ReadSettings, At, Keep, repo
<1>1. "write" \in Steps(cmd.job.kind)
  <2>1. "read" \in Steps(cmd.job.kind)
    BY <1>0, CommandFields
  <2>2. QED
    BY <1>0, <2>1, CommandFields, StepsAre
<1>2. settings \in SUBSET Entries
  BY DEF IInv, FilesOK, Sound
<1>3. /\ cmd'.pc = "write"
      /\ cmd'.job = cmd.job
      /\ cmd'.at = cmd.at
      /\ cmd'.read = settings
      /\ cmd' \in Memory(cmd.job.kind)
  BY <1>0, <1>1, <1>2 DEF CommandOK, Memory
<1>4. FilesOK'
  BY <1>0 DEF IInv, FilesOK
<1>5. CommandOK'
  BY <1>0, <1>3 DEF CommandOK, At, ForClaude, Templating, Removing
<1>6. HooksOK'
  BY <1>0, <1>3 DEF IInv, FilesOK, HooksOK, At, Ended, Templating, Removing
<1>7. SetupOK'
  BY <1>0, <1>3 DEF IInv, SetupOK, At, ForClaude, Templating, Pruned
<1>8. TemplatesOK'
  BY <1>0, <1>3 DEF TemplatesOK, At, Pruned
<1>9. RemovedOK'
  BY <1>0, <1>3 DEF RemovedOK, At, Ended
<1>10. QED
  BY <1>4, <1>5, <1>6, <1>7, <1>8, <1>9 DEF IInv


\* initHooks and runSetupClaude: what was read is written back with the hooks
\* of the profile.
LEMMA InstallHooksKeeps ==
  ASSUME IInv, InstallHooks
  PROVE  /\ IInv'
         /\ OwnHooks(cmd.read) \subseteq OwnHooks(settings')
<1> DEFINE p == cmd.job.profile
           pc == AfterHooks
<1>0. /\ CommandOK
      /\ cmd.pc = "write"
      /\ cmd.job.kind \in {"setup", "hooks"}
      /\ cmd.job.kind = "setup" => ForClaude
      /\ cmd.at = 1
      /\ cmd.job.profile \in 0 .. 2
      /\ cmd' = [cmd EXCEPT !.pc = pc, !.read = {}]
      /\ settings' = IF Needs(cmd.read, p) THEN WithHooks(cmd.read, p) ELSE settings
      /\ UNCHANGED <<tree, agents, claudeMd, plugin, ignore, artifacts>>
  BY CommandFields DEF IInv, CommandOK, InstallHooks, At, Keep
<1>1. /\ pc \in Steps(cmd.job.kind) \cap {"agents", "targets", "ok"}
      /\ pc = "agents" => cmd.job.kind = "setup" /\ cmd.job.templates
      /\ pc = "targets" => ~ cmd.job.templates
      /\ pc = "ok" => cmd.job.kind = "hooks"
  BY <1>0, AfterHooksIs, CommandFields, StepsAre DEF AfterHooks
<1> HIDE DEF pc, p
<1>2. /\ cmd'.pc = pc
      /\ cmd'.job = cmd.job
      /\ cmd'.at = cmd.at
      /\ cmd' \in Memory(cmd.job.kind)
  BY <1>0, <1>1 DEF CommandOK, Memory
<1>3. /\ IsFiniteSet(cmd.read) /\ Sound(cmd.read)
      /\ OwnHooks(cmd.read) \subseteq OwnHooks(settings)
      /\ Installed(cmd.read, p) => Installed(settings, p)
      /\ IsFiniteSet(settings) /\ Sound(settings)
  BY <1>0 DEF IInv, HooksOK, FilesOK, At, p
<1>4. /\ IsFiniteSet(settings') /\ Sound(settings')
      /\ OwnHooks(cmd.read) \subseteq OwnHooks(settings')
      /\ Installed(settings', p)
  <2>1. CASE Needs(cmd.read, p)
    BY <1>0, <1>3, <2>1, WithHooksIs
  <2>2. CASE ~ Needs(cmd.read, p)
    BY <1>0, <1>3, <2>2, NotNeeded
  <2>3. QED
    BY <2>1, <2>2
<1>5. FilesOK'
  BY <1>0, <1>4 DEF IInv, FilesOK
<1>6. CommandOK'
  BY <1>0, <1>1, <1>2 DEF CommandOK, At, ForClaude, Templating, Removing
<1>7. HooksOK'
  BY <1>0, <1>1, <1>2, <1>4 DEF HooksOK, At, Ended, ForClaude, Templating, p
<1>8. SetupOK'
  BY <1>0, <1>1, <1>2 DEF IInv, SetupOK, At, ForClaude, Templating, Pruned
<1>9. TemplatesOK'
  BY <1>0, <1>1, <1>2 DEF TemplatesOK, At, ForClaude, Pruned
<1>10. RemovedOK'
  BY <1>0, <1>2, <1>6, NotUninstalling
<1>11. QED
  BY <1>4, <1>5, <1>6, <1>7, <1>8, <1>9, <1>10 DEF IInv

\* The step of a setup that installs its templates.
Templater(pc, next) ==
  /\ CommandOK
  /\ cmd.pc = pc
  /\ ForClaude
  /\ cmd.job.kind = "setup"
  /\ cmd.job.templates
  /\ cmd.at = 1
  /\ cmd.job.profile \in 0 .. 2
  /\ cmd.job.confirm \in BOOLEAN
  /\ cmd'.pc = next
  /\ cmd'.job = cmd.job
  /\ cmd'.at = 1
  /\ cmd' \in Memory(cmd.job.kind)

\* A step of the template installer that goes on to another.
LEMMA TemplaterIs ==
  ASSUME IInv, NEW pc \in {"agents", "claudemd", "plugin", "guard", "index"}, At(pc),
         NEW next \in {"claudemd", "plugin", "guard", "refused", "install", "targets"},
         Goto(next)
  PROVE  Templater(pc, next)
<1>1. CommandOK /\ cmd.pc = pc /\ cmd' = [cmd EXCEPT !.pc = next]
  BY DEF IInv, At, Goto
<1>2. ForClaude /\ cmd.job.kind = "setup" /\ cmd.job.templates /\ cmd.at = 1
  BY <1>1 DEF CommandOK, ForClaude, Templating
<1>3. next \in Steps(cmd.job.kind)
  BY <1>2, StepsAre
<1>4. QED
  BY <1>1, <1>2, <1>3, Moves, CommandFields DEF Templater

\* AGENTS.md, CLAUDE.md and plugin.json.
LEMMA TemplateTextsKeep ==
  ASSUME IInv, UpdateAgentsMd \/ EnsureClaudeMd \/ WritePlugin
  PROVE  IInv'
<1> DEFINE pc == cmd.pc
           next == CASE At("agents") -> "claudemd"
                     [] At("claudemd") -> "plugin"
                     [] At("plugin") -> "guard"
<1>0. /\ \/ pc = "agents" /\ next = "claudemd" /\ UpdateAgentsMd
         \/ pc = "claudemd" /\ next = "plugin" /\ EnsureClaudeMd
         \/ pc = "plugin" /\ next = "guard" /\ WritePlugin
      /\ At(pc)
      /\ Goto(next)
      /\ UNCHANGED <<settings, tree, ignore, artifacts>>
  <2>1. CASE UpdateAgentsMd
    BY <2>1 DEF UpdateAgentsMd, At, Keep
  <2>2. CASE EnsureClaudeMd
    BY <2>2 DEF EnsureClaudeMd, At, Keep
  <2>3. CASE WritePlugin
    BY <2>3 DEF WritePlugin, At, Keep
  <2>4. QED
    BY <2>1, <2>2, <2>3
<1> HIDE DEF pc, next
<1>1. Templater(pc, next)
  BY <1>0, TemplaterIs
<1>2. /\ agents' \subseteq {"section", "agy"}
      /\ claudeMd' \subseteq {"title", "ref", Own, "named"}
      /\ plugin' \in {"none", "old", "current"}
      /\ "section" \in agents => "section" \in agents'
      /\ {"ref", "named"} \cap claudeMd # {} => {"ref", "named"} \cap claudeMd' # {}
      /\ plugin = "current" => plugin' = "current"
      /\ next = "claudemd" => "section" \in agents'
      /\ next = "plugin" => {"ref", "named"} \cap claudeMd' # {}
      /\ next = "guard" => plugin' = "current"
  <2>1. /\ agents \subseteq {"section", "agy"}
        /\ claudeMd \subseteq {"title", "ref", Own, "named"}
        /\ plugin \in {"none", "old", "current"}
    BY DEF IInv, FilesOK
  <2>2. CASE UpdateAgentsMd /\ next = "claudemd"
    BY <2>1, <2>2 DEF UpdateAgentsMd, Keep
  <2>3. CASE EnsureClaudeMd /\ next = "plugin"
    <3>1. /\ claudeMd' \in {claudeMd \cup {"ref"}, claudeMd, {"title", "ref"}}
          /\ claudeMd' = claudeMd => "named" \in claudeMd \/ "ref" \in claudeMd'
          /\ claudeMd' = {"title", "ref"} => claudeMd = {} \/ "ref" \in claudeMd'
      BY <2>3 DEF EnsureClaudeMd
    <3>2. QED
      BY <2>1, <2>3, <3>1 DEF EnsureClaudeMd, Keep
  <2>4. CASE WritePlugin /\ next = "guard"
    BY <2>1, <2>4 DEF WritePlugin, Keep
  <2>5. QED
    BY <1>0, <2>2, <2>3, <2>4
<1>3. FilesOK'
  BY <1>0, <1>2 DEF IInv, FilesOK
<1>4. /\ pc \in {"agents", "claudemd", "plugin"} /\ next \in {"claudemd", "plugin", "guard"}
      /\ pc = "agents" <=> next = "claudemd"
      /\ pc = "claudemd" <=> next = "plugin"
      /\ pc = "plugin" <=> next = "guard"
  BY <1>0
<1>5. CommandOK'
  BY <1>1, <1>4 DEF Templater, CommandOK, At, ForClaude, Templating, Removing
<1>6. HooksOK'
  BY <1>0, <1>1, <1>4 DEF IInv, Templater, HooksOK, At, Ended, ForClaude, Templating
<1>7. SetupOK'
  BY <1>0, <1>1, <1>2, <1>4 DEF IInv, Templater, SetupOK, At, ForClaude, Templating, Pruned
<1>8. TemplatesOK'
  BY <1>1, <1>4 DEF Templater, TemplatesOK, At, Pruned
<1>9. RemovedOK'
  BY <1>1, <1>5, NotUninstalling DEF Templater
<1>10. QED
  BY <1>3, <1>5, <1>6, <1>7, <1>8, <1>9 DEF IInv

\* installTemplates goes on only when nothing is out of the profile, or when
\* the pruning is confirmed.
LEMMA GuardKeeps ==
  ASSUME IInv, Refuse \/ Agree
  PROVE  IInv'
<1> DEFINE next == IF Refuse THEN "refused" ELSE "install"
<1>0. /\ At("guard")
      /\ Goto(next)
      /\ next \in {"refused", "install"}
      /\ next = "install" => cmd.job.confirm \/ OutOfProfile(cmd.job.profile) = {}
      /\ UNCHANGED <<settings, tree, agents, claudeMd, plugin, ignore, artifacts>>
  BY DEF Refuse, Agree, Keep, repo
<1> HIDE DEF next
<1>1. Templater("guard", next)
  BY <1>0, TemplaterIs
<1>2. FilesOK'
  BY <1>0 DEF IInv, FilesOK
<1>3. CommandOK'
  BY <1>0, <1>1 DEF Templater, CommandOK, At, ForClaude, Templating, Removing
<1>4. HooksOK'
  BY <1>0, <1>1 DEF IInv, Templater, HooksOK, At, Ended, ForClaude, Templating
<1>5. SetupOK'
  BY <1>0, <1>1 DEF IInv, Templater, SetupOK, At, ForClaude, Templating, Pruned
<1>6. TemplatesOK'
  <2>1. next = "install" => cmd'.job.confirm \/ OutOfProfile(cmd.job.profile)' = {}
    BY <1>0, <1>1 DEF Templater, OutOfProfile
  <2>2. QED
    BY <1>0, <1>1, <2>1 DEF Templater, TemplatesOK, At, Pruned
<1>7. RemovedOK'
  BY <1>1, <1>3, NotUninstalling DEF Templater
<1>8. QED
  BY <1>2, <1>3, <1>4, <1>5, <1>6, <1>7 DEF IInv


\* A step of a pass over the six groups.
LEMMA Advances ==
  ASSUME CommandOK, NEW next \in Steps(cmd.job.kind), Advance(next)
  PROVE  /\ cmd'.job = cmd.job
         /\ cmd' \in Memory(cmd.job.kind)
         /\ \/ cmd.at < 6 /\ cmd'.pc = cmd.pc /\ cmd'.at = cmd.at + 1
            \/ cmd.at = 6 /\ cmd'.pc = next /\ cmd'.at = 1
<1>0. cmd \in Memory(cmd.job.kind) /\ cmd.at \in 1 .. 6 /\ Len(GroupOrder) = 6
  BY CommandFields, GroupsAre DEF CommandOK
<1>1. CASE cmd.at < 6
  <2>1. cmd' = [cmd EXCEPT !.at = cmd.at + 1]
    BY <1>0, <1>1 DEF Advance
  <2>2. cmd.at + 1 \in 1 .. Len(GroupOrder)
    BY <1>0, <1>1
  <2>3. QED
    BY <1>0, <1>1, <2>1, <2>2 DEF Memory
<1>2. CASE ~ (cmd.at < 6)
  <2>1. cmd' = [cmd EXCEPT !.pc = next, !.at = 1]
    BY <1>0, <1>2 DEF Advance
  <2>2. 1 \in 1 .. Len(GroupOrder) /\ cmd.at = 6
    BY <1>0, <1>2
  <2>3. QED
    BY <1>0, <2>1, <2>2 DEF Memory
<1>3. QED
  BY <1>1, <1>2

\* A setup that installs or prunes its templates.
LEMMA TemplatingIs ==
  ASSUME IInv, cmd.pc \in {"install", "prune"}
  PROVE  /\ CommandOK
         /\ ForClaude
         /\ cmd.job.kind = "setup"
         /\ cmd.job.templates
         /\ cmd.at \in 1 .. 6
         /\ cmd.job.profile \in 0 .. 2
         /\ cmd.job.confirm \in BOOLEAN
         /\ tree \in [Groups -> SUBSET Files]
         /\ {"install", "prune", "index"} \subseteq Steps(cmd.job.kind)
<1>1. CommandOK /\ ForClaude /\ cmd.job.kind = "setup" /\ cmd.job.templates
  BY DEF IInv, CommandOK, ForClaude, Templating
<1>2. tree \in [Groups -> SUBSET Files]
  BY DEF IInv, FilesOK
<1>3. QED
  BY <1>1, <1>2, CommandFields, StepsAre

\* What the groups' files do not matter to.
LEMMA TreeKeeps ==
  ASSUME IInv, cmd.pc \in {"install", "prune"},
         Advance(IF At("install") THEN "prune" ELSE "index"),
         UNCHANGED <<settings, agents, claudeMd, plugin, ignore, artifacts>>,
         tree' \in [Groups -> SUBSET Files]
  PROVE  FilesOK' /\ CommandOK' /\ HooksOK' /\ SetupOK' /\ RemovedOK'
<1> DEFINE next == IF At("install") THEN "prune" ELSE "index"
<1>0. /\ CommandOK
      /\ ForClaude
      /\ cmd.job.kind = "setup"
      /\ cmd.job.templates
      /\ next \in Steps(cmd.job.kind)
      /\ next \in {"prune", "index"}
      /\ next = "prune" <=> cmd.pc = "install"
      /\ Advance(next)
  BY TemplatingIs DEF At
<1> HIDE DEF next
<1>1. /\ cmd'.job = cmd.job
      /\ cmd' \in Memory(cmd.job.kind)
      /\ cmd'.pc \in {"install", "prune", "index"}
      /\ cmd'.pc = "index" => cmd'.at = 1
  BY <1>0, Advances
<1>2. FilesOK'
  BY DEF IInv, FilesOK
<1>3. CommandOK'
  BY <1>0, <1>1 DEF CommandOK, At, ForClaude, Templating, Removing
<1>4. HooksOK'
  BY <1>0, <1>1 DEF IInv, HooksOK, At, Ended, ForClaude, Templating
<1>5. SetupOK'
  BY <1>0, <1>1 DEF IInv, SetupOK, At, ForClaude, Templating, Pruned
<1>6. QED
  BY <1>0, <1>1, <1>2, <1>3, <1>4, <1>5, NotUninstalling

\* installTemplateGroups: a group that was installed is fresh.
LEMMA InstallGroupKeeps ==
  ASSUME IInv, InstallGroup
  PROVE  IInv'
<1> DEFINE g == GroupOrder[cmd.at]
           p == cmd.job.profile
<1>0. /\ CommandOK /\ cmd.pc = "install" /\ ForClaude /\ cmd.job.kind = "setup"
      /\ cmd.at \in 1 .. 6 /\ p \in 0 .. 2 /\ cmd.job.confirm \in BOOLEAN
      /\ tree \in [Groups -> SUBSET Files]
      /\ "prune" \in Steps(cmd.job.kind)
      /\ Advance("prune")
      /\ UNCHANGED <<settings, agents, claudeMd, plugin, ignore, artifacts>>
  BY TemplatingIs DEF InstallGroup, At, Keep
<1>1. tree' = IF GroupRank(g) <= p THEN [tree EXCEPT ![g] = Reconciled(tree[g])] ELSE tree
  BY DEF InstallGroup
<1>2. g \in Groups
  BY <1>0, GroupsAre
<1>3. Reconciled(tree[g]) \in SUBSET Files /\ Fresh(Reconciled(tree[g]))
  BY <1>0, <1>2 DEF Reconciled, Fresh, Files
<1>4. /\ tree' \in [Groups -> SUBSET Files]
      /\ GroupRank(g) <= p => Fresh(tree'[g])
      /\ \A k \in Groups : ~ (GroupRank(k) <= p) => tree'[k] = tree[k]
      /\ \A k \in Groups : Fresh(tree[k]) => Fresh(tree'[k])
  BY <1>0, <1>1, <1>2, <1>3
<1> HIDE DEF g
<1>5. FilesOK' /\ CommandOK' /\ HooksOK' /\ SetupOK' /\ RemovedOK'
  BY <1>0, <1>4, TreeKeeps DEF At
<1>6. /\ cmd'.job = cmd.job
      /\ \/ cmd.at < 6 /\ cmd'.pc = cmd.pc /\ cmd'.at = cmd.at + 1
         \/ cmd.at = 6 /\ cmd'.pc = "prune" /\ cmd'.at = 1
  BY <1>0, Advances
<1>7. \A i \in 1 .. cmd.at : GroupRank(GroupOrder[i]) <= p => Fresh(tree'[GroupOrder[i]])
  <2> SUFFICES ASSUME NEW i \in 1 .. cmd.at, GroupRank(GroupOrder[i]) <= p
               PROVE  Fresh(tree'[GroupOrder[i]])
    OBVIOUS
  <2>1. CASE i = cmd.at
    BY <1>4, <2>1 DEF g
  <2>2. CASE i # cmd.at
    <3>1. i \in 1 .. cmd.at - 1 /\ i \in 1 .. 6
      BY <1>0, <2>2
    <3>2. Fresh(tree[GroupOrder[i]]) /\ GroupOrder[i] \in Groups
      BY <1>0, <3>1, GroupsAre DEF IInv, TemplatesOK, At
    <3>3. QED
      BY <1>4, <3>2
  <2>3. QED
    BY <2>1, <2>2
<1>8. cmd'.pc = "prune" => \A k \in Groups : GroupRank(k) <= p => Fresh(tree'[k])
  BY <1>0, <1>6, <1>7, GroupsAre
<1>9. ~ cmd.job.confirm => OutOfProfile(p)' = {}
  <2>1. ~ cmd.job.confirm => \A k \in Groups : ~ (GroupRank(k) > p /\ tree[k] # {})
    BY <1>0 DEF IInv, TemplatesOK, At, OutOfProfile
  <2>2. \A k \in Groups : GroupRank(k) \in Nat
    BY DEF GroupRank
  <2>3. ~ cmd.job.confirm => \A k \in Groups : ~ (GroupRank(k) > p /\ tree'[k] # {})
    BY <1>0, <1>4, <2>1, <2>2
  <2>4. p' = p
    BY <1>6
  <2>5. QED
    BY <2>3, <2>4 DEF OutOfProfile
<1>10. TemplatesOK'
  <2>1. CASE cmd'.pc = "install"
    <3>1. cmd'.at - 1 = cmd.at
      BY <1>0, <1>6, <2>1
    <3>2. QED
      BY <1>6, <1>7, <1>9, <2>1, <3>1 DEF TemplatesOK, At, Pruned
  <2>2. CASE cmd'.pc = "prune"
    <3>1. cmd'.at = 1
      BY <1>0, <1>6, <2>2
    <3>2. QED
      BY <1>6, <1>8, <1>9, <2>2, <3>1 DEF TemplatesOK, At, Pruned
  <2>3. QED
    BY <1>0, <1>6, <2>1, <2>2
<1>11. QED
  BY <1>5, <1>10 DEF IInv


\* PruneForProfile: a group that was pruned holds what the profile expects.
LEMMA PruneGroupKeeps ==
  ASSUME IInv, PruneGroup
  PROVE  IInv'
<1> DEFINE g == PruneOrder[cmd.at]
           p == cmd.job.profile
<1>0. /\ CommandOK /\ cmd.pc = "prune" /\ ForClaude /\ cmd.job.kind = "setup"
      /\ cmd.job.templates
      /\ cmd.at \in 1 .. 6 /\ p \in 0 .. 2 /\ cmd.job.confirm \in BOOLEAN
      /\ tree \in [Groups -> SUBSET Files]
      /\ "index" \in Steps(cmd.job.kind)
      /\ Advance("index")
      /\ UNCHANGED <<settings, agents, claudeMd, plugin, ignore, artifacts>>
  BY TemplatingIs DEF PruneGroup, At, Keep
<1>1. tree' = [tree EXCEPT ![g] = tree[g] \cap Expected(g, p)]
  BY DEF PruneGroup
<1>2. g \in Groups
  BY <1>0, GroupsAre
<1>3. /\ tree' \in [Groups -> SUBSET Files]
      /\ tree'[g] \subseteq Expected(g, p)
      /\ \A k \in Groups : tree'[k] \subseteq tree[k]
      /\ \A k \in Groups : k # g => tree'[k] = tree[k]
      /\ GroupRank(g) <= p /\ Fresh(tree[g]) => Fresh(tree'[g])
  BY <1>0, <1>1, <1>2 DEF Fresh, Expected
<1> HIDE DEF g
<1>4. FilesOK' /\ CommandOK' /\ HooksOK' /\ SetupOK' /\ RemovedOK'
  BY <1>0, <1>3, TreeKeeps DEF At
<1>5. /\ cmd'.job = cmd.job
      /\ \/ cmd.at < 6 /\ cmd'.pc = cmd.pc /\ cmd'.at = cmd.at + 1
         \/ cmd.at = 6 /\ cmd'.pc = "index" /\ cmd'.at = 1
  BY <1>0, Advances
<1>6. \A k \in Groups : GroupRank(k) <= p => Fresh(tree'[k])
  <2>1. \A k \in Groups : GroupRank(k) <= p => Fresh(tree[k])
    BY <1>0 DEF IInv, TemplatesOK, At
  <2>2. QED
    BY <1>2, <1>3, <2>1
<1>7. \A i \in 1 .. cmd.at : tree'[PruneOrder[i]] \subseteq Expected(PruneOrder[i], p)
  <2> SUFFICES ASSUME NEW i \in 1 .. cmd.at
               PROVE  tree'[PruneOrder[i]] \subseteq Expected(PruneOrder[i], p)
    OBVIOUS
  <2>1. CASE i = cmd.at
    BY <1>3, <2>1 DEF g
  <2>2. CASE i # cmd.at
    <3>1. i \in 1 .. cmd.at - 1 /\ i \in 1 .. 6
      BY <1>0, <2>2
    <3>2. /\ tree[PruneOrder[i]] \subseteq Expected(PruneOrder[i], p)
          /\ PruneOrder[i] \in Groups
      BY <1>0, <3>1, GroupsAre DEF IInv, TemplatesOK, At
    <3>3. QED
      BY <1>3, <3>2
  <2>3. QED
    BY <2>1, <2>2
<1>8. ~ cmd.job.confirm => OutOfProfile(p)' = {}
  <2>1. ~ cmd.job.confirm => \A k \in Groups : ~ (GroupRank(k) > p /\ tree[k] # {})
    BY <1>0 DEF IInv, TemplatesOK, At, OutOfProfile
  <2>2. ~ cmd.job.confirm => \A k \in Groups : ~ (GroupRank(k) > p /\ tree'[k] # {})
    BY <1>3, <2>1
  <2>3. p' = p
    BY <1>5
  <2>4. QED
    BY <2>2, <2>3 DEF OutOfProfile
<1>9. cmd'.pc = "index" => TemplatesAsAsked(p)'
  <2> SUFFICES ASSUME cmd.at = 6, NEW k \in Groups
               PROVE  tree'[k] \ {"index"} = IF GroupRank(k) <= p THEN {"current"} ELSE {}
    <3>1. p' = p
      BY <1>5
    <3>2. QED
      BY <1>0, <1>5, <3>1 DEF TemplatesAsAsked
  <2>1. tree'[k] \subseteq Expected(k, p)
    BY <1>7, GroupsAre
  <2>2. GroupRank(k) <= p => "current" \in tree'[k]
    BY <1>6 DEF Fresh
  <2>3. QED
    BY <2>1, <2>2 DEF Expected
<1>10. TemplatesOK'
  <2>1. CASE cmd'.pc = "prune"
    <3>1. cmd'.at - 1 = cmd.at
      BY <1>0, <1>5, <2>1
    <3>2. QED
      BY <1>5, <1>6, <1>7, <1>8, <2>1, <3>1 DEF TemplatesOK, At, Pruned
  <2>2. CASE cmd'.pc = "index"
    BY <1>5, <1>9, <2>2 DEF TemplatesOK, At
  <2>3. QED
    BY <1>0, <1>5, <2>1, <2>2
<1>11. QED
  BY <1>4, <1>10 DEF IInv

\* CompileSkillsIndex: the index is not a template of a group.
LEMMA CompileSkillsIndexKeeps ==
  ASSUME IInv, CompileSkillsIndex
  PROVE  IInv'
<1>0. /\ At("index")
      /\ Goto("targets")
      /\ UNCHANGED <<settings, agents, claudeMd, plugin, ignore, artifacts>>
      /\ tree \in [Groups -> SUBSET Files]
      /\ tree' = IF cmd.job.profile >= 1
                   THEN [tree EXCEPT !["skills"] = tree["skills"] \cup {"index"}]
                   ELSE tree
  BY DEF CompileSkillsIndex, Keep, IInv, FilesOK
<1>1. Templater("index", "targets")
  BY <1>0, TemplaterIs
<1>2. /\ tree' \in [Groups -> SUBSET Files]
      /\ \A g \in Groups : tree'[g] \ {"index"} = tree[g] \ {"index"}
  BY <1>0, GroupsAre DEF Files
<1>3. FilesOK'
  BY <1>0, <1>2 DEF IInv, FilesOK
<1>4. CommandOK'
  BY <1>0, <1>1 DEF Templater, CommandOK, At, ForClaude, Templating, Removing
<1>5. HooksOK'
  BY <1>0, <1>1 DEF IInv, Templater, HooksOK, At, Ended, ForClaude, Templating
<1>6. SetupOK'
  BY <1>0, <1>1 DEF IInv, Templater, SetupOK, At, ForClaude, Templating, Pruned
<1>7. TemplatesOK'
  <2>1. TemplatesAsAsked(cmd.job.profile)
    BY <1>1 DEF IInv, Templater, TemplatesOK, Pruned
  <2>2. \A g \in Groups : tree'[g] \ {"index"} =
          IF GroupRank(g) <= cmd.job.profile THEN {"current"} ELSE {}
    BY <1>2, <2>1 DEF TemplatesAsAsked
  <2>3. QED
    BY <1>1, <2>2 DEF Templater, TemplatesOK, TemplatesAsAsked, At, Pruned
<1>8. RemovedOK'
  BY <1>1, <1>4, NotUninstalling DEF Templater
<1>9. QED
  BY <1>3, <1>4, <1>5, <1>6, <1>7, <1>8 DEF IInv

\* installHarnessTargets.
LEMMA InstallTargetKeeps ==
  ASSUME IInv, NEW t \in {"codex", "agy", "goose"}, InstallTarget(t)
  PROVE  IInv'
<1>0. /\ CommandOK
      /\ cmd.pc = "targets"
      /\ cmd.job.kind = "setup"
      /\ cmd.at = 1
      /\ cmd' = [cmd EXCEPT !.todo = cmd.todo \ {t}]
      /\ UNCHANGED <<settings, tree, claudeMd, plugin, ignore, artifacts>>
      /\ agents' \in {agents, agents \cup {"section"}, agents \cup {"agy"}}
  <2>1. CommandOK /\ cmd.pc = "targets"
    BY DEF IInv, InstallTarget, At
  <2>2. cmd.job.kind = "setup"
    BY <2>1, CommandFields, StepsAre
  <2>3. QED
    BY <2>1, <2>2 DEF CommandOK, InstallTarget, Keep
<1>1. /\ cmd'.pc = cmd.pc
      /\ cmd'.job = cmd.job
      /\ cmd'.at = cmd.at
      /\ cmd' \in Memory(cmd.job.kind)
  <2>1. cmd.todo \ {t} \in SUBSET Targets
    BY <1>0, CommandFields
  <2>2. QED
    BY <1>0, <2>1 DEF CommandOK, Memory
<1>2. FilesOK'
  BY <1>0 DEF IInv, FilesOK
<1>3. CommandOK'
  BY <1>0, <1>1 DEF CommandOK, At, ForClaude, Templating, Removing
<1>4. HooksOK'
  BY <1>0, <1>1 DEF IInv, HooksOK, At, Ended, ForClaude, Templating
<1>5. SetupOK'
  BY <1>0, <1>1 DEF IInv, SetupOK, At, ForClaude, Templating, Pruned
<1>6. TemplatesOK'
  BY <1>0, <1>1 DEF IInv, TemplatesOK, TemplatesAsAsked, At, ForClaude, Pruned
<1>7. RemovedOK'
  BY <1>0, <1>1, <1>3, NotUninstalling
<1>8. QED
  BY <1>2, <1>3, <1>4, <1>5, <1>6, <1>7 DEF IInv

\* A setup whose last target is installed has ended.
LEMMA TargetsDoneKeeps ==
  ASSUME IInv, TargetsDone
  PROVE  IInv'
<1>0. /\ CommandOK
      /\ cmd.pc = "targets"
      /\ cmd.job.kind = "setup"
      /\ cmd.at = 1
      /\ cmd' = [cmd EXCEPT !.pc = "ok"]
      /\ UNCHANGED <<settings, tree, agents, claudeMd, plugin, ignore, artifacts>>
  <2>1. CommandOK /\ cmd.pc = "targets"
    BY DEF IInv, TargetsDone, At
  <2>2. cmd.job.kind = "setup"
    BY <2>1, CommandFields, StepsAre
  <2>3. QED
    BY <2>1, <2>2 DEF CommandOK, TargetsDone, Goto, Keep, repo
<1>1. /\ cmd'.pc = "ok"
      /\ cmd'.job = cmd.job
      /\ cmd'.at = cmd.at
      /\ cmd' \in Memory(cmd.job.kind)
  BY <1>0, StepsAre, Moves
<1>2. FilesOK'
  BY <1>0 DEF IInv, FilesOK
<1>3. CommandOK'
  BY <1>0, <1>1 DEF CommandOK, At, ForClaude, Templating, Removing
<1>4. HooksOK'
  BY <1>0, <1>1 DEF IInv, HooksOK, At, Ended, ForClaude, Templating
<1>5. SetupOK'
  BY <1>0, <1>1 DEF IInv, SetupOK, At, ForClaude, Templating, Pruned
<1>6. TemplatesOK'
  BY <1>0, <1>1 DEF IInv, TemplatesOK, TemplatesAsAsked, At, ForClaude, Pruned
<1>7. RemovedOK'
  BY <1>0, <1>1, <1>3, NotUninstalling
<1>8. QED
  BY <1>2, <1>3, <1>4, <1>5, <1>6, <1>7 DEF IInv


-----------------------------------------------------------------------------
(* The steps of an uninstallation.                                           *)

\* The plan is carried out, given up, or empty.
LEMMA PlanKeeps ==
  ASSUME IInv, Plan
  PROVE  IInv'
<1>0. /\ CommandOK
      /\ cmd.pc = "plan"
      /\ cmd.job.kind = "uninstall"
      /\ cmd.at = 1
      /\ UNCHANGED repo
      /\ UNCHANGED <<settings, tree, agents, claudeMd, plugin, ignore, artifacts>>
  <2>1. CommandOK /\ cmd.pc = "plan"
    BY DEF IInv, Plan, At
  <2>2. cmd.job.kind = "uninstall"
    BY <2>1, CommandFields, StepsAre
  <2>3. QED
    BY <2>1, <2>2 DEF CommandOK, Plan, Keep, repo
<1>1. CASE cmd' = Idle
  <2>1. FilesOK'
    BY <1>0 DEF IInv, FilesOK
  <2>2. QED
    BY <1>1, <2>1, IdleKeeps
<1>2. ASSUME NEW pc \in {"read", "nothing"}, Goto(pc)
      PROVE  IInv'
  <2>1. /\ cmd'.pc = pc
        /\ cmd'.job = cmd.job
        /\ cmd'.at = cmd.at
        /\ cmd' \in Memory(cmd.job.kind)
    BY <1>0, <1>2, StepsAre, Moves DEF Goto
  <2>2. FilesOK'
    BY <1>0 DEF IInv, FilesOK
  <2>3. CommandOK'
    BY <1>0, <2>1 DEF CommandOK, At, ForClaude, Templating, Removing
  <2>4. HooksOK'
    BY <1>0, <2>1 DEF HooksOK, At, Ended, ForClaude, Removing
  <2>5. SetupOK' /\ TemplatesOK'
    BY <1>0, <2>1, <2>3, NotSettingUp
  <2>6. RemovedOK'
    BY <2>1 DEF RemovedOK, At, Ended
  <2>7. QED
    BY <2>2, <2>3, <2>4, <2>5, <2>6 DEF IInv
<1>3. QED
  BY <1>1, <1>2 DEF Plan

\* uninstallHooks: what was read is written back without the hooks of ours;
\* nothing is written when there were none, and then none is there still.
LEMMA RemoveHooksKeeps ==
  ASSUME IInv, RemoveHooks
  PROVE  IInv'
<1> DEFINE pc == AfterHooks
           w == WithoutHooks(cmd.read)
<1>0. /\ CommandOK
      /\ cmd.pc = "write"
      /\ cmd.job.kind \in {"unhook", "uninstall"}
      /\ cmd.job.mode \in 0 .. 2
      /\ cmd.at = 1
      /\ cmd' = [cmd EXCEPT !.pc = pc, !.read = {}]
      /\ settings' = IF w # cmd.read THEN w ELSE settings
      /\ UNCHANGED <<tree, agents, claudeMd, plugin, ignore, artifacts>>
  BY CommandFields DEF IInv, CommandOK, RemoveHooks, At, Keep
<1>1. /\ pc \in Steps(cmd.job.kind) \cap {"remove", "ok"}
      /\ pc = "remove" <=> cmd.job.kind = "uninstall" /\ cmd.job.mode > 0
  BY <1>0, AfterHooksIs
<1> HIDE DEF pc
<1>2. /\ cmd'.pc = pc
      /\ cmd'.job = cmd.job
      /\ cmd'.at = cmd.at
      /\ cmd' \in Memory(cmd.job.kind)
  BY <1>0, <1>1 DEF CommandOK, Memory
<1>3. /\ IsFiniteSet(cmd.read) /\ Sound(cmd.read)
      /\ Unhooked(cmd.read) => Unhooked(settings)
      /\ IsFiniteSet(settings) /\ Sound(settings)
  BY <1>0 DEF IInv, HooksOK, FilesOK, At
<1>4. IsFiniteSet(w) /\ Sound(w) /\ Unhooked(w)
  BY <1>3, WithoutHooksIs
<1> HIDE DEF w
<1>5. IsFiniteSet(settings') /\ Sound(settings') /\ Unhooked(settings')
  <2>1. CASE w # cmd.read
    BY <1>0, <1>4, <2>1
  <2>2. CASE w = cmd.read
    BY <1>0, <1>3, <1>4, <2>2
  <2>3. QED
    BY <2>1, <2>2
<1>6. FilesOK'
  BY <1>0, <1>5 DEF IInv, FilesOK
<1>7. CommandOK'
  <2>1. TemplateDirs = <<{"agents"}, {"commands"}, {"skills", "roles"}, {"docs", "research"}>>
    BY DEF TemplateDirs
  <2>2. Len(TemplateDirs) = 4
    BY <2>1
  <2>3. QED
    BY <1>0, <1>1, <1>2, <2>2 DEF CommandOK, At, ForClaude, Templating, Removing
<1>8. HooksOK'
  BY <1>0, <1>1, <1>2, <1>5 DEF HooksOK, At, Ended, ForClaude, Unhooked
<1>9. SetupOK' /\ TemplatesOK'
  BY <1>0, <1>2, <1>7, NotSettingUp
<1>10. RemovedOK'
  BY <1>0, <1>1, <1>2 DEF RemovedOK, At, Ended
<1>11. QED
  BY <1>6, <1>7, <1>8, <1>9, <1>10 DEF IInv

\* A step of an uninstallation that removes files, and what it says of them.
Remover(pc) ==
  /\ CommandOK
  /\ cmd.pc = pc
  /\ cmd.job.kind = "uninstall"
  /\ cmd.job.mode \in 1 .. 2
  /\ cmd.at \in 1 .. 6
  /\ Unhooked(settings)
  /\ Steps(cmd.job.kind) = Steps("uninstall")

\* A step of an uninstall goes on to the next that it was asked for.
LEMMA RemoverIs ==
  ASSUME IInv, NEW pc \in Removing, At(pc)
  PROVE  Remover(pc)
<1>1. CommandOK /\ cmd.pc = pc
  BY DEF IInv, At
<1>2. cmd.job.kind = "uninstall"
  BY <1>1, CommandFields, StepsAre DEF Removing
<1>3. cmd.job.mode \in 1 .. 2
  BY <1>1, <1>2, CommandFields DEF CommandOK
<1>4. Unhooked(settings)
  BY <1>1, <1>2 DEF IInv, HooksOK
<1>5. QED
  BY <1>1, <1>2, <1>3, <1>4, CommandFields DEF Remover

\* The files whose marks an uninstallation removes.
LEMMA MarkersAre ==
  /\ MarkerFiles = <<"AGENTS.md", "CLAUDE.md", "root", "claude">>
  /\ Len(MarkerFiles) = 4
  /\ ToSet(MarkerFiles) = {"AGENTS.md", "CLAUDE.md", "root", "claude"}
  /\ \A f \in ToSet(MarkerFiles) : \E i \in 1 .. 4 : MarkerFiles[i] = f
  /\ \A i \in 1 .. 4 : MarkerFiles[i] \in ToSet(MarkerFiles)
<1>1. MarkerFiles = <<"AGENTS.md", "CLAUDE.md", "root", "claude">>
  BY DEF MarkerFiles
<1>2. Len(MarkerFiles) = 4 /\ DOMAIN MarkerFiles = 1 .. 4
  BY <1>1
<1>3. /\ MarkerFiles[1] = "AGENTS.md" /\ MarkerFiles[2] = "CLAUDE.md"
      /\ MarkerFiles[3] = "root" /\ MarkerFiles[4] = "claude"
  BY <1>1
<1>4. \A i \in 1 .. 4 : i = 1 \/ i = 2 \/ i = 3 \/ i = 4
  OBVIOUS
<1>5. ToSet(MarkerFiles) = {MarkerFiles[i] : i \in 1 .. 4}
  BY <1>2 DEF ToSet
<1>6. ToSet(MarkerFiles) = {"AGENTS.md", "CLAUDE.md", "root", "claude"}
  BY <1>3, <1>4, <1>5
<1>7. QED
  BY <1>1, <1>2, <1>3, <1>5, <1>6

LEMMA IgnoreMarks ==
  ASSUME ignore \in [IgnoreFiles -> Seq(Lines)]
  PROVE  \A f \in IgnoreFiles : Mark(ignore[f]) \in Nat
<1>1. \A s \in Seq(Lines) : Mark(s) \in 0 .. Len(s) /\ Len(s) \in Nat
  BY MarkIs, LenProperties
<1>2. QED
  BY <1>1

\* What a removal leaves to be shown: that what has been removed is away.
LEMMA RemovalKeeps ==
  ASSUME Remover(cmd.pc), NEW pc \in Removing \cup {"ok"}, cmd'.pc = pc,
         cmd'.job = cmd.job, cmd' \in Memory(cmd.job.kind),
         pc \in {"remove", "strip"} => cmd'.at \in 1 .. 4,
         pc \notin {"remove", "strip"} => cmd'.at = 1,
         pc \in {"runtime", "strip"} => cmd.job.mode > 1,
         settings' = settings, FilesOK', RemovedOK'
  PROVE  IInv'
<1>1. CommandOK'
  <2>1. TemplateDirs = <<{"agents"}, {"commands"}, {"skills", "roles"}, {"docs", "research"}>>
    BY DEF TemplateDirs
  <2>2. Len(TemplateDirs) = 4
    BY <2>1
  <2>3. QED
    BY <2>2, MarkersAre DEF Remover, CommandOK, At, ForClaude, Templating, Removing
<1>2. HooksOK'
  BY DEF Remover, HooksOK, At, Ended, ForClaude, Removing, Unhooked
<1>3. SetupOK' /\ TemplatesOK'
  BY <1>1, NotSettingUp DEF Remover
<1>4. QED
  BY <1>1, <1>2, <1>3 DEF IInv

\* Every group is in one of the directories.
LEMMA DirsAre ==
  /\ Len(TemplateDirs) = 4
  /\ \A g \in Groups : \E i \in 1 .. 4 : g \in TemplateDirs[i]
  /\ \A i \in 1 .. 4 : TemplateDirs[i] \subseteq Groups
<1>1. /\ Len(TemplateDirs) = 4
      /\ TemplateDirs[1] = {"agents"} /\ TemplateDirs[2] = {"commands"}
      /\ TemplateDirs[3] = {"skills", "roles"} /\ TemplateDirs[4] = {"docs", "research"}
  BY DEF TemplateDirs
<1>2. \A i \in 1 .. 4 : i = 1 \/ i = 2 \/ i = 3 \/ i = 4
  OBVIOUS
<1>3. \A g \in Groups : \E i \in 1 .. 4 : g \in TemplateDirs[i]
  BY <1>1, GroupsAre
<1>4. \A i \in 1 .. 4 : TemplateDirs[i] \subseteq Groups
  BY <1>1, <1>2, GroupsAre
<1>5. QED
  BY <1>1, <1>3, <1>4

\* An uninstall leaves no file of a template group.
LEMMA RemoveDirKeeps ==
  ASSUME IInv, RemoveDir
  PROVE  IInv'
<1>1. Remover("remove") /\ cmd.at \in 1 .. 4 /\ cmd \in Memory(cmd.job.kind)
  <2>1. "remove" \in Removing /\ At("remove")
    BY DEF RemoveDir, Removing
  <2>2. Remover("remove") /\ cmd.at <= Len(TemplateDirs)
    BY <2>1, RemoverIs DEF IInv, CommandOK
  <2>3. QED
    BY <2>2, DirsAre DEF Remover, CommandOK
<1>2. /\ cmd.pc = "remove"
      /\ tree \in [Groups -> SUBSET Files]
      /\ tree' = [g \in Groups |-> IF g \in TemplateDirs[cmd.at] THEN {} ELSE tree[g]]
      /\ UNCHANGED <<settings, agents, claudeMd, plugin, ignore, artifacts>>
      /\ cmd' = IF cmd.at < 4 THEN [cmd EXCEPT !.at = cmd.at + 1]
                ELSE [cmd EXCEPT !.pc = "unplug", !.at = 1]
  BY DirsAre DEF RemoveDir, At, Keep, IInv, FilesOK
<1>3. /\ tree' \in [Groups -> SUBSET Files]
      /\ \A g \in Groups : tree[g] = {} => tree'[g] = {}
      /\ \A g \in TemplateDirs[cmd.at] : tree'[g] = {}
  BY <1>1, <1>2, DirsAre
<1>4. FilesOK'
  BY <1>2, <1>3 DEF IInv, FilesOK
<1>5. \A i \in 1 .. cmd.at : \A g \in TemplateDirs[i] : tree'[g] = {}
  <2> SUFFICES ASSUME NEW i \in 1 .. cmd.at, NEW g \in TemplateDirs[i] PROVE tree'[g] = {}
    OBVIOUS
  <2>1. CASE i = cmd.at
    BY <1>3, <2>1
  <2>2. CASE i # cmd.at
    <3>1. i \in 1 .. cmd.at - 1 /\ i \in 1 .. 4
      BY <1>1, <2>2
    <3>2. tree[g] = {} /\ g \in Groups
      BY <1>2, <3>1, DirsAre DEF IInv, RemovedOK, At
    <3>3. QED
      BY <1>3, <3>2
  <2>3. QED
    BY <2>1, <2>2
<1>6. CASE cmd.at < 4
  <2>1. /\ cmd'.pc = "remove"
        /\ cmd'.job = cmd.job
        /\ cmd'.at = cmd.at + 1
        /\ cmd'.at \in 1 .. 4
        /\ cmd' \in Memory(cmd.job.kind)
    <3>1. cmd.at + 1 \in 1 .. Len(GroupOrder)
      BY <1>1, <1>6, GroupsAre
    <3>2. QED
      BY <1>1, <1>2, <1>6, <3>1 DEF Memory
  <2>2. cmd'.at - 1 = cmd.at
    BY <1>1, <2>1
  <2>3. RemovedOK'
    BY <1>5, <2>1, <2>2 DEF RemovedOK, At, Ended
  <2>4. "remove" \in Removing \cup {"ok"}
    BY DEF Removing
  <2>5. QED
    BY <1>1, <1>2, <1>4, <2>1, <2>3, <2>4, RemovalKeeps
<1>7. CASE ~ (cmd.at < 4)
  <2>1. /\ cmd'.pc = "unplug"
        /\ cmd'.job = cmd.job
        /\ cmd'.at = 1
        /\ cmd' \in Memory(cmd.job.kind)
    <3>1. "unplug" \in Steps(cmd.job.kind) /\ 1 \in 1 .. Len(GroupOrder)
      BY <1>1, StepsAre, GroupsAre DEF Remover
    <3>2. QED
      BY <1>1, <1>2, <1>7, <3>1 DEF Memory
  <2>2. \A g \in Groups : tree'[g] = {}
    BY <1>1, <1>5, <1>7, DirsAre
  <2>3. RemovedOK'
    BY <2>1, <2>2 DEF RemovedOK, At, Ended
  <2>4. "unplug" \in Removing \cup {"ok"}
    BY DEF Removing
  <2>5. QED
    BY <1>1, <1>2, <1>4, <2>1, <2>3, <2>4, RemovalKeeps
<1>8. QED
  BY <1>6, <1>7


\* An uninstall leaves no plugin.json.
LEMMA RemovePluginKeeps ==
  ASSUME IInv, RemovePlugin
  PROVE  IInv'
<1> DEFINE pc == IF cmd.job.mode > 1 THEN "runtime" ELSE "ok"
<1>1. Remover("unplug") /\ cmd.pc = "unplug"
  <2>1. "unplug" \in Removing /\ At("unplug")
    BY DEF RemovePlugin, Removing
  <2>2. QED
    BY <2>1, RemoverIs DEF At
<1>2. /\ plugin' = "none"
      /\ cmd' = [cmd EXCEPT !.pc = pc]
      /\ UNCHANGED <<settings, tree, agents, claudeMd, ignore, artifacts>>
      /\ cmd.at = 1
      /\ \A g \in Groups : tree[g] = {}
  BY <1>1 DEF RemovePlugin, Goto, Keep, IInv, CommandOK, RemovedOK
<1>3. /\ pc \in {"runtime", "ok"}
      /\ pc = "runtime" <=> cmd.job.mode > 1
      /\ pc \in Steps(cmd.job.kind)
      /\ pc \in Removing \cup {"ok"}
  BY <1>1, StepsAre DEF Remover, Removing
<1> HIDE DEF pc
<1>4. /\ cmd'.pc = pc
      /\ cmd'.job = cmd.job
      /\ cmd'.at = 1
      /\ cmd' \in Memory(cmd.job.kind)
  BY <1>1, <1>2, <1>3, Moves DEF Remover
<1>5. FilesOK'
  BY <1>2 DEF IInv, FilesOK
<1>6. RemovedOK'
  BY <1>1, <1>2, <1>3, <1>4 DEF Remover, RemovedOK, At, Ended
<1>7. QED
  BY <1>1, <1>2, <1>3, <1>4, <1>5, <1>6, RemovalKeeps

\* An uninstall leaves no state.
LEMMA RemoveRuntimeKeeps ==
  ASSUME IInv, RemoveRuntime
  PROVE  IInv'
<1>1. Remover("runtime") /\ cmd.pc = "runtime"
  <2>1. "runtime" \in Removing /\ At("runtime")
    BY DEF RemoveRuntime, Removing
  <2>2. QED
    BY <2>1, RemoverIs DEF At
<1>2. /\ artifacts' = artifacts \ {"dir", "moved"}
      /\ cmd' = [cmd EXCEPT !.pc = "strip"]
      /\ UNCHANGED <<settings, tree, agents, claudeMd, plugin, ignore>>
      /\ cmd.at = 1
      /\ cmd.job.mode > 1
      /\ plugin = "none"
      /\ \A g \in Groups : tree[g] = {}
  BY <1>1 DEF RemoveRuntime, Goto, Keep, IInv, CommandOK, RemovedOK
<1>3. "strip" \in Steps(cmd.job.kind) /\ "strip" \in Removing \cup {"ok"}
  BY <1>1, StepsAre DEF Remover, Removing
<1>4. /\ cmd'.pc = "strip"
      /\ cmd'.job = cmd.job
      /\ cmd'.at = 1
      /\ cmd' \in Memory(cmd.job.kind)
  BY <1>1, <1>2, <1>3, Moves DEF Remover
<1>5. FilesOK'
  BY <1>2 DEF IInv, FilesOK
<1>6. RemovedOK'
  BY <1>2, <1>4 DEF RemovedOK, At, Ended
<1>7. QED
  BY <1>1, <1>2, <1>3, <1>4, <1>5, <1>6, RemovalKeeps

\* An uninstall leaves no mark in a shared file: not in this one, and not in
\* those before it.
LEMMA StripMarkersKeeps ==
  ASSUME IInv, StripMarkers
  PROVE  IInv'
<1>1. Remover("strip") /\ cmd.pc = "strip"
  <2>1. "strip" \in Removing /\ At("strip")
    BY DEF StripMarkers, Removing
  <2>2. QED
    BY <2>1, RemoverIs DEF At
<1> DEFINE file == MarkerFiles[cmd.at]
<1>2. /\ agents' = IF file = "AGENTS.md" THEN agents \ {"section", "agy"} ELSE agents
      /\ claudeMd' = IF file = "CLAUDE.md" THEN claudeMd \ {"ref"} ELSE claudeMd
      /\ ignore' = [f \in IgnoreFiles |-> IF f = file THEN NotIgnoring(ignore[f])
                                                     ELSE ignore[f]]
      /\ cmd' = IF cmd.at < 4 THEN [cmd EXCEPT !.at = cmd.at + 1]
                ELSE [cmd EXCEPT !.pc = "ok", !.at = 1]
      /\ UNCHANGED <<settings, tree, plugin, artifacts>>
      /\ cmd.at \in 1 .. 4
      /\ cmd.job.mode > 1
      /\ plugin = "none"
      /\ {"dir", "moved"} \cap artifacts = {}
      /\ \A i \in 1 .. cmd.at - 1 : ~ Marked(MarkerFiles[i])
      /\ \A g \in Groups : tree[g] = {}
  BY <1>1, MarkersAre, CommandFields DEF StripMarkers, Keep, IInv, CommandOK, RemovedOK, At
<1> HIDE DEF file
<1>3. /\ {"ok", "strip"} \subseteq Steps(cmd.job.kind) /\ "strip" \in Removing
      /\ "ok" \notin Removing /\ "strip" # "ok"
  BY <1>1, StepsAre DEF Remover, Removing
<1> DEFINE next == IF cmd.at < 4 THEN "strip" ELSE "ok"
<1>4. /\ cmd'.pc = next
      /\ cmd'.job = cmd.job
      /\ cmd'.at = IF cmd.at < 4 THEN cmd.at + 1 ELSE 1
      /\ cmd' \in Memory(cmd.job.kind)
  <2>1. /\ DOMAIN cmd = {"pc", "job", "read", "at", "todo"}
        /\ cmd = [pc |-> cmd.pc, job |-> cmd.job, read |-> cmd.read, at |-> cmd.at,
                  todo |-> cmd.todo]
        /\ cmd \in Memory(cmd.job.kind)
    BY <1>1 DEF Remover, CommandOK, Memory
  <2>2. CASE cmd.at < 4
    <3>1. cmd' = [cmd EXCEPT !.at = cmd.at + 1] /\ cmd.at + 1 \in 1 .. 6
      BY <1>2, <2>2
    <3>2. QED
      BY <1>1, <2>1, <2>2, <3>1, GroupsAre DEF Memory
  <2>3. CASE ~ (cmd.at < 4)
    <3>1. cmd' = [cmd EXCEPT !.pc = "ok", !.at = 1]
      BY <1>2, <2>3
    <3>2. cmd' = [pc |-> "ok", job |-> cmd.job, read |-> cmd.read, at |-> 1,
                  todo |-> cmd.todo]
      BY <2>1, <3>1
    <3>3. cmd' \in Memory(cmd.job.kind)
      BY <1>3, <2>1, <3>2, GroupsAre DEF Memory
    <3>4. QED
      BY <1>3, <2>3, <3>2, <3>3
  <2>4. QED
    BY <2>2, <2>3
<1>5. \A f \in IgnoreFiles : /\ NotIgnoring(ignore[f]) \in Seq(Lines)
                             /\ Whole(NotIgnoring(ignore[f]))
                             /\ Mark(NotIgnoring(ignore[f])) = 0
  BY NotIgnoringIs DEF IInv, FilesOK
<1>6. /\ ignore' \in [IgnoreFiles -> Seq(Lines)]
      /\ \A f \in IgnoreFiles : Whole(ignore'[f])
      /\ \A f \in IgnoreFiles : Mark(ignore[f]) = 0 \/ f = file => Mark(ignore'[f]) = 0
      /\ \A f \in IgnoreFiles : Mark(ignore[f]) \in Nat
  BY <1>2, <1>5, IgnoreMarks DEF IInv, FilesOK
<1>7. FilesOK'
  <2>1. /\ agents' \subseteq {"section", "agy"}
        /\ claudeMd' \subseteq {"title", "ref", Own, "named"}
    BY <1>2 DEF IInv, FilesOK
  <2>2. /\ ignore' \in [IgnoreFiles -> Seq(Lines)]
        /\ \A f \in IgnoreFiles : Whole(ignore'[f])
    BY <1>6
  <2>3. /\ UNCHANGED <<settings, tree, plugin, artifacts>>
        /\ IsFiniteSet(settings) /\ Sound(settings)
        /\ tree \in [Groups -> SUBSET Files]
        /\ plugin \in {"none", "old", "current"}
        /\ artifacts \subseteq Artifacts
    BY <1>2 DEF IInv, FilesOK
  <2>4. QED
    BY <2>1, <2>2, <2>3 DEF FilesOK
<1>8. \A f \in ToSet(MarkerFiles) : ~ Marked(f) \/ f = file => ~ Marked(f)'
  BY <1>2, <1>6, MarkersAre DEF Marked, IgnoreFiles
<1>9. \A i \in 1 .. cmd.at : ~ Marked(MarkerFiles[i])'
  <2>1. \A i \in 1 .. cmd.at : MarkerFiles[i] \in ToSet(MarkerFiles)
    BY <1>2, MarkersAre
  <2>2. \A i \in 1 .. cmd.at : i \in 1 .. cmd.at - 1 \/ MarkerFiles[i] = file
    BY <1>2 DEF file
  <2>3. QED
    BY <1>2, <1>8, <2>1, <2>2
<1>10. cmd.at = 4 => \A f \in ToSet(MarkerFiles) : ~ Marked(f)'
  BY <1>9, MarkersAre
<1>11. RemovedOK'
  <2>1. CASE cmd.at < 4
    <3>1. cmd'.pc = "strip" /\ cmd'.at = cmd.at + 1 /\ cmd.at + 1 - 1 = cmd.at
      BY <1>2, <1>4, <2>1
    <3>2. \A i \in 1 .. cmd'.at - 1 : ~ Marked(MarkerFiles[i])'
      <4>1. 1 .. cmd'.at - 1 = 1 .. cmd.at
        BY <1>2, <3>1
      <4>2. QED
        BY <1>9, <4>1
    <3>3. QED
      BY <1>2, <3>1, <3>2 DEF RemovedOK, At, Ended
  <2>2. CASE cmd.at = 4
    <3>1. cmd'.pc = "ok"
      BY <1>4, <2>2
    <3>2. QED
      BY <1>2, <1>10, <2>2, <3>1 DEF RemovedOK, At, Ended
  <2>3. QED
    BY <1>2, <2>1, <2>2
<1>12. next \in Removing \cup {"ok"} /\ (next = "strip" => cmd'.at \in 1 .. 4)
       /\ (next # "strip" => next = "ok" /\ cmd'.at = 1)
  BY <1>2, <1>3, <1>4
<1>13. QED
  BY <1>1, <1>2, <1>3, <1>4, <1>7, <1>11, <1>12, RemovalKeeps

-----------------------------------------------------------------------------
(* The beginning and the end of a command, and the user's edits.             *)

\* A file that is empty is as good as one that was never there.
LEMMA KilledKeeps ==
  ASSUME IInv, Killed
  PROVE  IInv'
<1>1. PICK emptied \in {{}, Written} :
        /\ agents' = IF "AGENTS.md" \in emptied THEN {} ELSE agents
        /\ claudeMd' = IF "CLAUDE.md" \in emptied THEN {} ELSE claudeMd
        /\ plugin' = IF "plugin.json" \in emptied THEN "old" ELSE plugin
        /\ ignore' = [f \in IgnoreFiles |-> IF f \in emptied THEN <<>> ELSE ignore[f]]
  BY DEF Killed
<1>2. UNCHANGED <<settings, tree, artifacts>> /\ cmd' = Idle
  BY DEF Killed, Keep
<1>3. <<>> \in Seq(Lines) /\ Whole(<<>>)
  BY DEF Whole
<1>4. /\ ignore' \in [IgnoreFiles -> Seq(Lines)]
      /\ \A f \in IgnoreFiles : Whole(ignore'[f])
  BY <1>1, <1>3 DEF IInv, FilesOK
<1>5. /\ agents' \subseteq {"section", "agy"}
      /\ claudeMd' \subseteq {"title", "ref", Own, "named"}
      /\ plugin' \in {"none", "old", "current"}
  BY <1>1 DEF IInv, FilesOK
<1>6. FilesOK'
  BY <1>2, <1>4, <1>5 DEF IInv, FilesOK
<1>7. QED
  BY <1>2, <1>6, IdleKeeps

\* A command that begins has done nothing yet.
LEMMA BeginKeeps ==
  ASSUME IInv, Begin
  PROVE  IInv'
<1>1. PICK j \in Jobs : cmd' = NewCommand(j, First(j))
  BY DEF Begin
<1>2. /\ j.kind \in {"setup", "hooks", "unhook", "uninstall"}
      /\ j.targets \in SUBSET Targets
  BY JobsAssumption
<1>3. /\ First(j) \in Steps(j.kind) \cap {"ignore", "targets", "read", "plan"}
      /\ First(j) = "ignore" => j.kind = "setup" /\ "claude" \in j.targets
      /\ First(j) = "targets" => "claude" \notin j.targets
      /\ First(j) = "read" => j.kind \in {"hooks", "unhook"}
      /\ j.kind = "setup" /\ "claude" \in j.targets => First(j) = "ignore"
  <2>1. CASE j.kind = "setup" /\ "claude" \in j.targets
    BY <2>1, StepsAre DEF First
  <2>2. CASE j.kind = "setup" /\ "claude" \notin j.targets
    BY <2>2, StepsAre DEF First
  <2>3. CASE j.kind \in {"hooks", "unhook"}
    BY <2>3, StepsAre DEF First
  <2>4. CASE j.kind = "uninstall"
    BY <2>4, StepsAre DEF First
  <2>5. QED
    BY <1>2, <2>1, <2>2, <2>3, <2>4
<1>4. /\ cmd'.pc = First(j)
      /\ cmd'.job = j
      /\ cmd'.at = 1
      /\ cmd' = [pc |-> First(j), job |-> j, read |-> {}, at |-> 1, todo |-> j.targets]
  BY <1>1 DEF NewCommand
<1>5. cmd' \in Memory(j.kind)
  BY <1>2, <1>3, <1>4, GroupsAre DEF Memory
<1>6. UNCHANGED <<settings, tree, agents, claudeMd, plugin, ignore, artifacts>>
  BY DEF Begin, Keep, repo
<1>7. FilesOK'
  BY <1>6 DEF IInv, FilesOK
<1>8. CommandOK'
  BY <1>3, <1>4, <1>5 DEF CommandOK, At, ForClaude, Templating, Removing
<1>9. HooksOK'
  BY <1>3, <1>4 DEF HooksOK, At, Ended, ForClaude, Templating, Removing
<1>10. SetupOK'
  BY <1>3, <1>4 DEF SetupOK, At, ForClaude, Templating, Pruned
<1>11. TemplatesOK'
  BY <1>3, <1>4 DEF TemplatesOK, At, ForClaude, Pruned
<1>12. RemovedOK'
  BY <1>3, <1>4 DEF RemovedOK, At, Ended
<1>13. QED
  BY <1>7, <1>8, <1>9, <1>10, <1>11, <1>12 DEF IInv

\* A hook of the user's takes none of ours away, and brings none back.
LEMMA AddHookKeeps ==
  ASSUME IInv, AddHook
  PROVE  IInv'
<1>1. UNCHANGED <<tree, agents, claudeMd, plugin, ignore, artifacts, cmd>>
  BY DEF AddHook, Keep
<1>2. IsFiniteSet(settings) /\ Sound(settings)
  BY DEF IInv, FilesOK
<1>3. Undisturbed(settings, settings')
  <2>1. CASE settings' = settings \cup {Entry(Own, "none")}
    BY <1>2, <2>1, EntryAdded
  <2>2. ASSUME NEW e \in settings, e.event = EventOf[Own],
               settings' = (settings \ {e})
                              \cup {[e EXCEPT !.cmds = e.cmds \cup {Command(Own, "none")}]}
        PROVE  Undisturbed(settings, settings')
    BY <1>2, <2>2, CommandAdded
  <2>3. QED
    BY <2>1, <2>2 DEF AddHook
<1>4. FilesOK'
  BY <1>1, <1>3 DEF IInv, FilesOK, Undisturbed
<1>5. CommandOK'
  BY <1>1 DEF IInv, CommandOK, At, ForClaude
<1>6. HooksOK'
  <2>1. At("write") =>
          /\ IsFiniteSet(cmd.read) /\ Sound(cmd.read)
          /\ OwnHooks(cmd.read) \subseteq OwnHooks(settings')
          /\ \A p \in 0 .. 2 : Installed(cmd.read, p) => Installed(settings', p)
          /\ Unhooked(cmd.read) => Unhooked(settings')
    BY <1>3 DEF IInv, HooksOK, Undisturbed
  <2>2. /\ ForClaude /\ cmd.job.hooks /\ cmd.pc \in Templating \cup {"targets", "ok"}
             => Installed(settings', cmd.job.profile)
        /\ Ended("hooks") => Installed(settings', cmd.job.profile)
        /\ cmd.job.kind = "uninstall" /\ cmd.pc \in Removing \cup {"ok"} => Unhooked(settings')
    BY <1>3 DEF IInv, HooksOK, Undisturbed
  <2>3. QED
    BY <1>1, <2>1, <2>2 DEF HooksOK, At, Ended, ForClaude, Unhooked
<1>7. SetupOK' /\ TemplatesOK' /\ RemovedOK'
  BY <1>1 DEF IInv, Marked, SetupOK, TemplatesOK, RemovedOK, TemplatesAsAsked, OutOfProfile, Ended,
     At, ForClaude
<1>8. QED
  BY <1>4, <1>5, <1>6, <1>7 DEF IInv

\* Nor does a line of the user's, in .gitignore or in CLAUDE.md.
LEMMA AddLineKeeps ==
  ASSUME IInv, AddLine
  PROVE  IInv'
<1>1. /\ UNCHANGED <<settings, tree, agents, claudeMd, plugin, artifacts, cmd>>
      /\ ignore \in [IgnoreFiles -> Seq(Lines)]
      /\ \A f \in IgnoreFiles : Whole(ignore[f])
      /\ "root" \in IgnoreFiles /\ "claude" \in IgnoreFiles
  BY DEF AddLine, Keep, IInv, FilesOK, IgnoreFiles
<1>2. PICK gap \in {<<>>, <<"blank">>} :
        ignore' = [ignore EXCEPT !["root"] = ignore["root"] \o gap \o <<Own>>]
  BY DEF AddLine
<1> DEFINE s == ignore["root"] \o gap \o <<Own>>
<1>3. s \in Seq(Lines) /\ Whole(s) /\ (Mark(s) > 0 <=> Mark(ignore["root"]) > 0)
  BY <1>1, AddedLine
<1>4. Mark(s) \in Nat /\ Mark(ignore["root"]) \in Nat
  <2>1. ignore["root"] \in Seq(Lines)
    BY <1>1
  <2>2. \A l \in Seq(Lines) : Mark(l) \in 0 .. Len(l) /\ Len(l) \in Nat
    BY MarkIs, LenProperties
  <2> HIDE DEF s
  <2>3. QED
    BY <1>3, <2>1, <2>2
<1> HIDE DEF s
<1>5. /\ ignore' \in [IgnoreFiles -> Seq(Lines)]
      /\ \A f \in IgnoreFiles : Whole(ignore'[f])
      /\ ignore'["claude"] = ignore["claude"]
      /\ \A f \in IgnoreFiles : Mark(ignore'[f]) > 0 <=> Mark(ignore[f]) > 0
      /\ \A f \in IgnoreFiles : Mark(ignore[f]) = 0 => Mark(ignore'[f]) = 0
  <2>1. ignore' = [ignore EXCEPT !["root"] = s]
    BY <1>2 DEF s
  <2>2. Mark(ignore["root"]) = 0 => Mark(s) = 0
    BY <1>3, <1>4
  <2>3. QED
    BY <1>1, <1>3, <2>1, <2>2
<1>6. FilesOK'
  BY <1>1, <1>5 DEF IInv, FilesOK
<1>7. CommandOK' /\ HooksOK' /\ TemplatesOK'
  BY <1>1 DEF IInv, CommandOK, HooksOK, TemplatesOK, TemplatesAsAsked, OutOfProfile, Ended,
     At, ForClaude, Unhooked
<1>8. SetupOK'
  BY <1>1, <1>5 DEF IInv, SetupOK, At, ForClaude
<1>9. RemovedOK'
  <2>1. \A f : Marked(f)' <=> Marked(f)
    BY <1>1, <1>5 DEF Marked
  <2>2. QED
    BY <1>1, <2>1 DEF IInv, RemovedOK, At, Ended
<1>10. QED
  BY <1>6, <1>7, <1>8, <1>9 DEF IInv

\* What the user writes is none of ours.
LEMMA AddTextKeeps ==
  ASSUME IInv, AddText
  PROVE  IInv'
<1>1. UNCHANGED <<settings, tree, agents, plugin, ignore, artifacts, cmd>>
  BY DEF AddText, Keep
<1>2. PICK text \in {{Own}, {Own, "named"}} : claudeMd' = claudeMd \cup text
  BY DEF AddText
<1>3. "ref" \notin text
  BY DEF Own
<1>4. FilesOK'
  BY <1>1, <1>2 DEF IInv, FilesOK
<1>5. CommandOK' /\ HooksOK' /\ TemplatesOK'
  BY <1>1 DEF IInv, CommandOK, HooksOK, TemplatesOK, TemplatesAsAsked, OutOfProfile, Ended,
     At, ForClaude, Unhooked
<1>6. SetupOK'
  BY <1>1, <1>2 DEF IInv, SetupOK, At, ForClaude
<1>7. RemovedOK'
  <2>1. \A f : Marked(f)' <=> Marked(f)
    BY <1>1, <1>2, <1>3 DEF Marked
  <2>2. QED
    BY <1>1, <2>1 DEF IInv, RemovedOK, At, Ended
<1>8. QED
  BY <1>4, <1>5, <1>6, <1>7 DEF IInv


-----------------------------------------------------------------------------
(* The invariant.                                                            *)

LEMMA InitIInv == Init => IInv
<1> SUFFICES ASSUME Init PROVE IInv
  OBVIOUS
<1>1. PICK r \in InitialRepos : /\ settings = r.settings
                                /\ tree = r.tree
                                /\ plugin = r.plugin
                                /\ artifacts = r.artifacts
  BY DEF Init
<1>2. agents = {} /\ claudeMd = {} /\ cmd = Idle /\ ignore = [f \in IgnoreFiles |-> <<>>]
  BY DEF Init
<1>3. FilesOK
  <2>1. /\ IsFiniteSet(settings) /\ Sound(settings)
        /\ tree \in [Groups -> SUBSET Files]
        /\ plugin \in {"none", "old", "current"}
        /\ artifacts \subseteq Artifacts
    BY <1>1, ReposAssumption
  <2>2. <<>> \in Seq(Lines) /\ Whole(<<>>)
    BY DEF Whole
  <2>3. ignore \in [IgnoreFiles -> Seq(Lines)] /\ \A f \in IgnoreFiles : Whole(ignore[f])
    BY <1>2, <2>2
  <2>4. QED
    BY <1>2, <2>1, <2>3 DEF FilesOK
<1>4. /\ cmd.pc = "idle" /\ cmd.job.kind = "none" /\ cmd.at = 1
      /\ cmd = [pc |-> "idle", job |-> Idle.job, read |-> {}, at |-> 1, todo |-> {}]
  BY <1>2 DEF Idle, NewCommand
<1>5. CommandOK
  <2>1. cmd \in Memory("none")
    BY <1>4, StepsAre, GroupsAre DEF Memory
  <2>2. QED
    BY <1>4, <2>1 DEF CommandOK, At, Templating, Removing
<1>6. HooksOK /\ SetupOK /\ TemplatesOK /\ RemovedOK
  BY <1>4 DEF HooksOK, SetupOK, TemplatesOK, RemovedOK, At, ForClaude, Ended
<1>7. QED
  BY <1>3, <1>5, <1>6 DEF IInv

\* Every step preserves the invariant.
LEMMA NextIInv == IInv /\ [Next]_vars => IInv'
<1> SUFFICES ASSUME IInv, [Next]_vars PROVE IInv'
  OBVIOUS
<1>1. CASE Begin
  BY <1>1, BeginKeeps
<1>2. CASE WriteClaudeIgnore \/ WriteRootIgnore
  BY <1>2, WriteIgnoreKeeps
<1>3. CASE Migrate
  BY <1>3, MigrateKeeps
<1>4. CASE ReadSettings
  BY <1>4, ReadSettingsKeeps
<1>5. CASE InstallHooks
  BY <1>5, InstallHooksKeeps
<1>6. CASE UpdateAgentsMd \/ EnsureClaudeMd \/ WritePlugin
  BY <1>6, TemplateTextsKeep
<1>7. CASE Refuse \/ Agree
  BY <1>7, GuardKeeps
<1>8. CASE InstallGroup
  BY <1>8, InstallGroupKeeps
<1>9. CASE PruneGroup
  BY <1>9, PruneGroupKeeps
<1>10. CASE CompileSkillsIndex
  BY <1>10, CompileSkillsIndexKeeps
<1>11. CASE \E t \in {"codex", "agy", "goose"} : InstallTarget(t)
  BY <1>11, InstallTargetKeeps
<1>12. CASE TargetsDone
  BY <1>12, TargetsDoneKeeps
<1>13. CASE Plan
  BY <1>13, PlanKeeps
<1>14. CASE RemoveHooks
  BY <1>14, RemoveHooksKeeps
<1>15. CASE RemoveDir
  BY <1>15, RemoveDirKeeps
<1>16. CASE RemovePlugin
  BY <1>16, RemovePluginKeeps
<1>17. CASE RemoveRuntime
  BY <1>17, RemoveRuntimeKeeps
<1>18. CASE StripMarkers
  BY <1>18, StripMarkersKeeps
<1>19. CASE Killed
  BY <1>19, KilledKeeps
<1>20. CASE AddHook
  BY <1>20, AddHookKeeps
<1>21. CASE AddLine
  BY <1>21, AddLineKeeps
<1>22. CASE AddText
  BY <1>22, AddTextKeeps
<1>23. CASE UNCHANGED vars
  <2>1. /\ UNCHANGED <<settings, tree, agents, claudeMd, plugin, ignore, artifacts>>
        /\ UNCHANGED cmd
    BY <1>23 DEF vars, repo
  <2>2. FilesOK' /\ CommandOK' /\ HooksOK'
    BY <2>1 DEF IInv, FilesOK, CommandOK, HooksOK, At, ForClaude, Ended, Unhooked
  <2>3. SetupOK' /\ TemplatesOK' /\ RemovedOK'
    BY <2>1 DEF IInv, Marked, SetupOK, TemplatesOK, RemovedOK, TemplatesAsAsked, OutOfProfile, At,
       ForClaude, Ended
  <2>4. QED
    BY <2>2, <2>3 DEF IInv
<1>24. QED
  BY <1>1, <1>2, <1>3, <1>4, <1>5, <1>6, <1>7, <1>8, <1>9, <1>10, <1>11, <1>12, <1>13,
     <1>14, <1>15, <1>16, <1>17, <1>18, <1>19, <1>20, <1>21, <1>22, <1>23
     DEF Next, Setup, Uninstall

\* What holds in every reachable state.
LEMMA Invariant == Spec => []IInv
BY InitIInv, NextIInv, PTL DEF Spec

-----------------------------------------------------------------------------
(* What the commands promise.                                                *)

(* Every file holds what the commands and the user put there, and a          *)
(* .gitignore never has half a block of EnsureGitignore's, nor two.          *)
THEOREM TypeCorrect == Spec => []TypeOK
<1>1. IInv => TypeOK
  <2> SUFFICES ASSUME IInv PROVE TypeOK
    OBVIOUS
  <2>1. \A e \in settings :
          /\ e.cmds # {}
          /\ \A c \in e.cmds : c.by \in Runners /\ EventOf[c.name] = e.event
    <3> SUFFICES ASSUME NEW e \in settings
                 PROVE  /\ e.cmds # {}
                        /\ \A c \in e.cmds : c.by \in Runners /\ EventOf[c.name] = e.event
      OBVIOUS
    <3>1. Sound(settings)
      BY DEF IInv, FilesOK
    <3>2. e \in Entries
      BY <3>1 DEF Sound
    <3>3. \A c \in e.cmds : c.by \in Runners
      BY <3>2 DEF Entries
    <3>4. QED
      BY <3>1, <3>3 DEF Sound
  <2>2. \A f \in IgnoreFiles :
          /\ Cardinality({i \in DOMAIN ignore[f] : ignore[f][i] = "mark"}) <= 1
          /\ Mark(ignore[f]) > 0 => /\ Mark(ignore[f]) < Len(ignore[f])
                                    /\ ignore[f][Mark(ignore[f]) + 1] = "ours"
    BY WholeIs DEF IInv, FilesOK
  <2>3. \A g \in Groups : tree[g] \subseteq Files
    BY DEF IInv, FilesOK
  <2>4. QED
    BY <2>1, <2>2, <2>3 DEF IInv, FilesOK, TypeOK
<1>2. QED
  BY <1>1, Invariant, PTL

(* A setup that ends well leaves exactly what its profile asks for, whatever *)
(* the repository held, what was killed half way, and what the user edited   *)
(* between the reading of settings.json and its replacement.                 *)
THEOREM AsAsked == Spec => []InstalledAsAsked
<1>1. IInv => InstalledAsAsked
  <2> SUFFICES ASSUME IInv PROVE InstalledAsAsked
    OBVIOUS
  <2> DEFINE p == cmd.job.profile
  <2>1. Installed(settings, p) => HooksAsAsked(p)
    BY InstalledCounts DEF HooksAsAsked
  <2>2. Ended("hooks") => HooksAsAsked(p)
    BY <2>1 DEF IInv, HooksOK
  <2>3. ASSUME Ended("setup"), "claude" \in cmd.job.targets
        PROVE  /\ cmd.job.hooks => HooksAsAsked(p)
               /\ cmd.job.templates => /\ TemplatesAsAsked(p)
                                       /\ "section" \in agents
                                       /\ {"ref", "named"} \cap claudeMd # {}
                                       /\ plugin = "current"
               /\ \A f \in IgnoreFiles : Mark(ignore[f]) > 0
    <3>1. ForClaude /\ cmd.pc = "ok"
      BY <2>3 DEF ForClaude, Ended
    <3>2. cmd.job.hooks => HooksAsAsked(p)
      BY <2>1, <3>1 DEF IInv, HooksOK
    <3>3. cmd.job.templates => TemplatesAsAsked(p)
      BY <3>1 DEF IInv, TemplatesOK, Pruned
    <3>4. /\ cmd.job.templates => /\ "section" \in agents
                                  /\ {"ref", "named"} \cap claudeMd # {}
                                  /\ plugin = "current"
          /\ Mark(ignore["root"]) > 0 /\ Mark(ignore["claude"]) > 0
      BY <3>1 DEF IInv, SetupOK, Pruned, At
    <3>5. QED
      BY <3>2, <3>3, <3>4 DEF IgnoreFiles
  <2>4. QED
    BY <2>2, <2>3 DEF InstalledAsAsked
<1>2. QED
  BY <1>1, Invariant, PTL

(* `ca uninstall --all` that ends well leaves nothing marked as ours in the  *)
(* files it shares with the user, no template, and no state.                 *)
THEOREM UninstallComplete == Spec => []UninstallIsComplete
<1>1. IInv => UninstallIsComplete
  <2>1. ASSUME IInv, \A f \in ToSet(MarkerFiles) : ~ Marked(f)
        PROVE  /\ {"section", "agy"} \cap agents = {}
               /\ "ref" \notin claudeMd
               /\ \A f \in IgnoreFiles : Mark(ignore[f]) = 0
    BY <2>1, MarkersAre, IgnoreMarks DEF IInv, FilesOK, Marked, IgnoreFiles
  <2>2. QED
    BY <2>1 DEF IInv, HooksOK, RemovedOK, UninstallIsComplete, Unhooked, Ended
<1>2. QED
  BY <1>1, Invariant, PTL

(* An installation writes back every hook of the user's that it read, also   *)
(* one that shares an entry with a command of ours.                          *)
THEOREM HooksKept == Spec => ReadHooksAreKept
<1>1. ASSUME IInv, [Next]_vars, At("write"), cmd'.pc = AfterHooks,
             cmd.job.kind \in {"setup", "hooks"}
      PROVE  OwnHooks(cmd.read) \subseteq OwnHooks(settings')
  <2>1. AfterHooks \notin {"write", "idle"}
    BY <1>1, AfterHooksIs DEF IInv
  <2>2. Idle.pc = "idle"
    BY DEF Idle, NewCommand
  <2>3. InstallHooks
    <3>1. cmd' # cmd /\ cmd' # Idle
      BY <1>1, <2>1, <2>2 DEF At
    <3>2. ~ UNCHANGED vars
      BY <3>1 DEF vars
    <3>3. cmd.pc = "write"
      BY <1>1 DEF At
    <3>4. /\ ~ (Killed \/ AddHook \/ AddLine \/ AddText)
          /\ ~ Begin
      BY <3>1, <3>3 DEF Killed, AddHook, AddLine, AddText, Keep, Begin, Resting
    <3>5. ~ Uninstall
      BY <1>1, <3>3 DEF Uninstall, Plan, RemoveHooks, RemoveDir, RemovePlugin, RemoveRuntime,
         StripMarkers, At
    <3>6. Setup
      BY <1>1, <3>2, <3>4, <3>5 DEF Next
    <3>7. QED
      BY <3>3, <3>6 DEF Setup, WriteClaudeIgnore, WriteRootIgnore, Migrate, ReadSettings,
         UpdateAgentsMd, EnsureClaudeMd, WritePlugin, Refuse, Agree, InstallGroup,
         PruneGroup, CompileSkillsIndex, InstallTarget, TargetsDone, At
  <2>4. QED
    BY <1>1, <2>3, InstallHooksKeeps
<1>2. IInv /\ [Next]_vars =>
        [At("write") /\ cmd'.pc = AfterHooks /\ cmd.job.kind \in {"setup", "hooks"}
           => OwnHooks(cmd.read) \subseteq OwnHooks(settings')]_vars
  BY <1>1
<1>3. QED
  BY <1>2, Invariant, PTL DEF Spec, ReadHooksAreKept

\* Which steps touch the files of the groups.
LEMMA TreeChanges ==
  ASSUME [Next]_vars, tree' # tree
  PROVE  InstallGroup \/ PruneGroup \/ CompileSkillsIndex \/ RemoveDir
<1>1. ~ UNCHANGED vars
  BY DEF vars, repo
<1>2. ~ (Begin \/ Killed \/ AddHook \/ AddLine \/ AddText)
  BY DEF Begin, Killed, AddHook, AddLine, AddText, Keep, repo
<1>3. ~ (Plan \/ RemoveHooks \/ RemovePlugin \/ RemoveRuntime \/ StripMarkers)
  BY DEF Plan, RemoveHooks, RemovePlugin, RemoveRuntime, StripMarkers, Keep, repo
<1>4. ~ (WriteClaudeIgnore \/ WriteRootIgnore \/ Migrate \/ ReadSettings \/ InstallHooks)
  BY DEF WriteClaudeIgnore, WriteRootIgnore, Migrate, ReadSettings, InstallHooks, Keep, repo
<1>5. ~ (UpdateAgentsMd \/ EnsureClaudeMd \/ WritePlugin \/ Refuse \/ Agree \/ TargetsDone)
  BY DEF UpdateAgentsMd, EnsureClaudeMd, WritePlugin, Refuse, Agree, TargetsDone, Keep, repo
<1>6. \A t \in {"codex", "agy", "goose"} : ~ InstallTarget(t)
  BY DEF InstallTarget, Keep
<1>7. QED
  BY <1>1, <1>2, <1>3, <1>4, <1>5, <1>6 DEF Next, Setup, Uninstall

(* installTemplates refuses to prune without ConfirmPrune, so templates of   *)
(* ours go only with an uninstall or with a pruning that was confirmed.      *)
THEOREM PruningConfirmed == Spec => NothingPrunedUnasked
<1>1. ASSUME IInv, [Next]_vars, NEW g \in Groups, Templates(g) # {}, Templates(g)' = {}
      PROVE  cmd.job.kind = "uninstall" \/ cmd.job.confirm
  <2>0. /\ tree \in [Groups -> SUBSET Files]
        /\ tree[g] \cap {"current", "outdated"} # {}
        /\ tree'[g] \cap {"current", "outdated"} = {}
        /\ tree' # tree
    BY <1>1 DEF IInv, FilesOK, Templates
  <2>1. CASE InstallGroup
    <3>1. /\ tree' = IF GroupRank(GroupOrder[cmd.at]) <= cmd.job.profile
                       THEN [tree EXCEPT ![GroupOrder[cmd.at]] =
                               Reconciled(tree[GroupOrder[cmd.at]])]
                       ELSE tree
      BY <2>1 DEF InstallGroup
    <3>2. "current" \in Reconciled(tree[GroupOrder[cmd.at]])
      BY DEF Reconciled
    <3>3. tree'[g] = tree[g] \/ "current" \in tree'[g]
      BY <2>0, <3>1, <3>2
    <3>4. QED
      BY <2>0, <3>3
  <2>2. CASE PruneGroup
    <3> DEFINE p == cmd.job.profile
               k == PruneOrder[cmd.at]
    <3>1. /\ cmd.pc = "prune"
          /\ tree' = [tree EXCEPT ![k] = tree[k] \cap Expected(k, p)]
      BY <2>2 DEF PruneGroup, At
    <3>2. g = k /\ tree'[g] = tree[g] \cap Expected(g, p)
      BY <2>0, <3>1
    <3>3. SUFFICES ASSUME ~ cmd.job.confirm PROVE FALSE
      OBVIOUS
    <3>4. ~ (GroupRank(g) > p)
      BY <1>1, <2>0, <3>1, <3>3 DEF IInv, TemplatesOK, OutOfProfile, At
    <3>5. GroupRank(g) <= p
      BY <1>1, <3>1, <3>4, TemplatingIs DEF GroupRank
    <3>6. "current" \in tree[g]
      BY <1>1, <3>1, <3>5 DEF IInv, TemplatesOK, Fresh, At
    <3>7. QED
      BY <2>0, <3>2, <3>5, <3>6 DEF Expected
  <2>3. CASE CompileSkillsIndex
    <3>1. \/ tree' = tree
          \/ tree' = [tree EXCEPT !["skills"] = tree["skills"] \cup {"index"}]
      BY <2>3 DEF CompileSkillsIndex
    <3>2. tree[g] \subseteq tree'[g]
      BY <2>0, <3>1
    <3>3. QED
      BY <2>0, <3>2
  <2>4. CASE RemoveDir
    <3>1. At("remove") /\ "remove" \in Removing
      BY <2>4 DEF RemoveDir, Removing
    <3>2. QED
      BY <1>1, <3>1, RemoverIs DEF Remover
  <2>5. QED
    BY <1>1, <2>0, <2>1, <2>2, <2>3, <2>4, TreeChanges
<1>2. IInv /\ [Next]_vars =>
        [(\E g \in Groups : Templates(g) # {} /\ Templates(g)' = {})
           => cmd.job.kind = "uninstall" \/ cmd.job.confirm]_vars
  BY <1>1
<1>3. QED
  BY <1>2, Invariant, PTL DEF Spec, NothingPrunedUnasked
=============================================================================
