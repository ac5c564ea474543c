--------------------------- MODULE ChunkerProofs ----------------------------
(***************************************************************************)
(* Proofs about Chunker: what chunk does with the blocks of any document,  *)
(* for every target, overlap and minimum.  The loops are recursive         *)
(* functions, and the proofs follow them turn by turn (Induction).         *)
(***************************************************************************)
EXTENDS Chunker, SequenceTheorems, FiniteSetTheorems, WellFoundedInduction, TLAPS

-----------------------------------------------------------------------------
(***************************************************************************)
(* Induction.  The library's induction theorem is about operators; this    *)
(* one is about sets, and rests on the order of the natural numbers being  *)
(* well-founded.                                                           *)
(***************************************************************************)

Less == {pair \in Nat \X Nat : pair[1] < pair[2]}

\* A nonempty set of numbers has a least one: what the induction rests on.
LEMMA Least ==
  ASSUME NEW T \in SUBSET Nat, T # {}
  PROVE  \E n \in T : \A m \in T : n <= m
<1>1. IsWellFoundedOn(Less, Nat)
  BY NatLessThanWellFounded DEF OpToRel, Less
<1>2. PICK n \in T : \A m \in T : <<m, n>> \notin Less
  BY <1>1, WFMin
<1>3. ASSUME NEW m \in T
      PROVE  n <= m
  <2>1. m < n => <<m, n>> \in Less
    BY DEF Less
  <2> QED
    BY <1>2, <2>1
<1> QED
  BY <1>3

\* What holds before a loop and is kept by each of its n turns holds after every turn.
LEMMA Induction ==
  ASSUME NEW n \in Nat, NEW T, 0 \in T, \A k \in 1..n : k - 1 \in T => k \in T
  PROVE  \A k \in 0..n : k \in T
<1> SUFFICES ASSUME (0..n) \ T # {} PROVE FALSE
  OBVIOUS
<1>1. PICK k \in (0..n) \ T : \A m \in (0..n) \ T : k <= m
  BY Least, (0..n) \ T \in SUBSET Nat
<1>2. k # 0 /\ k - 1 \in 0..n
  BY <1>1
<1> QED
  BY <1>1, <1>2

-----------------------------------------------------------------------------
(***************************************************************************)
(* The loops: each is the function that its turns define.                  *)
(***************************************************************************)

LEMMA SectionTurns ==
  ASSUME NEW doc, Len(doc) \in Nat
  PROVE  /\ SectionLoop(doc)[0] = <<>>
         /\ \A k \in 1..Len(doc) :
              SectionLoop(doc)[k] = AddBlock(SectionLoop(doc)[k - 1], doc[k], WordsOf(doc, k))
<1> DEFINE n == Len(doc)
           Turn(s, k) == AddBlock(s, doc[k], WordsOf(doc, k))
           Run(g, m) == g = [k \in 0..m |-> IF k = 0 THEN <<>> ELSE Turn(g[k - 1], k)]
           T == {m \in 0..n : \E g : Run(g, m)}
<1> HIDE DEF Turn
<1>1. Run([k \in 0..0 |-> <<>>], 0)
  OBVIOUS
<1>2. ASSUME NEW m \in 1..n, NEW g, Run(g, m - 1)
      PROVE  Run([k \in 0..m |-> IF k = m THEN Turn(g[m - 1], m) ELSE g[k]], m)
  BY <1>2
<1> HIDE DEF Run
<1>3. \A m \in 0..n : m \in T
  <2>1. 0 \in T
    BY <1>1
  <2>2. ASSUME NEW m \in 1..n, m - 1 \in T
        PROVE  m \in T
    <3>1. PICK g : Run(g, m - 1)
      BY <2>2
    <3>2. Run([k \in 0..m |-> IF k = m THEN Turn(g[m - 1], m) ELSE g[k]], m)
      BY <1>2, <3>1
    <3> QED
      BY <3>2
  <2> HIDE DEF T
  <2> QED
    BY <2>1, <2>2, Induction
<1>4. PICK g : Run(g, n)
  BY <1>3
<1> USE DEF Run
<1>5. Run(SectionLoop(doc), n)
  BY <1>4 DEF SectionLoop, Turn
<1>6. /\ SectionLoop(doc)[0] = <<>>
      /\ \A k \in 1..n : SectionLoop(doc)[k] =
           Turn(SectionLoop(doc)[k - 1], k)
  BY <1>5
<1> QED
  BY <1>6 DEF Turn

LEMMA MergeTurns ==
  ASSUME NEW sections, Len(sections) \in Nat
  PROVE  /\ MergeLoop(sections)[0] = <<>>
         /\ \A k \in 1..Len(sections) :
              MergeLoop(sections)[k] = MergeNext(MergeLoop(sections)[k - 1], sections[k])
<1> DEFINE n == Len(sections)
           Turn(s, k) == MergeNext(s, sections[k])
           Run(g, m) == g = [k \in 0..m |-> IF k = 0 THEN <<>> ELSE Turn(g[k - 1], k)]
           T == {m \in 0..n : \E g : Run(g, m)}
<1> HIDE DEF Turn
<1>1. Run([k \in 0..0 |-> <<>>], 0)
  OBVIOUS
<1>2. ASSUME NEW m \in 1..n, NEW g, Run(g, m - 1)
      PROVE  Run([k \in 0..m |-> IF k = m THEN Turn(g[m - 1], m) ELSE g[k]], m)
  BY <1>2
<1> HIDE DEF Run
<1>3. \A m \in 0..n : m \in T
  <2>1. 0 \in T
    BY <1>1
  <2>2. ASSUME NEW m \in 1..n, m - 1 \in T
        PROVE  m \in T
    <3>1. PICK g : Run(g, m - 1)
      BY <2>2
    <3>2. Run([k \in 0..m |-> IF k = m THEN Turn(g[m - 1], m) ELSE g[k]], m)
      BY <1>2, <3>1
    <3> QED
      BY <3>2
  <2> HIDE DEF T
  <2> QED
    BY <2>1, <2>2, Induction
<1>4. PICK g : Run(g, n)
  BY <1>3
<1> USE DEF Run
<1>5. Run(MergeLoop(sections), n)
  BY <1>4 DEF MergeLoop, Turn
<1>6. /\ MergeLoop(sections)[0] = <<>>
      /\ \A k \in 1..n : MergeLoop(sections)[k] =
           Turn(MergeLoop(sections)[k - 1], k)
  BY <1>5
<1> QED
  BY <1>6 DEF Turn

LEMMA CutTurns ==
  ASSUME NEW s, Len(s.words) \in Nat
  PROVE  /\ CutLoop(s)[0] = [start |-> 0, cut |-> <<>>]
         /\ \A k \in 1..Len(s.words) :
              CutLoop(s)[k] = CutNext(s, CutLoop(s)[k - 1])
<1> DEFINE n == Len(s.words)
           Turn(t, k) == CutNext(s, t)
           Run(g, m) ==
             g = [k \in 0..m |-> IF k = 0 THEN [start |-> 0, cut |-> <<>>] ELSE Turn(g[k - 1], k)]
           T == {m \in 0..n : \E g : Run(g, m)}
<1> HIDE DEF Turn
<1>1. Run([k \in 0..0 |-> [start |-> 0, cut |-> <<>>]], 0)
  OBVIOUS
<1>2. ASSUME NEW m \in 1..n, NEW g, Run(g, m - 1)
      PROVE  Run([k \in 0..m |-> IF k = m THEN Turn(g[m - 1], m) ELSE g[k]], m)
  BY <1>2
<1> HIDE DEF Run
<1>3. \A m \in 0..n : m \in T
  <2>1. 0 \in T
    BY <1>1
  <2>2. ASSUME NEW m \in 1..n, m - 1 \in T
        PROVE  m \in T
    <3>1. PICK g : Run(g, m - 1)
      BY <2>2
    <3>2. Run([k \in 0..m |-> IF k = m THEN Turn(g[m - 1], m) ELSE g[k]], m)
      BY <1>2, <3>1
    <3> QED
      BY <3>2
  <2> HIDE DEF T
  <2> QED
    BY <2>1, <2>2, Induction
<1>4. PICK g : Run(g, n)
  BY <1>3
<1> USE DEF Run
<1>5. Run(CutLoop(s), n)
  BY <1>4 DEF CutLoop, Turn
<1>6. /\ CutLoop(s)[0] = [start |-> 0, cut |-> <<>>]
      /\ \A k \in 1..n : CutLoop(s)[k] =
           Turn(CutLoop(s)[k - 1], k)
  BY <1>5
<1> QED
  BY <1>6 DEF Turn

LEMMA EmitTurns ==
  ASSUME NEW sections, Len(sections) \in Nat
  PROVE  /\ EmitLoop(sections)[0] = <<>>
         /\ \A k \in 1..Len(sections) :
              EmitLoop(sections)[k] = EmitLoop(sections)[k - 1] \o Emit(sections[k])
<1> DEFINE n == Len(sections)
           Turn(s, k) == s \o Emit(sections[k])
           Run(g, m) == g = [k \in 0..m |-> IF k = 0 THEN <<>> ELSE Turn(g[k - 1], k)]
           T == {m \in 0..n : \E g : Run(g, m)}
<1> HIDE DEF Turn
<1>1. Run([k \in 0..0 |-> <<>>], 0)
  OBVIOUS
<1>2. ASSUME NEW m \in 1..n, NEW g, Run(g, m - 1)
      PROVE  Run([k \in 0..m |-> IF k = m THEN Turn(g[m - 1], m) ELSE g[k]], m)
  BY <1>2
<1> HIDE DEF Run
<1>3. \A m \in 0..n : m \in T
  <2>1. 0 \in T
    BY <1>1
  <2>2. ASSUME NEW m \in 1..n, m - 1 \in T
        PROVE  m \in T
    <3>1. PICK g : Run(g, m - 1)
      BY <2>2
    <3>2. Run([k \in 0..m |-> IF k = m THEN Turn(g[m - 1], m) ELSE g[k]], m)
      BY <1>2, <3>1
    <3> QED
      BY <3>2
  <2> HIDE DEF T
  <2> QED
    BY <2>1, <2>2, Induction
<1>4. PICK g : Run(g, n)
  BY <1>3
<1> USE DEF Run
<1>5. Run(EmitLoop(sections), n)
  BY <1>4 DEF EmitLoop, Turn
<1>6. /\ EmitLoop(sections)[0] = <<>>
      /\ \A k \in 1..n : EmitLoop(sections)[k] =
           Turn(EmitLoop(sections)[k - 1], k)
  BY <1>5
<1> QED
  BY <1>6 DEF Turn

LEMMA TextTurns ==
  ASSUME NEW doc, Len(doc) \in Nat
  PROVE  /\ Text(doc)[0] = <<>>
         /\ \A k \in 1..Len(doc) :
              Text(doc)[k] = Text(doc)[k - 1] \o WordsOf(doc, k)
<1> DEFINE n == Len(doc)
           Turn(s, k) == s \o WordsOf(doc, k)
           Run(g, m) == g = [k \in 0..m |-> IF k = 0 THEN <<>> ELSE Turn(g[k - 1], k)]
           T == {m \in 0..n : \E g : Run(g, m)}
<1> HIDE DEF Turn
<1>1. Run([k \in 0..0 |-> <<>>], 0)
  OBVIOUS
<1>2. ASSUME NEW m \in 1..n, NEW g, Run(g, m - 1)
      PROVE  Run([k \in 0..m |-> IF k = m THEN Turn(g[m - 1], m) ELSE g[k]], m)
  BY <1>2
<1> HIDE DEF Run
<1>3. \A m \in 0..n : m \in T
  <2>1. 0 \in T
    BY <1>1
  <2>2. ASSUME NEW m \in 1..n, m - 1 \in T
        PROVE  m \in T
    <3>1. PICK g : Run(g, m - 1)
      BY <2>2
    <3>2. Run([k \in 0..m |-> IF k = m THEN Turn(g[m - 1], m) ELSE g[k]], m)
      BY <1>2, <3>1
    <3> QED
      BY <3>2
  <2> HIDE DEF T
  <2> QED
    BY <2>1, <2>2, Induction
<1>4. PICK g : Run(g, n)
  BY <1>3
<1> USE DEF Run
<1>5. Run(Text(doc), n)
  BY <1>4 DEF Text, Turn
<1>6. /\ Text(doc)[0] = <<>>
      /\ \A k \in 1..n : Text(doc)[k] =
           Turn(Text(doc)[k - 1], k)
  BY <1>5
<1> QED
  BY <1>6 DEF Turn

-----------------------------------------------------------------------------
(***************************************************************************)
(* Pieces of a sequence: what is between two positions.                    *)
(***************************************************************************)

Piece(t, a, b) == SubSeq(t, a + 1, b)

LEMMA PieceIs ==
  ASSUME NEW S, NEW t \in Seq(S), NEW a \in Nat, NEW b \in Nat, a <= b, b <= Len(t)
  PROVE  /\ Piece(t, a, b) \in Seq(S) /\ Len(Piece(t, a, b)) = b - a
         /\ \A i \in 1..(b - a) : Piece(t, a, b)[i] = t[a + i]
<1>1. \A i \in (a + 1)..b : t[i] \in S
  BY ElementOfSeq
<1>2. /\ SubSeq(t, a + 1, b) \in Seq(S)
      /\ Len(SubSeq(t, a + 1, b)) = IF a + 1 <= b THEN b - (a + 1) + 1 ELSE 0
      /\ \A i \in 1..(b - (a + 1) + 1) : SubSeq(t, a + 1, b)[i] = t[a + 1 + i - 1]
  BY <1>1, SubSeqProperties, a + 1 \in Int, b \in Int
<1> QED
  BY <1>2 DEF Piece

LEMMA PieceEq ==
  ASSUME NEW S, NEW t \in Seq(S), NEW u \in Seq(S), NEW a \in Nat, NEW b \in Nat,
         a <= b, b <= Len(t), Len(u) = b - a, \A i \in 1..(b - a) : u[i] = t[a + i]
  PROVE  u = Piece(t, a, b)
<1>1. /\ Piece(t, a, b) \in Seq(S) /\ Len(Piece(t, a, b)) = b - a
      /\ \A i \in 1..(b - a) : Piece(t, a, b)[i] = t[a + i]
  BY PieceIs
<1> QED
  BY <1>1, SeqEqual

LEMMA PieceJoin ==
  ASSUME NEW S, NEW t \in Seq(S), NEW a \in Nat, NEW b \in Nat, NEW c \in Nat,
         a <= b, b <= c, c <= Len(t)
  PROVE  Piece(t, a, b) \o Piece(t, b, c) = Piece(t, a, c)
<1>1. Len(t) \in Nat
  BY LenProperties
<1>2. a + 1 \in 1..(Len(t) + 1) /\ b \in (a + 1 - 1)..Len(t) /\ c \in b..Len(t)
  BY <1>1
<1> QED
  BY <1>2, ConcatAdjacentSubSeq DEF Piece

LEMMA PieceOfLonger ==
  ASSUME NEW S, NEW t \in Seq(S), NEW u \in Seq(S), NEW a \in Nat, NEW b \in Nat,
         a <= b, b <= Len(t)
  PROVE  /\ Piece(t \o u, a, b) = Piece(t, a, b)
         /\ Piece(t \o u, Len(t), Len(t) + Len(u)) = u
<1>1. Len(t) \in Nat /\ Len(u) \in Nat
  BY LenProperties
<1>2. /\ t \o u \in Seq(S) /\ Len(t \o u) = Len(t) + Len(u)
      /\ \A i \in 1..(Len(t) + Len(u)) :
           (t \o u)[i] = IF i <= Len(t) THEN t[i] ELSE u[i - Len(t)]
  BY ConcatProperties
<1>3. PICK n \in Nat, m \in Nat : n = Len(t) /\ m = Len(t) + Len(u)
  BY <1>1
<1>4. PICK v \in Seq(S) : v = t \o u
  BY <1>2
<1>5. /\ Len(v) = m /\ n <= m /\ m - n = Len(u)
      /\ \A i \in 1..n : v[i] = t[i]
      /\ \A i \in 1..(m - n) : v[n + i] = u[i]
  BY <1>1, <1>2, <1>3, <1>4
<1>6. Piece(t, a, b) \in Seq(S) /\ Len(Piece(t, a, b)) = b - a
  BY PieceIs
<1>7. \A i \in 1..(b - a) : Piece(t, a, b)[i] = v[a + i]
  <2> SUFFICES ASSUME NEW i \in 1..(b - a) PROVE Piece(t, a, b)[i] = v[a + i]
    OBVIOUS
  <2>1. Piece(t, a, b)[i] = t[a + i]
    BY PieceIs
  <2>2. a + i \in 1..n
    BY <1>3
  <2> QED
    BY <1>5, <2>1, <2>2
<1>8. Piece(t, a, b) = Piece(v, a, b)
  <2>1. b <= Len(v)
    BY <1>3, <1>5
  <2> QED
    BY <1>6, <1>7, <2>1, PieceEq
<1>9. u = Piece(v, n, m)
  <2>1. m <= Len(v) /\ Len(u) = m - n
    BY <1>5
  <2>2. \A i \in 1..(m - n) : u[i] = v[n + i]
    BY <1>5
  <2>3. n <= m
    BY <1>5
  <2> QED
    BY <2>1, <2>2, <2>3, PieceEq
<1> QED
  BY <1>3, <1>4, <1>8, <1>9

LEMMA PieceOfPiece ==
  ASSUME NEW S, NEW t \in Seq(S), NEW a \in Nat, NEW b \in Nat, a <= b, b <= Len(t),
         NEW c \in Nat, NEW d \in Nat, c <= d, d <= b - a
  PROVE  Piece(Piece(t, a, b), c, d) = Piece(t, a + c, a + d)
<1>1. PICK p \in Seq(S) : p = Piece(t, a, b)
  BY PieceIs
<1>2. Len(p) = b - a /\ \A i \in 1..(b - a) : p[i] = t[a + i]
  BY <1>1, PieceIs, ZenonT(30)
<1>3. PICK e \in Nat, f \in Nat : e = a + c /\ f = a + d
  BY a + c \in Nat, a + d \in Nat
<1>4. e <= f /\ f <= Len(t) /\ f - e = d - c
  BY <1>3, LenProperties
<1>5. \A i \in 1..(d - c) : p[c + i] = t[e + i]
  <2> SUFFICES ASSUME NEW i \in 1..(d - c) PROVE p[c + i] = t[e + i]
    OBVIOUS
  <2>1. c + i \in 1..(b - a) /\ a + (c + i) = e + i
    BY <1>3
  <2> QED
    BY <1>2, <2>1
<1>6. PICK q \in Seq(S) : q = Piece(t, e, f)
  BY <1>4, PieceIs
<1>7. Len(q) = f - e /\ \A i \in 1..(f - e) : q[i] = t[e + i]
  <2>1. e <= f /\ f <= Len(t)
    BY <1>4
  <2>2. /\ Piece(t, e, f) \in Seq(S) /\ Len(Piece(t, e, f)) = f - e
        /\ \A i \in 1..(f - e) : Piece(t, e, f)[i] = t[e + i]
    BY <2>1, PieceIs, ZenonT(30)
  <2> QED
    BY <1>6, <2>2
<1>8. Len(q) = d - c /\ \A i \in 1..(d - c) : q[i] = p[c + i]
  BY <1>4, <1>5, <1>7
<1>9. d <= Len(p)
  BY <1>2
<1>10. q = Piece(p, c, d)
  BY <1>8, <1>9, PieceEq
<1> QED
  BY <1>1, <1>3, <1>6, <1>10

\* A sequence whose last element is replaced.
LEMMA LastReplaced ==
  ASSUME NEW S, NEW s \in Seq(S), s # <<>>, NEW e \in S
  PROVE  /\ Len(s) \in Nat \ {0} /\ Last(s) \in S /\ Last(s) = s[Len(s)]
         /\ Front(s) \in Seq(S) /\ Len(Front(s)) = Len(s) - 1
         /\ \A i \in 1..(Len(s) - 1) : Front(s)[i] = s[i]
         /\ Append(Front(s), e) \in Seq(S) /\ Len(Append(Front(s), e)) = Len(s)
         /\ \A i \in 1..(Len(s) - 1) : Append(Front(s), e)[i] = s[i]
         /\ Append(Front(s), e)[Len(s)] = e
<1>1. Len(s) \in Nat \ {0}
  BY EmptySeq
<1>2. Last(s) \in S /\ Last(s) = s[Len(s)]
  BY <1>1, ElementOfSeq DEF Last
<1>3. PICK n \in Nat : n = Len(s) - 1
  BY <1>1
<1>4. /\ Front(s) \in Seq(S) /\ Len(Front(s)) = n
      /\ \A i \in 1..n : Front(s)[i] = s[i]
  <2>1. Front(s) = Piece(s, 0, n) /\ n <= Len(s) /\ 0 <= n
    BY <1>1, <1>3 DEF Front, Piece
  <2>2. Piece(s, 0, n) \in Seq(S) /\ Len(Piece(s, 0, n)) = n - 0
    BY <2>1, PieceIs, 0 \in Nat
  <2>3. \A i \in 1..(n - 0) : Piece(s, 0, n)[i] = s[0 + i]
    BY <2>1, PieceIs, 0 \in Nat
  <2>4. \A i \in 1..n : Piece(s, 0, n)[i] = s[i]
    BY <2>3
  <2> QED
    BY <2>1, <2>2, <2>4
<1>5. /\ Append(Front(s), e) \in Seq(S)
      /\ Len(Append(Front(s), e)) = Len(Front(s)) + 1
      /\ \A i \in 1..Len(Front(s)) : Append(Front(s), e)[i] = Front(s)[i]
      /\ Append(Front(s), e)[Len(Front(s)) + 1] = e
  BY <1>4, AppendProperties
<1> QED
  BY <1>1, <1>2, <1>3, <1>4, <1>5

-----------------------------------------------------------------------------
(***************************************************************************)
(* The text of a document: the words of its blocks, in order.              *)
(***************************************************************************)

AWord == Nat \X Nat
ABlock == [path : Seq(Nat), size : Nat, isHeading : BOOLEAN, page : Nat, line : Nat]

\* How many words the first k blocks have.
Upto(doc, k) == Len(Text(doc)[k])
Whole(doc) == Text(doc)[Len(doc)]

LEMMA WordsAre ==
  ASSUME NEW doc \in Seq(ABlock), NEW k \in 1..Len(doc)
  PROVE  /\ doc[k] \in ABlock /\ WordsOf(doc, k) \in Seq(AWord)
         /\ Len(WordsOf(doc, k)) = doc[k].size
         /\ \A j \in 1..doc[k].size : WordsOf(doc, k)[j] = <<k, j>>
<1>1. doc[k] \in ABlock /\ Len(doc) \in Nat
  BY ElementOfSeq, LenProperties
<1>2. PICK n \in Nat : n = doc[k].size
  BY <1>1 DEF ABlock
<1>3. k \in Nat
  BY <1>1
<1>4. WordsOf(doc, k) = [j \in 1..n |-> <<k, j>>]
  BY <1>2 DEF WordsOf
<1>5. \A j \in 1..n : <<k, j>> \in AWord
  BY <1>3 DEF AWord
<1>6. [j \in 1..n |-> <<k, j>>] \in Seq(AWord)
  BY <1>5, IsASeq
<1>7. Len([j \in 1..n |-> <<k, j>>]) = n
  BY <1>6, LenProperties
<1> QED
  BY <1>1, <1>2, <1>4, <1>6, <1>7

LEMMA TextType ==
  ASSUME NEW doc \in Seq(ABlock)
  PROVE  /\ Len(doc) \in Nat
         /\ \A k \in 0..Len(doc) : Text(doc)[k] \in Seq(AWord) /\ Upto(doc, k) \in Nat
<1> DEFINE T == {k \in 0..Len(doc) : Text(doc)[k] \in Seq(AWord)}
<1>1. Len(doc) \in Nat
  BY LenProperties
<1>2. 0 \in T
  <2>1. Text(doc)[0] \in Seq(AWord)
    BY <1>1, TextTurns, EmptySeq
  <2> QED
    BY <1>1, <2>1
<1>3. ASSUME NEW k \in 1..Len(doc), k - 1 \in T
      PROVE  k \in T
  <2>1. Text(doc)[k] = Text(doc)[k - 1] \o WordsOf(doc, k)
    BY <1>1, TextTurns
  <2>2. PICK t \in Seq(AWord), w \in Seq(AWord) : t = Text(doc)[k - 1] /\ w = WordsOf(doc, k)
    BY <1>3, WordsAre
  <2>3. Text(doc)[k] \in Seq(AWord)
    BY <2>1, <2>2, ConcatProperties
  <2> QED
    BY <1>1, <2>3
<1> HIDE DEF T
<1>4. \A k \in 0..Len(doc) : k \in T
  BY <1>1, <1>2, <1>3, Induction
<1>5. ASSUME NEW k \in 0..Len(doc)
      PROVE  Text(doc)[k] \in Seq(AWord) /\ Upto(doc, k) \in Nat
  <2>1. PICK t \in Seq(AWord) : t = Text(doc)[k]
    BY <1>4 DEF T
  <2> QED
    BY <2>1, LenProperties DEF Upto
<1> QED
  BY <1>1, <1>5

LEMMA TextGrows ==
  ASSUME NEW doc \in Seq(ABlock)
  PROVE  \A k \in 0..Len(doc) : \A j \in 0..k :
           Upto(doc, j) <= Upto(doc, k) /\ Text(doc)[j] = Piece(Text(doc)[k], 0, Upto(doc, j))
<1> DEFINE T == {k \in 0..Len(doc) : \A j \in 0..k :
                   Upto(doc, j) <= Upto(doc, k) /\ Text(doc)[j] = Piece(Text(doc)[k], 0, Upto(doc, j))}
<1>1. Len(doc) \in Nat /\ \A k \in 0..Len(doc) : Text(doc)[k] \in Seq(AWord) /\ Upto(doc, k) \in Nat
  BY TextType
<1>2. ASSUME NEW k \in 0..Len(doc)
      PROVE  Text(doc)[k] = Piece(Text(doc)[k], 0, Upto(doc, k))
  <2>1. PICK t \in Seq(AWord) : t = Text(doc)[k]
    BY <1>1
  <2> QED
    BY <2>1, SubSeqFull DEF Piece, Upto
<1>3. 0 \in T
  BY <1>1, <1>2
<1>4. ASSUME NEW k \in 1..Len(doc), k - 1 \in T
      PROVE  k \in T
  <2>1. PICK t \in Seq(AWord), w \in Seq(AWord) :
          t = Text(doc)[k - 1] /\ w = WordsOf(doc, k) /\ Text(doc)[k] = t \o w
    <3>1. k - 1 \in 0..Len(doc)
      BY <1>1
    <3>2. Text(doc)[k] = Text(doc)[k - 1] \o WordsOf(doc, k)
      BY <1>1, TextTurns
    <3>3. Text(doc)[k - 1] \in Seq(AWord) /\ WordsOf(doc, k) \in Seq(AWord)
      BY <1>1, <3>1, WordsAre
    <3> QED
      BY <3>2, <3>3
  <2>2. Len(t) \in Nat /\ Len(w) \in Nat /\ Len(t \o w) = Len(t) + Len(w)
    BY LenProperties, ConcatProperties
  <2>3. Upto(doc, k - 1) = Len(t) /\ Upto(doc, k) = Len(t) + Len(w)
    BY <2>1, <2>2 DEF Upto
  <2>4. ASSUME NEW j \in 0..(k - 1)
        PROVE  Upto(doc, j) <= Upto(doc, k) /\ Text(doc)[j] = Piece(Text(doc)[k], 0, Upto(doc, j))
    <3>1. Upto(doc, j) <= Len(t) /\ Text(doc)[j] = Piece(t, 0, Upto(doc, j)) /\ Upto(doc, j) \in Nat
      BY <1>1, <1>4, <2>1, <2>3
    <3>2. Piece(t \o w, 0, Upto(doc, j)) = Piece(t, 0, Upto(doc, j))
      BY <3>1, PieceOfLonger
    <3> QED
      BY <2>1, <2>2, <2>3, <3>1, <3>2
  <2>5. \A j \in 0..k : j = k \/ j \in 0..(k - 1)
    OBVIOUS
  <2>6. k \in 0..Len(doc) /\ Upto(doc, k) <= Upto(doc, k)
    BY <1>1
  <2> QED
    BY <1>2, <2>4, <2>5, <2>6
<1> HIDE DEF T
<1>5. \A k \in 0..Len(doc) : k \in T
  BY <1>1, <1>3, <1>4, Induction
<1> QED
  BY <1>5 DEF T

\* The words of block k are between where the block before it ends and where it does.
LEMMA TextPieces ==
  ASSUME NEW doc \in Seq(ABlock)
  PROVE  /\ Whole(doc) \in Seq(AWord) /\ Len(Whole(doc)) \in Nat
         /\ Upto(doc, 0) = 0 /\ Upto(doc, Len(doc)) = Len(Whole(doc))
         /\ \A k \in 1..Len(doc) :
              /\ Upto(doc, k) = Upto(doc, k - 1) + doc[k].size /\ doc[k].size \in Nat
              /\ Upto(doc, k) <= Len(Whole(doc))
              /\ Piece(Whole(doc), Upto(doc, k - 1), Upto(doc, k)) = WordsOf(doc, k)
              /\ \A j \in 1..doc[k].size : Whole(doc)[Upto(doc, k - 1) + j] = <<k, j>>
<1>1. Len(doc) \in Nat /\ \A k \in 0..Len(doc) : Text(doc)[k] \in Seq(AWord) /\ Upto(doc, k) \in Nat
  BY TextType
<1>2. PICK t \in Seq(AWord) : t = Whole(doc)
  BY <1>1 DEF Whole
<1>3. Len(t) \in Nat /\ Upto(doc, Len(doc)) = Len(t)
  BY <1>2, LenProperties DEF Upto, Whole
<1>4. Upto(doc, 0) = 0
  BY <1>1, TextTurns, EmptySeq DEF Upto
<1>5. ASSUME NEW k \in 1..Len(doc)
      PROVE  /\ Upto(doc, k) = Upto(doc, k - 1) + doc[k].size /\ doc[k].size \in Nat
             /\ Upto(doc, k) <= Len(t)
             /\ Piece(t, Upto(doc, k - 1), Upto(doc, k)) = WordsOf(doc, k)
             /\ \A j \in 1..doc[k].size : t[Upto(doc, k - 1) + j] = <<k, j>>
  <2>1. PICK w \in Seq(AWord), n \in Nat : w = WordsOf(doc, k) /\ n = doc[k].size
    BY WordsAre DEF ABlock
  <2>2. Len(w) = n /\ \A j \in 1..n : w[j] = <<k, j>>
    BY <2>1, WordsAre
  <2>3. PICK u \in Seq(AWord), a \in Nat, b \in Nat :
          u = Text(doc)[k - 1] /\ a = Upto(doc, k - 1) /\ b = Upto(doc, k)
    <3>1. k - 1 \in 0..Len(doc) /\ k \in 0..Len(doc)
      BY <1>1
    <3> QED
      BY <1>1, <3>1
  <2>4. Text(doc)[k] = u \o w /\ Len(u) = a
    BY <1>1, <2>1, <2>3, TextTurns DEF Upto
  <2>5. b = a + n
    <3>1. Len(u \o w) = Len(u) + Len(w)
      BY ConcatProperties
    <3> QED
      BY <2>2, <2>3, <2>4, <3>1 DEF Upto
  <2>6. b <= Len(t) /\ u \o w = Piece(t, 0, b)
    <3>1. Len(doc) \in 0..Len(doc) /\ k \in 0..Len(doc)
      BY <1>1
    <3>2. Upto(doc, k) <= Upto(doc, Len(doc)) /\ Text(doc)[k] = Piece(Text(doc)[Len(doc)], 0, Upto(doc, k))
      BY <3>1, TextGrows
    <3> QED
      BY <1>2, <1>3, <2>3, <2>4, <3>2 DEF Whole
  <2>7. Piece(u \o w, a, b) = w
    <3>1. Piece(u \o w, Len(u), Len(u) + Len(w)) = w
      BY PieceOfLonger, 0 \in Nat, 0 <= 0, 0 <= Len(u), LenProperties
    <3> QED
      BY <2>2, <2>4, <2>5, <3>1
  <2>8. Piece(Piece(t, 0, b), a, b) = Piece(t, 0 + a, 0 + b)
    BY <2>5, <2>6, PieceOfPiece, 0 \in Nat, a <= b, b <= b - 0, 0 <= b
  <2>9. Piece(t, a, b) = w
    BY <2>6, <2>7, <2>8
  <2>10. \A j \in 1..n : t[a + j] = w[j]
    <3>1. a <= b /\ b <= Len(t) /\ b - a = n
      BY <2>5, <2>6
    <3>2. \A j \in 1..(b - a) : Piece(t, a, b)[j] = t[a + j]
      BY <3>1, PieceIs, ZenonT(30)
    <3> QED
      BY <2>9, <3>1, <3>2
  <2> QED
    BY <2>1, <2>2, <2>3, <2>5, <2>6, <2>9, <2>10
<1> QED
  BY <1>2, <1>3, <1>4, <1>5

\* Where a word stands says which block it is of.
LEMMA WordAt ==
  ASSUME NEW doc \in Seq(ABlock), NEW i \in 1..Len(Whole(doc))
  PROVE  \E k \in 1..Len(doc) : /\ Upto(doc, k - 1) < i /\ i <= Upto(doc, k)
                                /\ Whole(doc)[i] = <<k, i - Upto(doc, k - 1)>>
<1>1. Len(doc) \in Nat /\ \A k \in 0..Len(doc) : Upto(doc, k) \in Nat
  BY TextType
<1>2. Upto(doc, 0) = 0 /\ Upto(doc, Len(doc)) = Len(Whole(doc)) /\ Len(Whole(doc)) \in Nat
  BY TextPieces
<1> DEFINE T == {k \in 0..Len(doc) : i <= Upto(doc, k)}
<1>3. T \in SUBSET Nat /\ Len(doc) \in T
  BY <1>1, <1>2
<1>4. PICK k \in T : \A m \in T : k <= m
  BY <1>3, Least
<1>5. k \in 1..Len(doc) /\ Upto(doc, k - 1) < i /\ i <= Upto(doc, k)
  BY <1>1, <1>2, <1>4
<1>6. PICK j \in Nat : j = i - Upto(doc, k - 1)
  BY <1>1, <1>5
<1>7. j \in 1..doc[k].size /\ i = Upto(doc, k - 1) + j
  <2>1. k - 1 \in 0..Len(doc) /\ Upto(doc, k - 1) \in Nat /\ i \in Nat
    BY <1>1, <1>5, TextType
  <2>2. Upto(doc, k) = Upto(doc, k - 1) + doc[k].size /\ doc[k].size \in Nat
    BY <1>5, TextPieces, TextGrows
  <2> QED
    BY <1>5, <1>6, <2>1, <2>2
<1>8. Whole(doc)[Upto(doc, k - 1) + j] = <<k, j>>
  BY <1>5, <1>7, TextPieces
<1> QED
  BY <1>5, <1>6, <1>7, <1>8

\* The words are in the order of their blocks, and no two are alike.
LEMMA TextInOrder ==
  ASSUME NEW doc \in Seq(ABlock), NEW i \in 1..Len(Whole(doc)), NEW j \in 1..Len(Whole(doc)), i <= j
  PROVE  /\ Whole(doc)[i][1] \in 1..Len(doc) /\ Whole(doc)[j][1] \in 1..Len(doc)
         /\ Whole(doc)[i][1] <= Whole(doc)[j][1]
         /\ Whole(doc)[i] = Whole(doc)[j] => i = j
<1>1. Len(doc) \in Nat /\ \A k \in 0..Len(doc) : Upto(doc, k) \in Nat
  BY TextType
<1>2. PICK k \in 1..Len(doc) : /\ Upto(doc, k - 1) < i /\ i <= Upto(doc, k)
                               /\ Whole(doc)[i] = <<k, i - Upto(doc, k - 1)>>
  BY WordAt
<1>3. PICK m \in 1..Len(doc) : /\ Upto(doc, m - 1) < j /\ j <= Upto(doc, m)
                               /\ Whole(doc)[j] = <<m, j - Upto(doc, m - 1)>>
  BY WordAt
<1>4. Len(Whole(doc)) \in Nat
  BY TextPieces
<1>5. k <= m
  <2> SUFFICES ASSUME m < k PROVE FALSE
    BY <1>1
  <2>1. m \in 0..(k - 1) /\ k - 1 \in 0..Len(doc)
    BY <1>1
  <2>2. Upto(doc, m) <= Upto(doc, k - 1)
    BY <2>1, TextGrows
  <2>3. Upto(doc, m) \in Nat /\ Upto(doc, k - 1) \in Nat /\ i \in Nat /\ j \in Nat
    BY <1>1, <1>4, <2>1
  <2> QED
    BY <1>2, <1>3, <2>2, <2>3
<1>6. Whole(doc)[i] = Whole(doc)[j] => i = j
  <2> SUFFICES ASSUME Whole(doc)[i] = Whole(doc)[j] PROVE i = j
    OBVIOUS
  <2>1. k = m /\ i - Upto(doc, k - 1) = j - Upto(doc, m - 1)
    <3>1. PICK c, d : c = i - Upto(doc, k - 1) /\ d = j - Upto(doc, m - 1)
      OBVIOUS
    <3>2. <<k, c>> = <<m, d>>
      BY <1>2, <1>3, <3>1
    <3> QED
      BY <3>1, <3>2
  <2>2. Upto(doc, k - 1) \in Nat
    BY <1>1
  <2> QED
    BY <1>4, <2>1, <2>2
<1> QED
  BY <1>2, <1>3, <1>5, <1>6

-----------------------------------------------------------------------------
(***************************************************************************)
(* Prefixes, and the longest one that two paths have in common.            *)
(***************************************************************************)

LEMMA PrefixIs ==
  ASSUME NEW S, NEW p \in Seq(S), NEW q \in Seq(S)
  PROVE  /\ Len(p) \in Nat /\ Len(q) \in Nat
         /\ IsPrefix(p, q) <=> Len(p) <= Len(q) /\ \A i \in 1..Len(p) : p[i] = q[i]
<1>1. Len(p) \in Nat /\ Len(q) \in Nat
  BY LenProperties
<1>2. SubSeq(p, 1, Len(p)) = p
  BY SubSeqFull
<1>3. ASSUME Len(p) <= Len(q)
      PROVE  p = Piece(q, 0, Len(p)) <=> \A i \in 1..Len(p) : p[i] = q[i]
  <2>1. PICK n \in Nat : n = Len(p)
    BY <1>1
  <2>2. 0 <= n /\ n <= Len(q) /\ n - 0 = n
    BY <1>3, <2>1
  <2>3. \A i \in 1..(n - 0) : Piece(q, 0, n)[i] = q[0 + i]
    BY <2>2, PieceIs, 0 \in Nat
  <2>4. (\A i \in 1..(n - 0) : p[i] = q[0 + i]) => p = Piece(q, 0, n)
    <3> SUFFICES ASSUME \A i \in 1..(n - 0) : p[i] = q[0 + i] PROVE p = Piece(q, 0, n)
      OBVIOUS
    <3>1. Len(p) = n - 0
      BY <2>1, <2>2
    <3> QED
      BY <2>2, <3>1, PieceEq, 0 \in Nat
  <2>5. \A i \in 1..n : 0 + i = i
    OBVIOUS
  <2> QED
    BY <2>1, <2>2, <2>3, <2>4, <2>5
<1> QED
  BY <1>1, <1>2, <1>3 DEF IsPrefix, Piece

LEMMA PrefixOfPrefix ==
  ASSUME NEW S, NEW p \in Seq(S), NEW q \in Seq(S), NEW r \in Seq(S), IsPrefix(p, q), IsPrefix(q, r)
  PROVE  IsPrefix(p, r)
<1>1. /\ Len(p) \in Nat /\ Len(q) \in Nat /\ Len(r) \in Nat
      /\ Len(p) <= Len(q) /\ \A i \in 1..Len(p) : p[i] = q[i]
      /\ Len(q) <= Len(r) /\ \A i \in 1..Len(q) : q[i] = r[i]
  BY PrefixIs
<1>2. Len(p) <= Len(r) /\ \A i \in 1..Len(p) : p[i] = r[i]
  BY <1>1
<1> QED
  BY <1>2, PrefixIs

LEMMA PrefixOfItself ==
  ASSUME NEW S, NEW p \in Seq(S)
  PROVE  IsPrefix(p, p)
<1>1. Len(p) <= Len(p)
  BY LenProperties
<1> QED
  BY <1>1, PrefixIs

\* The prefixes of a sequence are the sequences it begins with.
LEMMA PrefixesAre ==
  ASSUME NEW S, NEW p \in Seq(S)
  PROVE  /\ \A q \in Prefixes(p) : q \in Seq(S) /\ IsPrefix(q, p)
         /\ <<>> \in Prefixes(p) /\ p \in Prefixes(p)
<1>1. Len(p) \in Nat
  BY LenProperties
<1>2. ASSUME NEW l \in 0..Len(p)
      PROVE  SubSeq(p, 1, l) \in Seq(S) /\ IsPrefix(SubSeq(p, 1, l), p)
  <2>1. PICK n \in Nat : n = l /\ 0 <= n /\ n <= Len(p)
    BY <1>1
  <2>2. PICK u : u = Piece(p, 0, n)
    OBVIOUS
  <2>3. u \in Seq(S) /\ Len(u) = n - 0
    BY <2>1, <2>2, PieceIs, 0 \in Nat
  <2>4. \A i \in 1..(n - 0) : u[i] = p[0 + i]
    <3>1. \A i \in 1..(n - 0) : Piece(p, 0, n)[i] = p[0 + i]
      BY <2>1, PieceIs, 0 \in Nat
    <3> QED
      BY <2>2, <3>1
  <2>5. Len(u) <= Len(p) /\ \A i \in 1..Len(u) : u[i] = p[i]
    BY <2>1, <2>3, <2>4
  <2>6. IsPrefix(u, p)
    BY <2>3, <2>5, PrefixIs
  <2> QED
    BY <2>1, <2>2, <2>3, <2>6 DEF Piece
<1>3. SubSeq(p, 1, 0) = <<>>
  BY SubSeqEmpty
<1>4. SubSeq(p, 1, Len(p)) = p
  BY SubSeqFull
<1>5. 0 \in 0..Len(p) /\ Len(p) \in 0..Len(p)
  BY <1>1
<1> QED
  BY <1>2, <1>3, <1>4, <1>5 DEF Prefixes

LEMMA CommonPathIs ==
  ASSUME NEW p \in Seq(Nat), NEW q \in Seq(Nat)
  PROVE  /\ CommonPath(p, q) \in Seq(Nat)
         /\ IsPrefix(CommonPath(p, q), p) /\ IsPrefix(CommonPath(p, q), q)
         /\ p = q => CommonPath(p, q) = p
<1> DEFINE C == CommonPrefixes({p, q})
<1>1. Len(p) \in Nat /\ Len(q) \in Nat
  BY LenProperties
<1>2. \A r \in C : r \in Seq(Nat) /\ IsPrefix(r, p) /\ IsPrefix(r, q) /\ Len(r) \in Nat /\ Len(r) <= Len(p)
  <2> SUFFICES ASSUME NEW r \in C
               PROVE  r \in Seq(Nat) /\ IsPrefix(r, p) /\ IsPrefix(r, q) /\ Len(r) \in Nat /\ Len(r) <= Len(p)
    OBVIOUS
  <2>1. IsPrefix(r, p) /\ IsPrefix(r, q) /\ (r \in Prefixes(p) \/ r \in Prefixes(q))
    BY DEF CommonPrefixes
  <2>2. r \in Seq(Nat)
    BY <2>1, PrefixesAre
  <2> QED
    BY <2>1, <2>2, PrefixIs
<1>3. <<>> \in C
  <2>1. <<>> \in Prefixes(p) /\ IsPrefix(<<>>, p) /\ IsPrefix(<<>>, q)
    BY PrefixesAre
  <2> QED
    BY <2>1 DEF CommonPrefixes
<1>4. p = q => p \in C
  <2>1. p \in Prefixes(p) /\ IsPrefix(p, p)
    BY PrefixesAre, PrefixOfItself
  <2> QED
    BY <2>1 DEF CommonPrefixes
<1> HIDE DEF C
<1>5. \E longest \in C : \A other \in C : Len(other) <= Len(longest)
  <2> DEFINE T == {n \in Nat : \E r \in C : n = Len(p) - Len(r)}
  <2>1. T \in SUBSET Nat /\ T # {}
    <3>1. Len(p) - Len(<<>>) \in Nat
      BY <1>1, <1>2, <1>3
    <3>2. Len(p) - Len(<<>>) \in T
      BY <1>3, <3>1
    <3> QED
      BY <3>2
  <2>2. PICK n \in T : \A m \in T : n <= m
    BY <2>1, Least
  <2>3. PICK r \in C : n = Len(p) - Len(r)
    BY <2>2
  <2>4. ASSUME NEW other \in C
        PROVE  Len(other) <= Len(r)
    <3>1. Len(other) \in Nat /\ Len(other) <= Len(p) /\ Len(r) \in Nat /\ Len(r) <= Len(p)
      BY <1>2
    <3>2. Len(p) - Len(other) \in Nat
      BY <1>1, <3>1
    <3>3. Len(p) - Len(other) \in T
      BY <3>2
    <3>4. n <= Len(p) - Len(other)
      BY <2>2, <3>3
    <3> QED
      BY <1>1, <2>3, <3>1, <3>4
  <2> QED
    BY <2>4
<1>6. CommonPath(p, q) \in C /\ \A other \in C : Len(other) <= Len(CommonPath(p, q))
  BY <1>5 DEF CommonPath, LongestCommonPrefix, C
<1>7. p = q => CommonPath(p, q) = p
  <2> SUFFICES ASSUME p = q PROVE CommonPath(p, q) = p
    OBVIOUS
  <2>1. PICK c \in Seq(Nat) : c = CommonPath(p, q) /\ IsPrefix(c, p) /\ Len(c) \in Nat
    BY <1>2, <1>6
  <2>2. Len(p) <= Len(c)
    BY <1>4, <1>6, <2>1
  <2>3. Len(c) <= Len(p) /\ \A i \in 1..Len(c) : c[i] = p[i]
    BY <2>1, PrefixIs
  <2>4. Len(c) = Len(p)
    BY <1>1, <2>1, <2>2, <2>3
  <2> QED
    BY <2>1, <2>3, <2>4, SeqEqual
<1> QED
  BY <1>2, <1>6, <1>7

-----------------------------------------------------------------------------
(***************************************************************************)
(* Sections: each is a piece of the text, and says of it what is so.       *)
(***************************************************************************)

ASection == [path : Seq(Nat), words : Seq(AWord), body : BOOLEAN, from : Nat, to : Nat]

PagesInOrder(doc) ==
  \A i \in 1..Len(doc) : \A j \in 1..Len(doc) : i <= j => doc[i].page <= doc[j].page

BlockAt(doc, i) == doc[Whole(doc)[i][1]]

\* Section s is what is between a and b: every word is a heading or under its path,
\* and its pages are those of its first and its last word.
Stands(doc, s, a, b) ==
  /\ s \in ASection /\ a \in Nat /\ b \in Nat /\ a < b /\ b <= Len(Whole(doc))
  /\ s.words = Piece(Whole(doc), a, b)
  /\ \A i \in (a + 1)..b : \/ BlockAt(doc, i).isHeading
                           \/ s.body /\ IsPrefix(s.path, BlockAt(doc, i).path)
  /\ s.from = BlockAt(doc, a + 1).page /\ s.to = BlockAt(doc, b).page

LEMMA BlockAtType ==
  ASSUME NEW doc \in Seq(ABlock), NEW i \in 1..Len(Whole(doc))
  PROVE  BlockAt(doc, i) \in ABlock
<1>1. PICK k \in 1..Len(doc) : Whole(doc)[i] = <<k, i - Upto(doc, k - 1)>>
  BY WordAt
<1>2. PICK d : d = i - Upto(doc, k - 1)
  OBVIOUS
<1>3. Whole(doc)[i][1] = k
  BY <1>1, <1>2
<1> QED
  BY <1>3, ElementOfSeq DEF BlockAt

LEMMA PagesAlong ==
  ASSUME NEW doc \in Seq(ABlock), PagesInOrder(doc),
         NEW i \in 1..Len(Whole(doc)), NEW j \in 1..Len(Whole(doc)), i <= j
  PROVE  BlockAt(doc, i).page <= BlockAt(doc, j).page
<1>1. /\ Whole(doc)[i][1] \in 1..Len(doc) /\ Whole(doc)[j][1] \in 1..Len(doc)
      /\ Whole(doc)[i][1] <= Whole(doc)[j][1]
  BY TextInOrder
<1> QED
  BY <1>1 DEF BlockAt, PagesInOrder

LEMMA SameSection ==
  ASSUME NEW s \in ASection, NEW r \in ASection, s.path = r.path, s.words = r.words,
         s.body = r.body, s.from = r.from, s.to = r.to
  PROVE  r = s
BY DEF ASection

New(b, words) == [path |-> b.path, words |-> words, body |-> ~b.isHeading,
                  from |-> b.page, to |-> b.page]

LEMMA NewStands ==
  ASSUME NEW doc \in Seq(ABlock), NEW k \in 1..Len(doc), WordsOf(doc, k) # <<>>
  PROVE  Stands(doc, New(doc[k], WordsOf(doc, k)), Upto(doc, k - 1), Upto(doc, k))
<1>1. doc[k] \in ABlock /\ WordsOf(doc, k) \in Seq(AWord) /\ Len(WordsOf(doc, k)) = doc[k].size
  BY WordsAre
<1>2. doc[k].size \in Nat \ {0}
  BY <1>1, EmptySeq
<1>3. PICK a \in Nat, b \in Nat : a = Upto(doc, k - 1) /\ b = Upto(doc, k)
  <2>1. k - 1 \in 0..Len(doc) /\ k \in 0..Len(doc)
    BY TextType
  <2> QED
    BY <2>1, TextType
<1>4. /\ b = a + doc[k].size /\ b <= Len(Whole(doc))
      /\ Piece(Whole(doc), a, b) = WordsOf(doc, k)
      /\ \A j \in 1..doc[k].size : Whole(doc)[a + j] = <<k, j>>
  BY <1>3, TextPieces
<1>5. \A i \in (a + 1)..b : BlockAt(doc, i) = doc[k]
  <2> SUFFICES ASSUME NEW i \in (a + 1)..b PROVE BlockAt(doc, i) = doc[k]
    OBVIOUS
  <2>1. PICK j \in 1..doc[k].size : i = a + j
    <3>1. i - a \in 1..doc[k].size /\ i = a + (i - a)
      BY <1>2, <1>4
    <3> QED
      BY <3>1
  <2>2. Whole(doc)[i] = <<k, j>>
    BY <1>4, <2>1
  <2> QED
    BY <2>2 DEF BlockAt
<1>6. a + 1 \in (a + 1)..b /\ b \in (a + 1)..b /\ a < b
  BY <1>2, <1>4
<1>7. New(doc[k], WordsOf(doc, k)) \in ASection
  BY <1>1 DEF New, ASection, ABlock
<1>8. IsPrefix(doc[k].path, doc[k].path)
  BY <1>1, PrefixOfItself DEF ABlock
<1>9. doc[k].isHeading \in BOOLEAN
  BY <1>1 DEF ABlock
<1> QED
  BY <1>3, <1>4, <1>5, <1>6, <1>7, <1>8, <1>9 DEF Stands, New

\* What joins two neighbours is again such a section.
LEMMA JoinedStands ==
  ASSUME NEW doc \in Seq(ABlock), PagesInOrder(doc), NEW s, NEW u, NEW a, NEW b, NEW c,
         Stands(doc, s, a, b), Stands(doc, u, b, c)
  PROVE  Stands(doc, Joined(s, u), a, c)
<1>1. /\ s \in ASection /\ u \in ASection /\ a \in Nat /\ b \in Nat /\ c \in Nat
      /\ a < b /\ b < c /\ c <= Len(Whole(doc))
  BY DEF Stands
<1>2. Whole(doc) \in Seq(AWord) /\ Len(Whole(doc)) \in Nat
  BY TextPieces
<1>3. JoinedPath(s, u) \in Seq(Nat)
  BY <1>1, CommonPathIs DEF JoinedPath, ASection
<1>4. s.words \o u.words \in Seq(AWord)
  BY <1>1, ConcatProperties DEF ASection
<1>5. Joined(s, u) \in ASection
  BY <1>1, <1>3, <1>4 DEF Joined, ASection
<1>6. s.words \o u.words = Piece(Whole(doc), a, c)
  <2>1. a <= b /\ b <= c
    BY <1>1
  <2>2. Piece(Whole(doc), a, b) \o Piece(Whole(doc), b, c) = Piece(Whole(doc), a, c)
    BY <1>1, <1>2, <2>1, PieceJoin
  <2>3. s.words = Piece(Whole(doc), a, b) /\ u.words = Piece(Whole(doc), b, c)
    BY DEF Stands
  <2> QED
    BY <2>2, <2>3
<1>7. ASSUME NEW i \in (a + 1)..c, ~BlockAt(doc, i).isHeading
      PROVE  (s.body \/ u.body) /\ IsPrefix(JoinedPath(s, u), BlockAt(doc, i).path)
  <2>1. i \in 1..Len(Whole(doc))
    BY <1>1, <1>2
  <2>2. BlockAt(doc, i).path \in Seq(Nat) /\ s.path \in Seq(Nat) /\ u.path \in Seq(Nat)
    BY <1>1, <2>1, BlockAtType DEF ABlock, ASection
  <2>3. /\ CommonPath(s.path, u.path) \in Seq(Nat)
        /\ IsPrefix(CommonPath(s.path, u.path), s.path) /\ IsPrefix(CommonPath(s.path, u.path), u.path)
    BY <2>2, CommonPathIs
  <2>4. i \in (a + 1)..b \/ i \in (b + 1)..c
    BY <1>1
  <2>5. CASE i \in (a + 1)..b
    <3>1. s.body /\ IsPrefix(s.path, BlockAt(doc, i).path)
      BY <1>7, <2>5 DEF Stands
    <3>2. IsPrefix(CommonPath(s.path, u.path), BlockAt(doc, i).path)
      BY <2>2, <2>3, <3>1, PrefixOfPrefix
    <3> QED
      BY <3>1, <3>2 DEF JoinedPath
  <2>6. CASE i \in (b + 1)..c
    <3>1. u.body /\ IsPrefix(u.path, BlockAt(doc, i).path)
      BY <1>7, <2>6 DEF Stands
    <3>2. IsPrefix(CommonPath(s.path, u.path), BlockAt(doc, i).path)
      BY <2>2, <2>3, <3>1, PrefixOfPrefix
    <3> QED
      BY <3>1, <3>2 DEF JoinedPath
  <2> QED
    BY <2>4, <2>5, <2>6
<1>8. (IF u.to # 0 THEN u.to ELSE s.to) = BlockAt(doc, c).page
  <2>1. u.to = BlockAt(doc, c).page /\ s.to = BlockAt(doc, b).page
    BY DEF Stands
  <2>2. b \in 1..Len(Whole(doc)) /\ c \in 1..Len(Whole(doc)) /\ b <= c
    BY <1>1, <1>2
  <2>3. BlockAt(doc, b).page <= BlockAt(doc, c).page
    BY <2>2, PagesAlong
  <2>4. BlockAt(doc, b).page \in Nat /\ BlockAt(doc, c).page \in Nat
    BY <2>2, BlockAtType DEF ABlock
  <2> QED
    BY <2>1, <2>3, <2>4
<1>9. s.from = BlockAt(doc, a + 1).page
  BY DEF Stands
<1>10. PICK j : j = Joined(s, u)
  OBVIOUS
<1>11. /\ j.path = JoinedPath(s, u) /\ j.words = s.words \o u.words /\ j.body = (s.body \/ u.body)
       /\ j.from = s.from /\ j.to = IF u.to # 0 THEN u.to ELSE s.to
  BY <1>10 DEF Joined
<1>12. a < c
  BY <1>1
<1> QED
  BY <1>1, <1>5, <1>6, <1>7, <1>8, <1>9, <1>10, <1>11, <1>12 DEF Stands

\* Taking a block into a section is joining it.
LEMMA ExtendStands ==
  ASSUME NEW doc \in Seq(ABlock), PagesInOrder(doc), NEW k \in 1..Len(doc), WordsOf(doc, k) # <<>>,
         NEW s, NEW a, Stands(doc, s, a, Upto(doc, k - 1)), s.path = doc[k].path
  PROVE  Stands(doc, [s EXCEPT !.words = @ \o WordsOf(doc, k),
                               !.body = @ \/ ~doc[k].isHeading,
                               !.to = IF doc[k].page # 0 THEN doc[k].page ELSE @],
                a, Upto(doc, k))
<1> DEFINE u == New(doc[k], WordsOf(doc, k))
<1>1. Stands(doc, u, Upto(doc, k - 1), Upto(doc, k))
  BY NewStands
<1>2. Stands(doc, Joined(s, u), a, Upto(doc, k))
  BY <1>1, JoinedStands
<1>3. s \in ASection /\ doc[k] \in ABlock
  BY WordsAre DEF Stands
<1>4. CommonPath(s.path, doc[k].path) = s.path
  BY <1>3, CommonPathIs DEF ASection, ABlock
<1>5. JoinedPath(s, u) = s.path
  BY <1>4 DEF JoinedPath, New
<1>6. Joined(s, u) = [s EXCEPT !.words = @ \o WordsOf(doc, k),
                               !.body = @ \/ ~doc[k].isHeading,
                               !.to = IF doc[k].page # 0 THEN doc[k].page ELSE @]
  <2>1. PICK w, f, p : /\ w = s.words \o WordsOf(doc, k) /\ f = (s.body \/ ~doc[k].isHeading)
                       /\ p = IF doc[k].page # 0 THEN doc[k].page ELSE s.to
    OBVIOUS
  <2>2. w \in Seq(AWord) /\ f \in BOOLEAN /\ p \in Nat
    BY <1>3, <2>1, WordsAre, ConcatProperties DEF ASection, ABlock
  <2>3. PICK r : r = [s EXCEPT !.words = w, !.body = f, !.to = p]
    OBVIOUS
  <2>4. r \in ASection
    BY <1>3, <2>2, <2>3 DEF ASection
  <2>5. r.path = s.path /\ r.words = w /\ r.body = f /\ r.from = s.from /\ r.to = p
    BY <1>3, <2>2, <2>3, <2>4 DEF ASection
  <2>6. PICK j \in ASection : j = Joined(s, u)
    BY <1>2 DEF Stands
  <2>7. j.path = s.path /\ j.words = w /\ j.body = f /\ j.from = s.from /\ j.to = p
    BY <1>5, <2>1, <2>6 DEF Joined, New
  <2>8. j = r
    <3>1. r.path = j.path /\ r.words = j.words /\ r.body = j.body /\ r.from = j.from /\ r.to = j.to
      BY <2>5, <2>7
    <3> QED
      BY <2>4, <3>1, SameSection
  <2> QED
    BY <2>1, <2>3, <2>6, <2>8
<1> QED
  BY <1>2, <1>6

-----------------------------------------------------------------------------
(***************************************************************************)
(* A list of sections that are the first m words, one after the other.     *)
(***************************************************************************)

CutAt(doc, ss, at) ==
  /\ at \in [0..Len(ss) -> Nat] /\ at[0] = 0
  /\ \A j \in 1..Len(ss) : Stands(doc, ss[j], at[j - 1], at[j])

Covers(doc, ss, m) ==
  ss \in Seq(ASection) /\ \E at : CutAt(doc, ss, at) /\ at[Len(ss)] = m

LEMMA CoversNone ==
  ASSUME NEW doc
  PROVE  Covers(doc, <<>>, 0)
<1>1. <<>> \in Seq(ASection) /\ Len(<<>>) = 0
  BY EmptySeq
<1>2. CutAt(doc, <<>>, [j \in 0..0 |-> 0])
  BY <1>1 DEF CutAt
<1> QED
  BY <1>1, <1>2 DEF Covers

LEMMA CoversAppend ==
  ASSUME NEW doc, NEW ss, NEW s, NEW a, NEW b, Covers(doc, ss, a), Stands(doc, s, a, b)
  PROVE  Covers(doc, Append(ss, s), b)
<1>1. ss \in Seq(ASection) /\ s \in ASection /\ b \in Nat
  BY DEF Covers, Stands
<1>2. PICK at : CutAt(doc, ss, at) /\ at[Len(ss)] = a
  BY DEF Covers
<1>3. PICK n \in Nat : n = Len(ss)
  BY <1>1, LenProperties
<1>4. PICK tt \in Seq(ASection) : tt = Append(ss, s)
  BY <1>1, AppendProperties
<1>5. Len(tt) = n + 1 /\ tt[n + 1] = s /\ \A j \in 1..n : tt[j] = ss[j]
  BY <1>1, <1>3, <1>4, AppendProperties
<1>6. PICK to : to = [j \in 0..(n + 1) |-> IF j = n + 1 THEN b ELSE at[j]]
  OBVIOUS
<1>7. to \in [0..(n + 1) -> Nat] /\ to[0] = 0 /\ to[n + 1] = b /\ \A j \in 0..n : to[j] = at[j]
  BY <1>1, <1>2, <1>3, <1>6 DEF CutAt
<1>8. ASSUME NEW j \in 1..(n + 1)
      PROVE  Stands(doc, tt[j], to[j - 1], to[j])
  <2>1. CASE j = n + 1
    <3>1. tt[j] = s /\ to[j] = b /\ j - 1 = n
      BY <1>5, <1>7, <2>1
    <3>2. to[n] = a
      BY <1>2, <1>3, <1>7
    <3> QED
      BY <3>1, <3>2
  <2>2. CASE j # n + 1
    <3>1. j \in 1..n /\ j - 1 \in 0..n /\ j \in 0..n
      BY <2>2
    <3>2. Stands(doc, ss[j], at[j - 1], at[j])
      BY <1>2, <1>3, <3>1 DEF CutAt
    <3>3. tt[j] = ss[j] /\ to[j] = at[j] /\ to[j - 1] = at[j - 1]
      BY <1>5, <1>7, <3>1
    <3> QED
      BY <3>2, <3>3
  <2> QED
    BY <2>1, <2>2
<1>9. CutAt(doc, tt, to) /\ to[Len(tt)] = b
  BY <1>5, <1>7, <1>8 DEF CutAt
<1> QED
  BY <1>4, <1>9 DEF Covers

LEMMA FrontAre ==
  ASSUME NEW S, NEW ss \in Seq(S), ss # <<>>
  PROVE  /\ Len(ss) \in Nat \ {0} /\ Last(ss) \in S /\ Last(ss) = ss[Len(ss)]
         /\ Front(ss) \in Seq(S) /\ Len(Front(ss)) = Len(ss) - 1
         /\ \A j \in 1..(Len(ss) - 1) : Front(ss)[j] = ss[j]
<1>1. Len(ss) \in Nat \ {0}
  BY EmptySeq
<1>2. ss[Len(ss)] \in S
  BY <1>1, ElementOfSeq
<1> QED
  BY <1>2, LastReplaced

LEMMA CoversSplit ==
  ASSUME NEW doc, NEW ss, NEW b, Covers(doc, ss, b), ss # <<>>
  PROVE  \E a : Covers(doc, Front(ss), a) /\ Stands(doc, Last(ss), a, b)
<1>1. ss \in Seq(ASection)
  BY DEF Covers
<1>2. PICK at : CutAt(doc, ss, at) /\ at[Len(ss)] = b
  BY DEF Covers
<1>3. PICK n \in Nat : n = Len(ss) - 1
  BY <1>1, FrontAre
<1>4. PICK tt \in Seq(ASection) : tt = Front(ss)
  BY <1>1, FrontAre
<1>5. Len(tt) = n /\ Len(ss) = n + 1 /\ Last(ss) = ss[n + 1] /\ \A j \in 1..n : tt[j] = ss[j]
  BY <1>1, <1>3, <1>4, FrontAre
<1>6. PICK to : to = [j \in 0..n |-> at[j]]
  OBVIOUS
<1>7. to \in [0..n -> Nat] /\ to[0] = 0 /\ to[n] = at[n]
  BY <1>2, <1>5, <1>6 DEF CutAt
<1>8. ASSUME NEW j \in 1..n
      PROVE  Stands(doc, tt[j], to[j - 1], to[j])
  <2>1. j \in 1..Len(ss)
    BY <1>5
  <2>2. Stands(doc, ss[j], at[j - 1], at[j])
    BY <1>2, <2>1 DEF CutAt
  <2>3. tt[j] = ss[j] /\ to[j] = at[j] /\ to[j - 1] = at[j - 1]
    BY <1>5, <1>6
  <2> QED
    BY <2>2, <2>3
<1>9. CutAt(doc, tt, to)
  BY <1>5, <1>7, <1>8 DEF CutAt
<1>10. Stands(doc, ss[n + 1], at[n], at[n + 1])
  <2>1. n + 1 \in 1..Len(ss) /\ (n + 1) - 1 = n
    BY <1>5
  <2>2. Stands(doc, ss[n + 1], at[(n + 1) - 1], at[n + 1])
    BY <1>2, <2>1 DEF CutAt
  <2> QED
    BY <2>1, <2>2
<1> QED
  BY <1>2, <1>4, <1>5, <1>7, <1>9, <1>10 DEF Covers

\* Joining the last section with what follows it.
LEMMA CoversJoin ==
  ASSUME NEW doc \in Seq(ABlock), PagesInOrder(doc), NEW ss, NEW s, NEW a, NEW b,
         Covers(doc, ss, a), ss # <<>>, Stands(doc, s, a, b)
  PROVE  Covers(doc, Append(Front(ss), Joined(Last(ss), s)), b)
<1>1. PICK c : Covers(doc, Front(ss), c) /\ Stands(doc, Last(ss), c, a)
  BY CoversSplit
<1>2. Stands(doc, Joined(Last(ss), s), c, b)
  BY <1>1, JoinedStands
<1> QED
  BY <1>1, <1>2, CoversAppend

LEMMA HeadedCover ==
  ASSUME NEW doc \in Seq(ABlock), PagesInOrder(doc)
  PROVE  Covers(doc, HeadedSections(doc), Len(Whole(doc)))
<1> DEFINE T == {k \in 0..Len(doc) : Covers(doc, SectionLoop(doc)[k], Upto(doc, k))}
<1>1. Len(doc) \in Nat /\ Upto(doc, 0) = 0 /\ Upto(doc, Len(doc)) = Len(Whole(doc))
  BY TextType, TextPieces
<1>2. 0 \in T
  <2>1. SectionLoop(doc)[0] = <<>>
    BY <1>1, SectionTurns
  <2> QED
    BY <1>1, <2>1, CoversNone
<1>3. ASSUME NEW k \in 1..Len(doc), k - 1 \in T
      PROVE  k \in T
  <2>1. PICK ss : ss = SectionLoop(doc)[k - 1]
    OBVIOUS
  <2>2. PICK m : m = Upto(doc, k - 1)
    OBVIOUS
  <2>3. Covers(doc, ss, m)
    BY <1>3, <2>1, <2>2
  <2>4. SectionLoop(doc)[k] = AddBlock(ss, doc[k], WordsOf(doc, k))
    BY <1>1, <2>1, SectionTurns
  <2>5. Covers(doc, AddBlock(ss, doc[k], WordsOf(doc, k)), Upto(doc, k))
    <3>1. CASE WordsOf(doc, k) = <<>>
      <4>1. Len(WordsOf(doc, k)) = doc[k].size /\ Upto(doc, k) = Upto(doc, k - 1) + doc[k].size
        BY TextPieces, WordsAre
      <4>2. doc[k].size = 0 /\ Upto(doc, k - 1) \in Nat
        BY <1>1, <3>1, <4>1, EmptySeq, TextType
      <4>3. Upto(doc, k) = m
        BY <2>2, <4>1, <4>2
      <4> QED
        BY <2>3, <3>1, <4>3 DEF AddBlock
    <3>2. CASE WordsOf(doc, k) # <<>> /\ (ss = <<>> \/ Last(ss).path # doc[k].path)
      <4>1. Stands(doc, New(doc[k], WordsOf(doc, k)), m, Upto(doc, k))
        BY <2>2, <3>2, NewStands
      <4>2. Covers(doc, Append(ss, New(doc[k], WordsOf(doc, k))), Upto(doc, k))
        BY <2>3, <4>1, CoversAppend
      <4> QED
        BY <3>2, <4>2 DEF AddBlock, New
    <3>3. CASE WordsOf(doc, k) # <<>> /\ ss # <<>> /\ Last(ss).path = doc[k].path
      <4> DEFINE e == [Last(ss) EXCEPT !.words = @ \o WordsOf(doc, k),
                                       !.body = @ \/ ~doc[k].isHeading,
                                       !.to = IF doc[k].page # 0 THEN doc[k].page ELSE @]
      <4>1. PICK a : Covers(doc, Front(ss), a) /\ Stands(doc, Last(ss), a, m)
        BY <2>3, <3>3, CoversSplit
      <4>2. Stands(doc, e, a, Upto(doc, k))
        BY <2>2, <3>3, <4>1, ExtendStands
      <4> HIDE DEF e
      <4>3. Covers(doc, Append(Front(ss), e), Upto(doc, k))
        BY <4>1, <4>2, CoversAppend
      <4> QED
        BY <3>3, <4>3 DEF AddBlock, e
    <3> QED
      BY <3>1, <3>2, <3>3
  <2> QED
    BY <1>1, <2>4, <2>5
<1> HIDE DEF T
<1>4. \A k \in 0..Len(doc) : k \in T
  BY <1>1, <1>2, <1>3, Induction
<1>5. Covers(doc, SectionLoop(doc)[Len(doc)], Upto(doc, Len(doc)))
  BY <1>1, <1>4 DEF T
<1> QED
  BY <1>1, <1>5 DEF HeadedSections

LEMMA MergedCover ==
  ASSUME NEW doc \in Seq(ABlock), PagesInOrder(doc), NEW ss, NEW m, Covers(doc, ss, m)
  PROVE  Covers(doc, Merged(ss), m)
<1>1. ss \in Seq(ASection) /\ Len(ss) \in Nat
  BY LenProperties DEF Covers
<1>2. PICK at : CutAt(doc, ss, at) /\ at[Len(ss)] = m
  BY DEF Covers
<1> DEFINE T == {k \in 0..Len(ss) : Covers(doc, MergeLoop(ss)[k], at[k])}
<1>3. 0 \in T
  <2>1. MergeLoop(ss)[0] = <<>> /\ at[0] = 0
    BY <1>1, <1>2, MergeTurns DEF CutAt
  <2> QED
    BY <1>1, <2>1, CoversNone
<1>4. ASSUME NEW k \in 1..Len(ss), k - 1 \in T
      PROVE  k \in T
  <2>1. PICK mm : mm = MergeLoop(ss)[k - 1]
    OBVIOUS
  <2>2. Covers(doc, mm, at[k - 1]) /\ Stands(doc, ss[k], at[k - 1], at[k])
    BY <1>2, <1>4, <2>1 DEF CutAt
  <2>3. MergeLoop(ss)[k] = MergeNext(mm, ss[k])
    BY <1>1, <2>1, MergeTurns
  <2>4. Covers(doc, MergeNext(mm, ss[k]), at[k])
    <3>1. CASE mm # <<>> /\ IsThin(Last(mm)) /\ Fits(Last(mm), ss[k])
      BY <2>2, <3>1, CoversJoin DEF MergeNext
    <3>2. CASE ~(mm # <<>> /\ IsThin(Last(mm)) /\ Fits(Last(mm), ss[k]))
      BY <2>2, <3>2, CoversAppend DEF MergeNext
    <3> QED
      BY <3>1, <3>2
  <2> QED
    BY <1>1, <2>3, <2>4
<1> HIDE DEF T
<1>5. \A k \in 0..Len(ss) : k \in T
  BY <1>1, <1>3, <1>4, Induction
<1>6. Covers(doc, MergeLoop(ss)[Len(ss)], at[Len(ss)])
  BY <1>1, <1>5 DEF T
<1> QED
  BY <1>2, <1>6 DEF Merged

LEMMA FoldedCover ==
  ASSUME NEW doc \in Seq(ABlock), PagesInOrder(doc), NEW ss, NEW m, Covers(doc, ss, m)
  PROVE  Covers(doc, FoldTail(ss), m)
<1>1. ss \in Seq(ASection)
  BY DEF Covers
<1>2. CASE Len(ss) > 1 /\ IsThin(Last(ss)) /\ Fits(ss[Len(ss) - 1], Last(ss))
  <2>1. ss # <<>>
    BY <1>2, EmptySeq
  <2>2. PICK a : Covers(doc, Front(ss), a) /\ Stands(doc, Last(ss), a, m)
    BY <2>1, CoversSplit
  <2>3. Front(ss) # <<>> /\ Last(Front(ss)) = ss[Len(ss) - 1]
    <3>1. /\ Front(ss) \in Seq(ASection) /\ Len(Front(ss)) = Len(ss) - 1 /\ Len(ss) \in Nat
          /\ \A j \in 1..(Len(ss) - 1) : Front(ss)[j] = ss[j]
      BY <1>1, <2>1, FrontAre
    <3>2. Front(ss) # <<>>
      BY <1>2, <3>1, EmptySeq
    <3> QED
      BY <1>2, <3>1, <3>2 DEF Last
  <2> QED
    BY <1>2, <2>2, <2>3, CoversJoin DEF FoldTail
<1>3. CASE ~(Len(ss) > 1 /\ IsThin(Last(ss)) /\ Fits(ss[Len(ss) - 1], Last(ss)))
  BY <1>3 DEF FoldTail
<1> QED
  BY <1>2, <1>3

\* The sections of a document are its text, in order.
LEMMA SectionsCover ==
  ASSUME NEW doc \in Seq(ABlock), PagesInOrder(doc)
  PROVE  Covers(doc, Sections(doc), Len(Whole(doc)))
BY HeadedCover, MergedCover, FoldedCover DEF Sections

-----------------------------------------------------------------------------
(***************************************************************************)
(* Chunks: each is a piece of a section, and they overlap.                 *)
(***************************************************************************)

\* Chunk c is the words from f to u.
IsChunk(doc, c, f, u) ==
  /\ c \in ASection /\ f \in Nat \ {0} /\ u \in Nat /\ f <= u /\ u <= Len(Whole(doc))
  /\ u < f + Target
  /\ c.words = Piece(Whole(doc), f - 1, u)
  /\ \A i \in f..u : \/ BlockAt(doc, i).isHeading
                     \/ IsPrefix(c.path, BlockAt(doc, i).path)
  /\ \E s \in ToSet(Sections(doc)) : CutFrom(doc, c, s)

ChunkAt(doc, cs, from, upto) ==
  /\ from \in [0..Len(cs) -> Nat] /\ upto \in [0..Len(cs) -> Nat]
  /\ from[0] = 0 /\ upto[0] = 0
  /\ \A k \in 1..Len(cs) : /\ IsChunk(doc, cs[k], from[k], upto[k])
                           /\ from[k - 1] < from[k] /\ from[k] <= upto[k - 1] + 1

\* The chunks so far: the last one is from f to u.
Chunked(doc, cs, f, u) ==
  cs \in Seq(ASection) /\ \E from, upto :
    ChunkAt(doc, cs, from, upto) /\ from[Len(cs)] = f /\ upto[Len(cs)] = u

LEMMA ChunkedNone ==
  ASSUME NEW doc
  PROVE  Chunked(doc, <<>>, 0, 0)
<1>1. <<>> \in Seq(ASection) /\ Len(<<>>) = 0
  BY EmptySeq
<1>2. ChunkAt(doc, <<>>, [j \in 0..0 |-> 0], [j \in 0..0 |-> 0])
  BY <1>1 DEF ChunkAt
<1> QED
  BY <1>1, <1>2 DEF Chunked

LEMMA ChunkedAppend ==
  ASSUME NEW doc, NEW cs, NEW f, NEW u, NEW c, NEW g, NEW v, Chunked(doc, cs, f, u),
         IsChunk(doc, c, g, v), f < g, g <= u + 1
  PROVE  Chunked(doc, Append(cs, c), g, v)
<1>1. cs \in Seq(ASection) /\ c \in ASection /\ g \in Nat /\ v \in Nat
  BY DEF Chunked, IsChunk
<1>2. PICK from, upto : ChunkAt(doc, cs, from, upto) /\ from[Len(cs)] = f /\ upto[Len(cs)] = u
  BY DEF Chunked
<1>3. PICK n \in Nat : n = Len(cs)
  BY <1>1, LenProperties
<1>4. PICK tt \in Seq(ASection) : tt = Append(cs, c)
  BY <1>1, AppendProperties
<1>5. Len(tt) = n + 1 /\ tt[n + 1] = c /\ \A j \in 1..n : tt[j] = cs[j]
  BY <1>1, <1>3, <1>4, AppendProperties
<1>6. PICK from2, upto2 : /\ from2 = [j \in 0..(n + 1) |-> IF j = n + 1 THEN g ELSE from[j]]
                          /\ upto2 = [j \in 0..(n + 1) |-> IF j = n + 1 THEN v ELSE upto[j]]
  OBVIOUS
<1>7. /\ from2 \in [0..(n + 1) -> Nat] /\ from2[0] = 0 /\ from2[n + 1] = g
      /\ \A j \in 0..n : from2[j] = from[j]
  BY <1>1, <1>2, <1>3, <1>6 DEF ChunkAt
<1>8. /\ upto2 \in [0..(n + 1) -> Nat] /\ upto2[0] = 0 /\ upto2[n + 1] = v
      /\ \A j \in 0..n : upto2[j] = upto[j]
  BY <1>1, <1>2, <1>3, <1>6 DEF ChunkAt
<1>9. ASSUME NEW j \in 1..(n + 1)
      PROVE  /\ IsChunk(doc, tt[j], from2[j], upto2[j])
             /\ from2[j - 1] < from2[j] /\ from2[j] <= upto2[j - 1] + 1
  <2>1. CASE j = n + 1
    <3>1. tt[j] = c /\ from2[j] = g /\ upto2[j] = v /\ j - 1 = n
      BY <1>5, <1>7, <1>8, <2>1
    <3>2. from2[n] = f /\ upto2[n] = u
      BY <1>2, <1>3, <1>7, <1>8
    <3> QED
      BY <3>1, <3>2
  <2>2. CASE j # n + 1
    <3>1. j \in 1..n /\ j - 1 \in 0..n /\ j \in 0..n
      BY <2>2
    <3>2. IsChunk(doc, cs[j], from[j], upto[j]) /\ from[j - 1] < from[j] /\ from[j] <= upto[j - 1] + 1
      BY <1>2, <1>3, <3>1 DEF ChunkAt
    <3>3. tt[j] = cs[j] /\ from2[j] = from[j] /\ from2[j - 1] = from[j - 1]
      BY <1>5, <1>7, <3>1
    <3>4. upto2[j] = upto[j] /\ upto2[j - 1] = upto[j - 1]
      BY <1>8, <3>1
    <3> QED
      BY <3>2, <3>3, <3>4
  <2> QED
    BY <2>1, <2>2
<1>10. ChunkAt(doc, tt, from2, upto2) /\ from2[Len(tt)] = g /\ upto2[Len(tt)] = v
  BY <1>5, <1>7, <1>8, <1>9 DEF ChunkAt
<1> QED
  BY <1>4, <1>10 DEF Chunked

\* What a section says of its pages, and where the words of its windows are.
LEMMA WindowIsCut ==
  ASSUME NEW doc \in Seq(ABlock), NEW s, NEW a, NEW b, Stands(doc, s, a, b),
         NEW i \in Nat, NEW j \in Nat, i < j, j <= b - a, (i = 0 /\ j = b - a) \/ b - a >= Target
  PROVE  CutFrom(doc, Window(s, i, j), s)
<1>1. s \in ASection /\ a \in Nat /\ b \in Nat /\ a < b /\ b <= Len(Whole(doc))
  BY DEF Stands
<1>2. PICK t \in Seq(AWord), w \in Seq(AWord) : t = Whole(doc) /\ w = s.words
  BY <1>1, TextPieces DEF ASection
<1>3. w = Piece(t, a, b) /\ a <= b /\ b <= Len(t)
  BY <1>1, <1>2 DEF Stands
<1>4. Len(w) = b - a /\ DOMAIN w = 1..Len(w) /\ \A k \in 1..(b - a) : w[k] = t[a + k]
  <2>1. PICK e \in Nat, v \in Nat : e = a /\ v = b
    BY <1>1
  <2>2. w = Piece(t, e, v) /\ e <= v /\ v <= Len(t)
    BY <1>3, <2>1
  <2>3. Len(Piece(t, e, v)) = v - e
    BY <2>2, PieceIs
  <2>4. \A k \in 1..(v - e) : Piece(t, e, v)[k] = t[e + k]
    BY <2>2, PieceIs
  <2>5. Len(w) = b - a /\ \A k \in 1..(b - a) : w[k] = t[a + k]
    BY <2>1, <2>2, <2>3, <2>4
  <2> QED
    BY <2>5, LenProperties
<1>5. Head(w) = t[a + 1] /\ Last(w) = t[b]
  <2>1. w[1] = t[a + 1] /\ w[b - a] = t[b]
    <3>1. PICK n \in Nat : n = b - a
      BY <1>1
    <3>2. 1 \in 1..n /\ n \in 1..n /\ a + n = b
      BY <1>1, <3>1
    <3>3. \A k \in 1..n : w[k] = t[a + k]
      BY <1>4, <3>1
    <3> QED
      BY <3>1, <3>2, <3>3
  <2>2. Head(w) = w[1]
    BY <1>1, <1>4, HeadTailProperties, EmptySeq
  <2> QED
    BY <1>4, <2>1, <2>2 DEF Last
<1>6. i <= j /\ j <= Len(w)
  BY <1>1, <1>4
<1>7. /\ Piece(w, i, j) \in Seq(AWord) /\ Len(Piece(w, i, j)) = j - i
      /\ \A k \in 1..(j - i) : Piece(w, i, j)[k] = w[i + k]
  BY <1>6, PieceIs
<1>8. PICK v \in Seq(AWord) : v = Piece(w, i, j)
  BY <1>7
<1>9. ToSet(v) \subseteq ToSet(w)
  <2> SUFFICES ASSUME NEW k \in DOMAIN v PROVE v[k] \in ToSet(w)
    BY DEF ToSet
  <2>1. k \in 1..(j - i)
    BY <1>7, <1>8, LenProperties
  <2>2. v[k] = w[i + k] /\ i + k \in DOMAIN w
    BY <1>4, <1>6, <1>7, <1>8, <2>1
  <2> QED
    BY <2>2 DEF ToSet
<1>10. v # w => Len(w) >= Target
  <2>1. CASE b - a >= Target
    BY <1>4, <2>1
  <2>2. CASE i = 0 /\ j = b - a
    <3>1. Len(v) = Len(w) /\ \A k \in 1..Len(w) : v[k] = w[k]
      BY <1>1, <1>4, <1>7, <1>8, <2>2
    <3> QED
      BY <3>1, SeqEqual
  <2> QED
    BY <2>1, <2>2
<1>11. PICK c : c = [s EXCEPT !.words = v]
  OBVIOUS
<1>12. c.words = v /\ c.from = s.from /\ c.to = s.to
  BY <1>1, <1>11 DEF ASection
<1>13. Window(s, i, j) = c
  BY <1>2, <1>8, <1>11 DEF Window, Piece
<1>14. s.from = doc[t[a + 1][1]].page /\ s.to = doc[t[b][1]].page
  BY <1>2 DEF Stands, BlockAt
<1> QED
  BY <1>2, <1>5, <1>9, <1>10, <1>12, <1>13, <1>14 DEF CutFrom

\* A window of a section is a chunk.
LEMMA WindowIsChunk ==
  ASSUME NEW doc \in Seq(ABlock), NEW s \in ToSet(Sections(doc)), NEW a, NEW b,
         Stands(doc, s, a, b), NEW i \in Nat, NEW j \in Nat, i < j, j <= b - a,
         j <= i + Target, (i = 0 /\ j = b - a) \/ b - a >= Target
  PROVE  IsChunk(doc, Window(s, i, j), a + i + 1, a + j)
<1>1. s \in ASection /\ a \in Nat /\ b \in Nat /\ a < b /\ b <= Len(Whole(doc))
  BY DEF Stands
<1>2. Whole(doc) \in Seq(AWord) /\ Len(Whole(doc)) \in Nat
  BY TextPieces
<1>3. Target \in Nat
  BY ChunkerAssumption
<1>4. PICK t \in Seq(AWord) : t = Whole(doc)
  BY <1>2
<1>5. Piece(Piece(t, a, b), i, j) = Piece(t, a + i, a + j)
  <2>1. a <= b /\ b <= Len(t) /\ i <= j
    BY <1>1, <1>4
  <2> QED
    BY <1>1, <2>1, PieceOfPiece
<1>6. SubSeq(s.words, i + 1, j) = Piece(t, a + i, a + j)
  BY <1>4, <1>5 DEF Stands, Piece
<1>7. Piece(t, a + i, a + j) \in Seq(AWord)
  <2>1. PICK x \in Nat, y \in Nat : x = a + i /\ y = a + j
    BY <1>1
  <2>2. x <= y /\ y <= Len(t)
    BY <1>1, <1>4, <2>1
  <2> QED
    BY <2>1, <2>2, PieceIs
<1>8. PICK w \in Seq(AWord) : w = SubSeq(s.words, i + 1, j) /\ w = Piece(t, a + i, a + j)
  BY <1>6, <1>7
<1>9. PICK c : c = [s EXCEPT !.words = w]
  OBVIOUS
<1>10. c \in ASection /\ c.words = w /\ c.path = s.path /\ c.from = s.from /\ c.to = s.to
  BY <1>1, <1>9 DEF ASection
<1>11. Window(s, i, j) = c
  BY <1>8, <1>9 DEF Window
<1>12. PICK f \in Nat, u \in Nat : f = a + i + 1 /\ u = a + j
  BY <1>1
<1>13. f - 1 = a + i /\ f # 0 /\ f <= u /\ u <= Len(Whole(doc)) /\ u < f + Target
  BY <1>1, <1>2, <1>3, <1>12
<1>14. ASSUME NEW k \in f..u
       PROVE  BlockAt(doc, k).isHeading \/ IsPrefix(c.path, BlockAt(doc, k).path)
  <2>1. k \in (a + 1)..b
    BY <1>1, <1>2, <1>12
  <2> QED
    BY <1>10, <2>1 DEF Stands
<1>15. c.words = Piece(Whole(doc), f - 1, u)
  BY <1>4, <1>8, <1>10, <1>12, <1>13
<1>16. CutFrom(doc, c, s)
  BY <1>11, WindowIsCut
<1> QED
  BY <1>10, <1>11, <1>12, <1>13, <1>14, <1>15, <1>16 DEF IsChunk

LEMMA ConcatAppend ==
  ASSUME NEW S, NEW s \in Seq(S), NEW t \in Seq(S), NEW e \in S
  PROVE  s \o Append(t, e) = Append(s \o t, e)
<1>1. Append(t, e) = t \o <<e>> /\ <<e>> \in Seq(S)
  BY AppendIsConcat
<1>2. s \o t \in Seq(S)
  BY ConcatProperties
<1>3. Append(s \o t, e) = (s \o t) \o <<e>>
  BY <1>2, AppendIsConcat
<1>4. (s \o t) \o <<e>> = s \o (t \o <<e>>)
  BY <1>1, ConcatAssociative
<1> QED
  BY <1>1, <1>3, <1>4

\* The cutting of section s after k turns, behind chunks cs: what is left begins no
\* later than where the last chunk ends, and after where that begins.
CutStands(doc, s, a, b, cs, c, k) ==
  /\ c.start \in Nat /\ c.start <= b - a /\ c.cut \in Seq(ASection)
  /\ c.start >= k \/ b - a - c.start < Target
  /\ c.start = 0 \/ b - a >= Target
  /\ \E f, u : /\ Chunked(doc, cs \o c.cut, f, u) /\ f \in Nat /\ u \in Nat
               /\ f <= a + c.start /\ a + c.start <= u /\ u <= b

LEMMA CutTurn ==
  ASSUME NEW doc \in Seq(ABlock), NEW s \in ToSet(Sections(doc)), NEW a, NEW b,
         Stands(doc, s, a, b), NEW cs \in Seq(ASection), NEW c, NEW k \in Nat, Len(s.words) = b - a,
         CutStands(doc, s, a, b, cs, c, k)
  PROVE  CutStands(doc, s, a, b, cs, CutNext(s, c), k + 1)
<1>1. a \in Nat /\ b \in Nat /\ a < b
  BY DEF Stands
<1>2. /\ Target \in Nat /\ Target # 0 /\ Overlap \in Nat /\ Overlap < Target
  BY ChunkerAssumption
<1>3. CASE ~(Len(s.words) - c.start >= Target)
  <2>1. CutNext(s, c) = c
    BY <1>3 DEF CutNext
  <2>2. b - a - c.start < Target
    BY <1>1, <1>2, <1>3 DEF CutStands
  <2> QED
    BY <2>1, <2>2 DEF CutStands
<1>4. CASE Len(s.words) - c.start >= Target
  <2>1. PICK st \in Nat, cut \in Seq(ASection) : st = c.start /\ cut = c.cut
    BY DEF CutStands
  <2>2. PICK f \in Nat, u \in Nat : /\ Chunked(doc, cs \o cut, f, u)
                                    /\ f <= a + st /\ a + st <= u /\ u <= b
    BY <2>1 DEF CutStands
  <2>3. PICK w : w = Window(s, st, st + Target)
    OBVIOUS
  <2>4. PICK en \in Nat, g \in Nat, v \in Nat : en = st + Target /\ g = a + st + 1 /\ v = a + en
    BY <1>1, <1>2
  <2>5. st < en /\ en <= b - a /\ en <= st + Target /\ b - a >= Target
    <3>1. (b - a) - st >= Target
      BY <1>4, <2>1
    <3>2. st + Target <= b - a
      BY <1>1, <1>2, <3>1
    <3> QED
      BY <1>1, <1>2, <2>4, <3>2
  <2>6. IsChunk(doc, w, g, v)
    <3>1. IsChunk(doc, Window(s, st, en), a + st + 1, a + en)
      BY <2>5, WindowIsChunk
    <3> QED
      BY <2>3, <2>4, <3>1
  <2>7. f < g /\ g <= u + 1
    BY <1>1, <2>2, <2>4
  <2>8. Chunked(doc, Append(cs \o cut, w), g, v)
    BY <2>2, <2>6, <2>7, ChunkedAppend
  <2>9. cs \o Append(cut, w) = Append(cs \o cut, w) /\ Append(cut, w) \in Seq(ASection)
    <3>1. w \in ASection
      BY <2>6 DEF IsChunk
    <3> QED
      BY <3>1, ConcatAppend, AppendProperties
  <2>10. PICK d : d = CutNext(s, c)
    OBVIOUS
  <2>11. d.start = st + (Target - Overlap) /\ d.cut = Append(cut, w)
    BY <1>4, <2>1, <2>3, <2>10 DEF CutNext
  <2>12. d.start \in Nat /\ d.start <= b - a /\ d.start >= st + 1
    BY <1>1, <1>2, <2>4, <2>5, <2>11
  <2>13. g <= a + d.start /\ a + d.start <= v /\ v <= b
    BY <1>1, <1>2, <2>4, <2>5, <2>11
  <2>14. d.start >= k + 1
    <3>0. c.start >= k \/ b - a - c.start < Target
      BY DEF CutStands
    <3>1. st >= k
      BY <1>1, <1>2, <1>4, <2>1, <3>0
    <3> QED
      BY <2>12, <3>1
  <2>15. Chunked(doc, cs \o d.cut, g, v) /\ d.cut \in Seq(ASection)
    BY <2>8, <2>9, <2>11
  <2> QED
    BY <2>5, <2>10, <2>12, <2>13, <2>14, <2>15 DEF CutStands
<1> QED
  BY <1>3, <1>4

LEMMA EmitChunks ==
  ASSUME NEW doc \in Seq(ABlock), NEW s \in ToSet(Sections(doc)), NEW a, NEW b,
         Stands(doc, s, a, b), NEW cs, NEW f \in Nat, Chunked(doc, cs, f, a), f <= a
  PROVE  \E g \in Nat : Chunked(doc, cs \o Emit(s), g, b) /\ g <= b
<1>1. s \in ASection /\ a \in Nat /\ b \in Nat /\ a < b /\ b <= Len(Whole(doc)) /\ cs \in Seq(ASection)
  BY DEF Stands, Chunked
<1>2. Target \in Nat /\ Target # 0
  BY ChunkerAssumption
<1>3. PICK n \in Nat : n = b - a
  BY <1>1
<1>4. Len(s.words) = n
  <2>1. Whole(doc) \in Seq(AWord) /\ a <= b
    BY <1>1, TextPieces
  <2>2. Len(Piece(Whole(doc), a, b)) = b - a
    BY <1>1, <2>1, PieceIs
  <2> QED
    BY <1>3, <2>2 DEF Stands
<1> DEFINE T == {k \in 0..n : CutStands(doc, s, a, b, cs, CutLoop(s)[k], k)}
<1>5. 0 \in T
  <2>1. CutLoop(s)[0] = [start |-> 0, cut |-> <<>>]
    BY <1>4, CutTurns
  <2>2. cs \o <<>> = cs /\ <<>> \in Seq(ASection)
    BY <1>1, ConcatEmptySeq, EmptySeq
  <2>3. CutStands(doc, s, a, b, cs, [start |-> 0, cut |-> <<>>], 0)
    BY <1>1, <2>2 DEF CutStands
  <2> QED
    BY <2>1, <2>3
<1>6. ASSUME NEW k \in 1..n, k - 1 \in T
      PROVE  k \in T
  <2>1. CutLoop(s)[k] = CutNext(s, CutLoop(s)[k - 1])
    BY <1>4, CutTurns
  <2>2. PICK m \in Nat : m = k - 1 /\ k = m + 1
    OBVIOUS
  <2>3. CutStands(doc, s, a, b, cs, CutLoop(s)[m], m)
    BY <1>6, <2>2
  <2>4. CutStands(doc, s, a, b, cs, CutNext(s, CutLoop(s)[m]), m + 1)
    BY <1>1, <1>3, <1>4, <2>3, CutTurn
  <2> QED
    BY <2>1, <2>2, <2>4
<1> HIDE DEF T
<1>7. \A k \in 0..n : k \in T
  BY <1>5, <1>6, Induction
<1>8. PICK c : c = AllCut(s)
  OBVIOUS
<1>9. CutStands(doc, s, a, b, cs, c, n)
  BY <1>4, <1>7, <1>8 DEF T, AllCut
<1>10. PICK st \in Nat, cut \in Seq(ASection) : st = c.start /\ cut = c.cut
  BY <1>9 DEF CutStands
<1>11. PICK h \in Nat, u \in Nat : /\ Chunked(doc, cs \o cut, h, u)
                                   /\ h <= a + st /\ a + st <= u /\ u <= b
  BY <1>9, <1>10 DEF CutStands
<1>12. CASE st < n
  <2>1. n - st < Target
    <3>1. st >= n \/ b - a - st < Target
      BY <1>9, <1>10 DEF CutStands
    <3> QED
      BY <1>1, <1>2, <1>3, <1>12, <3>1
  <2>2. PICK w : w = Window(s, st, n)
    OBVIOUS
  <2>3. PICK g \in Nat : g = a + st + 1
    BY <1>1
  <2>4. IsChunk(doc, w, g, b)
    <3>0. st = 0 \/ b - a >= Target
      BY <1>9, <1>10 DEF CutStands
    <3>1. n <= b - a /\ n <= st + Target /\ ((st = 0 /\ n = b - a) \/ b - a >= Target)
      BY <1>1, <1>2, <1>3, <2>1, <3>0
    <3>2. IsChunk(doc, Window(s, st, n), a + st + 1, a + n)
      BY <1>12, <3>1, WindowIsChunk
    <3>3. a + n = b
      BY <1>1, <1>3
    <3> QED
      BY <2>2, <2>3, <3>2, <3>3
  <2>5. h < g /\ g <= u + 1 /\ g <= b
    BY <1>1, <1>3, <1>11, <1>12, <2>3
  <2>6. Chunked(doc, Append(cs \o cut, w), g, b)
    BY <1>11, <2>4, <2>5, ChunkedAppend
  <2>7. cs \o Append(cut, w) = Append(cs \o cut, w)
    <3>1. w \in ASection
      BY <2>4 DEF IsChunk
    <3> QED
      BY <1>1, <3>1, ConcatAppend
  <2>8. Emit(s) = Append(cut, w)
    BY <1>4, <1>8, <1>10, <1>12, <2>2 DEF Emit
  <2> QED
    BY <2>5, <2>6, <2>7, <2>8
<1>13. CASE ~(st < n)
  <2>1. u = b /\ h <= b
    BY <1>1, <1>3, <1>11, <1>13
  <2>2. Emit(s) = cut
    BY <1>4, <1>8, <1>10, <1>13 DEF Emit
  <2> QED
    BY <1>11, <2>1, <2>2
<1> QED
  BY <1>12, <1>13

\* The chunks of a document are its text, in order.
LEMMA ChunksCover ==
  ASSUME NEW doc \in Seq(ABlock), PagesInOrder(doc)
  PROVE  \E f \in Nat : Chunked(doc, Chunk(doc), f, Len(Whole(doc)))
<1>1. PICK ss : ss = Sections(doc)
  OBVIOUS
<1>2. Covers(doc, ss, Len(Whole(doc)))
  BY <1>1, SectionsCover
<1>3. ss \in Seq(ASection) /\ Len(ss) \in Nat
  BY <1>2, LenProperties DEF Covers
<1>4. PICK at : CutAt(doc, ss, at) /\ at[Len(ss)] = Len(Whole(doc))
  BY <1>2 DEF Covers
<1> DEFINE T == {k \in 0..Len(ss) : \E f \in Nat : Chunked(doc, EmitLoop(ss)[k], f, at[k]) /\ f <= at[k]}
<1>5. 0 \in T
  <2>1. EmitLoop(ss)[0] = <<>> /\ at[0] = 0
    BY <1>3, <1>4, EmitTurns DEF CutAt
  <2>2. Chunked(doc, EmitLoop(ss)[0], 0, at[0]) /\ 0 <= at[0]
    BY <2>1, ChunkedNone
  <2> QED
    BY <1>3, <2>2
<1>6. ASSUME NEW k \in 1..Len(ss), k - 1 \in T
      PROVE  k \in T
  <2>0. ss[k] \in ToSet(Sections(doc))
    BY <1>1, <1>3, LenProperties DEF ToSet
  <2>1. PICK f \in Nat : Chunked(doc, EmitLoop(ss)[k - 1], f, at[k - 1]) /\ f <= at[k - 1]
    BY <1>6
  <2>2. Stands(doc, ss[k], at[k - 1], at[k])
    BY <1>4 DEF CutAt
  <2>3. PICK g \in Nat : Chunked(doc, EmitLoop(ss)[k - 1] \o Emit(ss[k]), g, at[k]) /\ g <= at[k]
    BY <2>0, <2>1, <2>2, EmitChunks
  <2>4. EmitLoop(ss)[k] = EmitLoop(ss)[k - 1] \o Emit(ss[k])
    BY <1>3, EmitTurns
  <2>5. Chunked(doc, EmitLoop(ss)[k], g, at[k])
    BY <2>3, <2>4
  <2>6. k \in 0..Len(ss)
    BY <1>3
  <2> QED
    BY <2>3, <2>5, <2>6
<1> HIDE DEF T
<1>7. \A k \in 0..Len(ss) : k \in T
  BY <1>3, <1>5, <1>6, Induction
<1>8. Len(ss) \in T
  BY <1>3, <1>7
<1> QED
  BY <1>1, <1>4, <1>8 DEF T, Chunk

-----------------------------------------------------------------------------
(***************************************************************************)
(* What that says of the chunks that are kept for a document.              *)
(***************************************************************************)

\* The words of a chunk, one by one.
LEMMA ChunkWords ==
  ASSUME NEW doc \in Seq(ABlock), NEW c, NEW f, NEW u, IsChunk(doc, c, f, u)
  PROVE  /\ c.words \in Seq(AWord) /\ Len(c.words) = u - f + 1 /\ Len(c.words) \in 1..Target
         /\ DOMAIN c.words = 1..Len(c.words)
         /\ c.words = SubSeq(Whole(doc), f, u)
         /\ \A i \in 1..Len(c.words) : c.words[i] = Whole(doc)[f + i - 1] /\ f + i - 1 \in f..u
         /\ Head(c.words) = Whole(doc)[f] /\ Last(c.words) = Whole(doc)[u]
<1>1. /\ c \in ASection /\ f \in Nat \ {0} /\ u \in Nat /\ f <= u /\ u <= Len(Whole(doc))
      /\ u < f + Target /\ c.words = Piece(Whole(doc), f - 1, u)
  BY DEF IsChunk
<1>2. Target \in Nat
  BY ChunkerAssumption
<1>3. PICK t \in Seq(AWord), e \in Nat, v \in Nat : t = Whole(doc) /\ e = f - 1 /\ v = u
  BY <1>1, TextPieces
<1>4. PICK w \in Seq(AWord) : w = c.words
  BY <1>1 DEF ASection
<1>5. e <= v /\ v <= Len(t)
  BY <1>1, <1>3
<1>6. Len(w) = u - e
  <2>1. Len(Piece(t, e, v)) = v - e
    BY <1>5, PieceIs
  <2> QED
    BY <1>1, <1>3, <1>4, <2>1
<1>7. \A i \in 1..(u - e) : w[i] = t[e + i]
  <2>1. \A i \in 1..(v - e) : Piece(t, e, v)[i] = t[e + i]
    BY <1>5, PieceIs
  <2> QED
    BY <1>1, <1>3, <1>4, <2>1
<1>8. Len(w) = u - f + 1 /\ Len(w) \in 1..Target /\ DOMAIN w = 1..Len(w)
  BY <1>1, <1>2, <1>3, <1>6, LenProperties
<1>9. \A i \in 1..Len(w) : w[i] = t[f + i - 1] /\ f + i - 1 \in f..u
  BY <1>1, <1>3, <1>6, <1>7
<1>10. Head(w) = t[f] /\ Last(w) = t[u]
  <2>1. w[1] = t[e + 1] /\ w[u - e] = t[e + (u - e)] /\ e + 1 = f /\ e + (u - e) = u
    BY <1>1, <1>3, <1>7
  <2>2. Head(w) = w[1]
    BY <1>8, HeadTailProperties, EmptySeq
  <2> QED
    BY <1>6, <2>1, <2>2 DEF Last
<1>11. w = SubSeq(t, f, u)
  BY <1>1, <1>3, <1>4 DEF Piece
<1> QED
  BY <1>3, <1>4, <1>8, <1>9, <1>10, <1>11

\* Whatever the blocks, every word of them is in a chunk, in its order.
LEMMA ChunksCoverTheText ==
  ASSUME blocks \in Seq(ABlock), PagesInOrder(blocks), chunks = Chunk(blocks)
  PROVE  ChunksCoverTheDocument
<1> DEFINE text == Text(blocks)[Len(blocks)]
           At(word) == CHOOSE i \in DOMAIN text : text[i] = word
<1>1. text = Whole(blocks) /\ text \in Seq(AWord) /\ Len(text) \in Nat /\ DOMAIN text = 1..Len(text)
  BY TextPieces, LenProperties DEF Whole
<1>2. \A i \in 1..Len(text) : At(text[i]) = i
  <2> SUFFICES ASSUME NEW i \in 1..Len(text) PROVE At(text[i]) = i
    OBVIOUS
  <2>1. \A j \in 1..Len(text) : text[i] = text[j] => i = j
    <3> SUFFICES ASSUME NEW j \in 1..Len(text), text[i] = text[j] PROVE i = j
      OBVIOUS
    <3>1. CASE i <= j
      BY <1>1, <3>1, TextInOrder
    <3>2. CASE j <= i
      BY <1>1, <3>2, TextInOrder
    <3> QED
      BY <1>1, <3>1, <3>2
  <2> HIDE DEF text
  <2> QED
    BY <1>1, <2>1
<1> HIDE DEF text, At
<1>3. PICK n \in Nat : Chunked(blocks, chunks, n, Len(text))
  BY <1>1, ChunksCover
<1>4. chunks \in Seq(ASection) /\ Len(chunks) \in Nat /\ DOMAIN chunks = 1..Len(chunks)
  BY <1>3, LenProperties DEF Chunked
<1>5. PICK f, u : ChunkAt(blocks, chunks, f, u) /\ u[Len(chunks)] = Len(text)
  BY <1>3 DEF Chunked
<1>6. \A k \in 1..Len(chunks) : /\ IsChunk(blocks, chunks[k], f[k], u[k])
                                /\ f[k - 1] < f[k] /\ f[k] <= u[k - 1] + 1
  BY <1>5 DEF ChunkAt
<1> DEFINE from == [k \in DOMAIN chunks |-> At(Head(chunks[k].words))]
           upto == [k \in DOMAIN chunks |-> At(Last(chunks[k].words))]
<1>7. ASSUME NEW k \in 1..Len(chunks)
      PROVE  /\ from[k] = f[k] /\ upto[k] = u[k] /\ Len(chunks[k].words) \in 1..Target
             /\ chunks[k].words = SubSeq(text, f[k], u[k])
  <2>1. IsChunk(blocks, chunks[k], f[k], u[k])
    BY <1>6
  <2>2. /\ Len(chunks[k].words) \in 1..Target
        /\ chunks[k].words = SubSeq(text, f[k], u[k])
        /\ Head(chunks[k].words) = text[f[k]] /\ Last(chunks[k].words) = text[u[k]]
    <3>1. PICK c, g, v : c = chunks[k] /\ g = f[k] /\ v = u[k]
      OBVIOUS
    <3>2. IsChunk(blocks, c, g, v)
      BY <2>1, <3>1
    <3>3. Len(c.words) \in 1..Target /\ c.words = SubSeq(Whole(blocks), g, v)
      BY <3>2, ChunkWords
    <3>4. Head(c.words) = Whole(blocks)[g] /\ Last(c.words) = Whole(blocks)[v]
      BY <3>2, ChunkWords
    <3> QED
      BY <1>1, <3>1, <3>3, <3>4
  <2>3. f[k] \in 1..Len(text) /\ u[k] \in 1..Len(text)
    BY <1>1, <2>1 DEF IsChunk
  <2> QED
    BY <1>2, <1>4, <2>2, <2>3
<1>8. ASSUME NEW k \in DOMAIN chunks
      PROVE  /\ Len(chunks[k].words) \in 1..Target
             /\ chunks[k].words = SubSeq(text, from[k], upto[k])
             /\ k > 1 => from[k - 1] < from[k] /\ from[k] <= upto[k - 1] + 1
  <2>1. k \in 1..Len(chunks)
    BY <1>4
  <2>2. k > 1 => from[k - 1] = f[k - 1] /\ upto[k - 1] = u[k - 1]
    BY <1>4, <1>7, <2>1
  <2> HIDE DEF from, upto
  <2> QED
    BY <1>6, <1>7, <2>1, <2>2
<1>9. text # <<>> => from[1] = 1 /\ upto[Len(chunks)] = Len(text)
  <2> SUFFICES ASSUME text # <<>> PROVE from[1] = 1 /\ upto[Len(chunks)] = Len(text)
    OBVIOUS
  <2>1. Len(text) # 0
    BY <1>1, EmptySeq
  <2>2. u[0] = 0 /\ f[0] = 0
    BY <1>5 DEF ChunkAt
  <2>3. Len(chunks) # 0
    BY <1>5, <2>1, <2>2
  <2>4. 1 \in 1..Len(chunks) /\ Len(chunks) \in 1..Len(chunks)
    BY <1>4, <2>3
  <2>5. f[1] = 1
    <3>1. f[1 - 1] < f[1] /\ f[1] <= u[1 - 1] + 1
      BY <1>6, <2>4
    <3>2. f[1] \in Nat
      BY <1>6, <2>4 DEF IsChunk
    <3> QED
      BY <2>2, <3>1, <3>2
  <2> HIDE DEF from, upto
  <2> QED
    BY <1>5, <1>7, <2>4, <2>5
<1> QED
  BY <1>8, <1>9 DEF ChunksCoverTheDocument, text, At

\* Whatever the blocks, a chunk's heading encloses its text, and its pages are
\* those of its section.
LEMMA ChunksAreHonest ==
  ASSUME blocks \in Seq(ABlock), PagesInOrder(blocks), chunks = Chunk(blocks)
  PROVE  HeadingsAreHonest /\ PagesAreTheSections
<1>1. PICK n \in Nat : Chunked(blocks, chunks, n, Len(Whole(blocks)))
  BY ChunksCover
<1>2. chunks \in Seq(ASection) /\ Len(chunks) \in Nat /\ DOMAIN chunks = 1..Len(chunks)
  BY <1>1, LenProperties DEF Chunked
<1>3. PICK f, u : ChunkAt(blocks, chunks, f, u)
  BY <1>1 DEF Chunked
<1>4. ASSUME NEW k \in DOMAIN chunks, NEW i \in DOMAIN chunks[k].words
      PROVE  \/ blocks[chunks[k].words[i][1]].isHeading
             \/ IsPrefix(chunks[k].path, blocks[chunks[k].words[i][1]].path)
  <2>1. PICK c, g, v : c = chunks[k] /\ g = f[k] /\ v = u[k]
    OBVIOUS
  <2>2. IsChunk(blocks, c, g, v)
    BY <1>2, <1>3, <2>1 DEF ChunkAt
  <2>3. i \in 1..Len(c.words)
    BY <2>1, <2>2, ChunkWords
  <2>4. c.words[i] = Whole(blocks)[g + i - 1] /\ g + i - 1 \in g..v
    BY <2>2, <2>3, ChunkWords
  <2>5. PICK j \in g..v : c.words[i] = Whole(blocks)[j]
    BY <2>4
  <2>6. BlockAt(blocks, j) = blocks[c.words[i][1]]
    BY <2>5 DEF BlockAt
  <2> QED
    BY <2>1, <2>2, <2>5, <2>6 DEF IsChunk
<1>5. ASSUME NEW k \in DOMAIN chunks
      PROVE  \E s \in ToSet(Sections(blocks)) : CutFrom(blocks, chunks[k], s)
  <2>1. PICK c, g, v : c = chunks[k] /\ g = f[k] /\ v = u[k]
    OBVIOUS
  <2>2. IsChunk(blocks, c, g, v)
    BY <1>2, <1>3, <2>1 DEF ChunkAt
  <2> QED
    BY <2>1, <2>2 DEF IsChunk
<1> QED
  BY <1>4, <1>5 DEF HeadingsAreHonest, PagesAreTheSections

-----------------------------------------------------------------------------
(***************************************************************************)
(* Merging leaves a thin section alone only where nothing fits.            *)
(***************************************************************************)

LEMMA JoinedIs ==
  ASSUME NEW s \in ASection, NEW u \in ASection
  PROVE  /\ Joined(s, u) \in ASection
         /\ Len(Joined(s, u).words) = Len(s.words) + Len(u.words)
         /\ Joined(s, u).body = (s.body \/ u.body)
         /\ Len(s.words) \in Nat /\ Len(u.words) \in Nat /\ s.body \in BOOLEAN /\ u.body \in BOOLEAN
<1>1. s.words \in Seq(AWord) /\ u.words \in Seq(AWord) /\ s.path \in Seq(Nat) /\ u.path \in Seq(Nat)
  BY DEF ASection
<1>2. JoinedPath(s, u) \in Seq(Nat)
  BY <1>1, CommonPathIs DEF JoinedPath
<1>3. PICK w : w = s.words \o u.words
  OBVIOUS
<1>4. w \in Seq(AWord) /\ Len(w) = Len(s.words) + Len(u.words)
  BY <1>1, <1>3, ConcatProperties
<1>5. PICK j : j = Joined(s, u)
  OBVIOUS
<1>6. /\ j.path = JoinedPath(s, u) /\ j.words = w /\ j.body = (s.body \/ u.body)
  BY <1>3, <1>5 DEF Joined
<1>7. j \in ASection
  BY <1>2, <1>3, <1>4, <1>5 DEF Joined, ASection
<1>8. Len(s.words) \in Nat /\ Len(u.words) \in Nat /\ s.body \in BOOLEAN /\ u.body \in BOOLEAN
  BY <1>1, LenProperties DEF ASection
<1> QED
  BY <1>4, <1>5, <1>6, <1>7, <1>8

\* Section u has the text of s, and perhaps more.
More(s, u) == Len(s.words) <= Len(u.words) /\ (s.body => u.body)

LEMMA MoreIs ==
  ASSUME NEW s \in ASection, NEW u \in ASection, NEW p \in ASection, NEW q \in ASection
  PROVE  /\ More(s, s) /\ More(s, Joined(s, u)) /\ More(u, Joined(s, u))
         /\ More(s, u) /\ More(u, p) => More(s, p)
         /\ More(s, u) => /\ Fits(p, u) => Fits(p, s)
                          /\ IsThin(u) => IsThin(s)
                          /\ More(Joined(p, s), Joined(p, u))
<1>1. /\ Len(s.words) \in Nat /\ Len(u.words) \in Nat /\ Len(p.words) \in Nat
      /\ s.body \in BOOLEAN /\ u.body \in BOOLEAN /\ p.body \in BOOLEAN
  BY JoinedIs
<1>2. /\ Len(Joined(s, u).words) = Len(s.words) + Len(u.words)
      /\ Joined(s, u).body = (s.body \/ u.body)
      /\ Len(Joined(p, s).words) = Len(p.words) + Len(s.words)
      /\ Joined(p, s).body = (p.body \/ s.body)
      /\ Len(Joined(p, u).words) = Len(p.words) + Len(u.words)
      /\ Joined(p, u).body = (p.body \/ u.body)
  BY JoinedIs
<1>3. More(s, s) /\ More(s, Joined(s, u)) /\ More(u, Joined(s, u))
  <2>1. PICK x \in Nat, y \in Nat : x = Len(s.words) /\ y = Len(u.words)
    BY <1>1
  <2>2. x <= x /\ x <= x + y /\ y <= x + y
    OBVIOUS
  <2>3. /\ Len(s.words) <= Len(s.words) /\ Len(s.words) <= Len(Joined(s, u).words)
        /\ Len(u.words) <= Len(Joined(s, u).words)
    BY <1>2, <2>1, <2>2
  <2>4. (s.body => Joined(s, u).body) /\ (u.body => Joined(s, u).body)
    BY <1>2, Zenon
  <2> QED
    BY <2>3, <2>4, Zenon DEF More
<1>4. More(s, u) /\ More(u, p) => More(s, p)
  BY <1>1 DEF More
<1>5. ASSUME More(s, u)
      PROVE  /\ Fits(p, u) => Fits(p, s)
             /\ IsThin(u) => IsThin(s)
             /\ More(Joined(p, s), Joined(p, u))
  <2>1. Fits(p, u) => Fits(p, s)
    <3>1. PICK x \in Nat, y \in Nat, z \in Nat : x = Len(s.words) /\ y = Len(u.words) /\ z = Len(p.words)
      BY <1>1
    <3>2. x <= y
      BY <1>5, <3>1 DEF More
    <3>3. Target \in Nat
      BY ChunkerAssumption
    <3>4. z + y <= Target => z + x <= Target
      BY <3>2, <3>3
    <3> QED
      BY <3>1, <3>4 DEF Fits
  <2>2. IsThin(u) => IsThin(s)
    BY <1>1, <1>5, ChunkerAssumption DEF More, IsThin
  <2>3. More(Joined(p, s), Joined(p, u))
    BY <1>1, <1>2, <1>5 DEF More
  <2> QED
    BY <2>1, <2>2, <2>3
<1> QED
  BY <1>3, <1>4, <1>5

\* What is merged: with the last section replaced by what joins it with s, or s behind it.
LEMMA MergeNextIs ==
  ASSUME NEW mm \in Seq(ASection), NEW s \in ASection
  PROVE  LET J == mm # <<>> /\ IsThin(Last(mm)) /\ Fits(Last(mm), s)
             nn == MergeNext(mm, s)
         IN /\ nn \in Seq(ASection) /\ nn # <<>> /\ Len(mm) \in Nat
            /\ J => /\ Len(nn) = Len(mm) /\ nn[Len(mm)] = Joined(mm[Len(mm)], s) /\ Len(mm) # 0
                    /\ mm[Len(mm)] = Last(mm)
                    /\ \A j \in 1..(Len(mm) - 1) : nn[j] = mm[j]
            /\ ~J => /\ Len(nn) = Len(mm) + 1 /\ nn[Len(mm) + 1] = s
                     /\ \A j \in 1..Len(mm) : nn[j] = mm[j]
<1>1. Len(mm) \in Nat
  BY LenProperties
<1>2. CASE mm # <<>> /\ IsThin(Last(mm)) /\ Fits(Last(mm), s)
  <2>1. PICK e \in ASection : e = Joined(Last(mm), s)
    BY <1>2, FrontAre, JoinedIs
  <2>2. MergeNext(mm, s) = Append(Front(mm), e)
    BY <1>2, <2>1 DEF MergeNext
  <2>3. /\ Len(mm) \in Nat \ {0} /\ Last(mm) = mm[Len(mm)]
        /\ Append(Front(mm), e) \in Seq(ASection) /\ Len(Append(Front(mm), e)) = Len(mm)
        /\ \A i \in 1..(Len(mm) - 1) : Append(Front(mm), e)[i] = mm[i]
        /\ Append(Front(mm), e)[Len(mm)] = e
    BY <1>2, LastReplaced
  <2>4. Append(Front(mm), e) # <<>>
    BY <2>3, EmptySeq
  <2> QED
    BY <1>2, <2>1, <2>2, <2>3, <2>4
<1>3. CASE ~(mm # <<>> /\ IsThin(Last(mm)) /\ Fits(Last(mm), s))
  <2>1. MergeNext(mm, s) = Append(mm, s)
    BY <1>3 DEF MergeNext
  <2> QED
    BY <1>1, <1>3, <2>1, AppendProperties
<1> QED
  BY <1>2, <1>3

\* A thin section does not fit with the one after it.
LeftAlone(mm) == \A j \in 1..(Len(mm) - 1) : IsThin(mm[j]) => ~Fits(mm[j], mm[j + 1])

LEMMA MergeLeaves ==
  ASSUME NEW mm \in Seq(ASection), NEW s \in ASection, LeftAlone(mm)
  PROVE  LeftAlone(MergeNext(mm, s))
<1>1. PICK nn \in Seq(ASection) : nn = MergeNext(mm, s)
  BY MergeNextIs
<1>2. PICK n \in Nat : n = Len(mm)
  BY MergeNextIs
<1> SUFFICES ASSUME NEW j \in 1..(Len(nn) - 1), IsThin(nn[j])
             PROVE  ~Fits(nn[j], nn[j + 1])
  BY <1>1 DEF LeftAlone
<1>3. CASE mm # <<>> /\ IsThin(Last(mm)) /\ Fits(Last(mm), s)
  <2>1. /\ Len(nn) = n /\ n # 0 /\ nn[n] = Joined(mm[n], s)
        /\ \A i \in 1..(n - 1) : nn[i] = mm[i]
    BY <1>1, <1>2, <1>3, MergeNextIs, ZenonT(30)
  <2>2. nn[j] = mm[j] /\ j \in 1..(n - 1)
    BY <2>1
  <2>3. ~Fits(mm[j], mm[j + 1])
    BY <1>2, <2>2 DEF LeftAlone
  <2>4. CASE j + 1 = n
    <3>1. PICK p \in ASection, q \in ASection : p = mm[j] /\ q = mm[n]
      BY <1>2, <2>2, <2>4, ElementOfSeq
    <3>2. More(q, Joined(q, s)) /\ Joined(q, s) \in ASection
      BY MoreIs, JoinedIs
    <3>3. Fits(p, Joined(q, s)) => Fits(p, q)
      BY <3>2, MoreIs
    <3> QED
      BY <2>1, <2>2, <2>3, <2>4, <3>1, <3>3
  <2>5. CASE j + 1 # n
    <3>1. j + 1 \in 1..(n - 1)
      BY <2>2, <2>5
    <3> QED
      BY <2>1, <2>2, <2>3, <3>1
  <2> QED
    BY <2>4, <2>5
<1>4. CASE ~(mm # <<>> /\ IsThin(Last(mm)) /\ Fits(Last(mm), s))
  <2>1. Len(nn) = n + 1 /\ nn[n + 1] = s /\ \A i \in 1..n : nn[i] = mm[i]
    BY <1>1, <1>2, <1>4, MergeNextIs, ZenonT(30)
  <2>2. CASE j = n
    <3>1. mm # <<>> /\ Last(mm) = mm[n] /\ nn[j] = mm[n]
      BY <1>2, <2>1, <2>2, EmptySeq DEF Last
    <3> QED
      BY <1>4, <2>1, <2>2, <3>1
  <2>3. CASE j # n
    <3>1. j \in 1..(n - 1) /\ j + 1 \in 1..n /\ j \in 1..n
      BY <2>1, <2>3
    <3>2. IsThin(mm[j]) => ~Fits(mm[j], mm[j + 1])
      BY <1>2, <3>1 DEF LeftAlone
    <3> QED
      BY <2>1, <3>1, <3>2
  <2> QED
    BY <2>2, <2>3
<1> QED
  BY <1>3, <1>4

LEMMA MergedLeaves ==
  ASSUME NEW ss \in Seq(ASection)
  PROVE  \A k \in 0..Len(ss) : MergeLoop(ss)[k] \in Seq(ASection) /\ LeftAlone(MergeLoop(ss)[k])
<1> DEFINE T == {k \in 0..Len(ss) : MergeLoop(ss)[k] \in Seq(ASection) /\ LeftAlone(MergeLoop(ss)[k])}
<1>1. Len(ss) \in Nat
  BY LenProperties
<1>2. 0 \in T
  <2>1. MergeLoop(ss)[0] = <<>> /\ <<>> \in Seq(ASection) /\ Len(<<>>) = 0
    BY <1>1, MergeTurns, EmptySeq
  <2>2. LeftAlone(<<>>)
    BY <2>1 DEF LeftAlone
  <2>3. 0 \in 0..Len(ss)
    BY <1>1
  <2>4. MergeLoop(ss)[0] \in Seq(ASection) /\ LeftAlone(MergeLoop(ss)[0])
    BY <2>1, <2>2
  <2> QED
    BY <2>3, <2>4
<1>3. ASSUME NEW k \in 1..Len(ss), k - 1 \in T
      PROVE  k \in T
  <2>1. PICK mm \in Seq(ASection) : mm = MergeLoop(ss)[k - 1] /\ LeftAlone(mm)
    BY <1>3
  <2>2. MergeLoop(ss)[k] = MergeNext(mm, ss[k]) /\ ss[k] \in ASection
    BY <1>1, <2>1, MergeTurns, ElementOfSeq
  <2>3. MergeLoop(ss)[k] \in Seq(ASection) /\ LeftAlone(MergeLoop(ss)[k])
    <3>1. PICK x \in ASection : x = ss[k]
      BY <2>2
    <3>2. MergeNext(mm, x) \in Seq(ASection) /\ LeftAlone(MergeNext(mm, x))
      BY <2>1, MergeLeaves, MergeNextIs
    <3> QED
      BY <2>2, <3>1, <3>2
  <2>4. k \in 0..Len(ss)
    BY <1>1
  <2> QED
    BY <2>3, <2>4
<1> HIDE DEF T
<1>4. \A k \in 0..Len(ss) : k \in T
  BY <1>1, <1>2, <1>3, Induction
<1> QED
  BY <1>4 DEF T

\* What folding the tail does.
LEMMA FoldTailIs ==
  ASSUME NEW mm \in Seq(ASection)
  PROVE  LET n == Len(mm)
             F == n > 1 /\ IsThin(mm[n]) /\ Fits(mm[n - 1], mm[n])
             ff == FoldTail(mm)
         IN /\ ff \in Seq(ASection) /\ n \in Nat
            /\ F => /\ Len(ff) = n - 1 /\ ff[n - 1] = Joined(mm[n - 1], mm[n])
                    /\ \A j \in 1..(n - 2) : ff[j] = mm[j]
            /\ ~F => ff = mm
<1>1. PICK n \in Nat : n = Len(mm)
  BY LenProperties
<1>2. Last(mm) = mm[n]
  BY <1>1 DEF Last
<1>3. CASE n > 1 /\ IsThin(mm[n]) /\ Fits(mm[n - 1], mm[n])
  <2>1. mm # <<>>
    BY <1>1, <1>3, EmptySeq
  <2>2. PICK fr \in Seq(ASection) : fr = Front(mm)
    BY <2>1, FrontAre
  <2>3. Len(fr) = n - 1 /\ \A j \in 1..(n - 1) : fr[j] = mm[j]
    BY <1>1, <2>1, <2>2, FrontAre
  <2>4. fr # <<>>
    BY <1>3, <2>3, EmptySeq
  <2>5. mm[n - 1] \in ASection /\ mm[n] \in ASection
    BY <1>1, <1>3, ElementOfSeq
  <2>6. PICK e \in ASection : e = Joined(mm[n - 1], mm[n])
    BY <2>5, JoinedIs
  <2>7. FoldTail(mm) = Append(Front(fr), e)
    BY <1>1, <1>2, <1>3, <2>2, <2>6 DEF FoldTail
  <2>8. /\ Append(Front(fr), e) \in Seq(ASection) /\ Len(Append(Front(fr), e)) = n - 1
        /\ \A j \in 1..(n - 1 - 1) : Append(Front(fr), e)[j] = fr[j]
        /\ Append(Front(fr), e)[n - 1] = e
    <3>1. /\ Append(Front(fr), e) \in Seq(ASection) /\ Len(Append(Front(fr), e)) = Len(fr)
          /\ \A j \in 1..(Len(fr) - 1) : Append(Front(fr), e)[j] = fr[j]
          /\ Append(Front(fr), e)[Len(fr)] = e
      BY <2>4, LastReplaced
    <3> QED
      BY <2>3, <3>1
  <2>9. \A j \in 1..(n - 2) : Append(Front(fr), e)[j] = mm[j]
    <3>1. \A j \in 1..(n - 2) : j \in 1..(n - 1 - 1) /\ j \in 1..(n - 1)
      OBVIOUS
    <3> QED
      BY <2>3, <2>8, <3>1
  <2> QED
    BY <1>1, <1>3, <2>6, <2>7, <2>8, <2>9
<1>4. CASE ~(n > 1 /\ IsThin(mm[n]) /\ Fits(mm[n - 1], mm[n]))
  <2>1. FoldTail(mm) = mm
    BY <1>1, <1>2, <1>4 DEF FoldTail
  <2> QED
    BY <1>1, <1>4, <2>1
<1> QED
  BY <1>3, <1>4

LEMMA FoldLeaves ==
  ASSUME NEW mm \in Seq(ASection), LeftAlone(mm)
  PROVE  LET ff == FoldTail(mm) IN
         LeftAlone(ff) /\ (Len(ff) > 1 /\ IsThin(ff[Len(ff)]) => ~Fits(ff[Len(ff) - 1], ff[Len(ff)]))
<1>1. PICK ff \in Seq(ASection) : ff = FoldTail(mm)
  BY FoldTailIs
<1>2. PICK n \in Nat : n = Len(mm)
  BY FoldTailIs
<1>3. CASE n > 1 /\ IsThin(mm[n]) /\ Fits(mm[n - 1], mm[n])
  <2>1. /\ Len(ff) = n - 1 /\ ff[n - 1] = Joined(mm[n - 1], mm[n])
        /\ \A j \in 1..(n - 2) : ff[j] = mm[j]
    BY <1>1, <1>2, <1>3, FoldTailIs
  <2>2. PICK p \in ASection, q \in ASection : p = mm[n - 1] /\ q = mm[n]
    BY <1>2, <1>3, ElementOfSeq
  <2>3. More(p, Joined(p, q)) /\ Joined(p, q) \in ASection
    BY MoreIs, JoinedIs
  <2>4. ~IsThin(p)
    <3>1. n - 1 \in 1..(Len(mm) - 1) /\ (n - 1) + 1 = n
      BY <1>2, <1>3
    <3>2. IsThin(mm[n - 1]) => ~Fits(mm[n - 1], mm[(n - 1) + 1])
      BY <3>1 DEF LeftAlone
    <3> QED
      BY <1>3, <2>2, <3>1, <3>2
  <2>5. ~IsThin(ff[n - 1])
    BY <2>1, <2>2, <2>3, <2>4, MoreIs
  <2>6. ASSUME NEW j \in 1..(Len(ff) - 1), IsThin(ff[j])
        PROVE  ~Fits(ff[j], ff[j + 1])
    <3>1. j \in 1..(n - 2) /\ j \in 1..(Len(mm) - 1) /\ ff[j] = mm[j]
      BY <1>2, <2>1
    <3>2. ~Fits(mm[j], mm[j + 1])
      BY <2>6, <3>1 DEF LeftAlone
    <3>3. CASE j = n - 2
      <4>1. PICK x \in ASection : x = mm[j]
        BY <1>2, <1>3, <3>1, ElementOfSeq
      <4>2. j + 1 = n - 1
        BY <3>3
      <4>3. ~Fits(x, p)
        BY <2>2, <3>2, <4>1, <4>2
      <4>4. ~Fits(x, Joined(p, q))
        BY <2>3, <4>3, MoreIs
      <4> QED
        BY <2>1, <2>2, <3>1, <4>1, <4>2, <4>4
    <3>4. CASE j # n - 2
      <4>1. j + 1 \in 1..(n - 2)
        BY <3>1, <3>4
      <4> QED
        BY <2>1, <3>1, <3>2, <4>1
    <3> QED
      BY <3>3, <3>4
  <2> QED
    BY <1>1, <2>1, <2>5, <2>6 DEF LeftAlone
<1>4. CASE ~(n > 1 /\ IsThin(mm[n]) /\ Fits(mm[n - 1], mm[n]))
  <2>1. ff = mm
    BY <1>1, <1>2, <1>4, FoldTailIs
  <2> QED
    BY <1>1, <1>2, <1>4, <2>1
<1> QED
  BY <1>3, <1>4

\* Whatever the blocks, a thin section that is left would not fit its neighbours.
LEMMA ThinSections ==
  ASSUME blocks \in Seq(ABlock), PagesInOrder(blocks)
  PROVE  ThinOnlyWhereNothingFits
<1>1. PICK hs \in Seq(ASection) : hs = HeadedSections(blocks)
  BY HeadedCover DEF Covers
<1>2. PICK mm \in Seq(ASection) : mm = Merged(hs) /\ LeftAlone(mm)
  <2>1. Len(hs) \in 0..Len(hs)
    BY LenProperties
  <2> QED
    BY <2>1, MergedLeaves DEF Merged
<1>3. PICK ss \in Seq(ASection) : ss = FoldTail(mm)
  BY FoldTailIs
<1>4. ss = Sections(blocks)
  BY <1>1, <1>2, <1>3 DEF Sections
<1>5. LeftAlone(ss) /\ (Len(ss) > 1 /\ IsThin(ss[Len(ss)]) => ~Fits(ss[Len(ss) - 1], ss[Len(ss)]))
  BY <1>2, <1>3, FoldLeaves
<1>6. Len(ss) \in Nat /\ DOMAIN ss = 1..Len(ss)
  BY LenProperties
<1>7. ASSUME NEW k \in DOMAIN ss, IsThin(ss[k])
      PROVE  /\ k < Len(ss) => ~Fits(ss[k], ss[k + 1])
             /\ k = Len(ss) /\ k > 1 => ~Fits(ss[k - 1], ss[k])
  <2>1. k < Len(ss) => k \in 1..(Len(ss) - 1)
    BY <1>6
  <2> QED
    BY <1>5, <1>7, <2>1 DEF LeftAlone
<1> QED
  BY <1>4, <1>7 DEF ThinOnlyWhereNothingFits

-----------------------------------------------------------------------------
(***************************************************************************)
(* A document that grows: only its last section can still change.          *)
(***************************************************************************)

\* List B has the sections of A, the last perhaps with more text, and perhaps others.
Grown(A, B) ==
  /\ Len(A) <= Len(B) /\ \A j \in 1..(Len(A) - 1) : B[j] = A[j]
  /\ A # <<>> => More(A[Len(A)], B[Len(A)])

\* The same, but where B is longer what was last in A may have been split.
GrownOn(A, B) ==
  /\ Len(A) <= Len(B) /\ \A j \in 1..(Len(A) - 1) : B[j] = A[j]
  /\ A # <<>> /\ Len(A) = Len(B) => More(A[Len(A)], B[Len(A)])

LEMMA LengthOf ==
  ASSUME NEW ss \in Seq(ASection)
  PROVE  /\ Len(ss) \in Nat /\ (ss # <<>> <=> Len(ss) # 0) /\ DOMAIN ss = 1..Len(ss)
         /\ \A j \in 1..Len(ss) : ss[j] \in ASection
<1>1. ss # <<>> <=> Len(ss) # 0
  BY EmptySeq
<1>2. Len(ss) \in Nat /\ DOMAIN ss = 1..Len(ss)
  BY LenProperties
<1>3. \A j \in 1..Len(ss) : ss[j] \in ASection
  BY ElementOfSeq
<1> QED
  BY <1>1, <1>2, <1>3

LEMMA GrownFurther ==
  ASSUME NEW A \in Seq(ASection), NEW B \in Seq(ASection), NEW C \in Seq(ASection), Grown(B, C)
  PROVE  (Grown(A, B) => Grown(A, C)) /\ (GrownOn(A, B) => GrownOn(A, C))
<1>1. PICK a \in Nat, b \in Nat, c \in Nat : a = Len(A) /\ b = Len(B) /\ c = Len(C)
  BY LengthOf
<1>2. /\ b <= c /\ \A j \in 1..(b - 1) : C[j] = B[j]
      /\ b # 0 => More(B[b], C[b])
  BY <1>1, LengthOf DEF Grown
<1>3. ASSUME a <= b, \A j \in 1..(a - 1) : B[j] = A[j]
      PROVE  a <= c /\ \A j \in 1..(a - 1) : C[j] = A[j]
  <2>1. \A j \in 1..(a - 1) : j \in 1..(b - 1)
    BY <1>3
  <2> QED
    BY <1>2, <1>3, <2>1
<1>4. ASSUME a # 0, a <= b, More(A[a], B[a])
      PROVE  More(A[a], C[a])
  <2>1. A[a] \in ASection /\ B[a] \in ASection /\ C[a] \in ASection
    <3>1. a \in 1..Len(A) /\ a \in 1..Len(B) /\ a \in 1..Len(C)
      BY <1>1, <1>2, <1>4
    <3> QED
      BY <3>1, ElementOfSeq
  <2>2. More(B[a], C[a])
    <3>1. CASE a = b
      BY <1>2, <1>4, <3>1
    <3>2. CASE a # b
      <4>1. a \in 1..(b - 1)
        BY <1>4, <3>2
      <4>2. C[a] = B[a]
        BY <1>2, <4>1
      <4> QED
        BY <2>1, <4>2, MoreIs
    <3> QED
      BY <3>1, <3>2
  <2> QED
    BY <1>4, <2>1, <2>2, MoreIs
<1>5. A # <<>> <=> a # 0
  BY <1>1, LengthOf
<1>6. ASSUME Grown(A, B)
      PROVE  Grown(A, C)
  <2>1. a <= b /\ (\A j \in 1..(a - 1) : B[j] = A[j]) /\ (a # 0 => More(A[a], B[a]))
    BY <1>1, <1>5, <1>6 DEF Grown
  <2> QED
    BY <1>1, <1>3, <1>4, <1>5, <2>1 DEF Grown
<1>7. ASSUME GrownOn(A, B)
      PROVE  GrownOn(A, C)
  <2>1. a <= b /\ (\A j \in 1..(a - 1) : B[j] = A[j]) /\ (a # 0 /\ a = b => More(A[a], B[a]))
    BY <1>1, <1>5, <1>7 DEF GrownOn
  <2>2. a = c => a = b
    BY <1>2, <2>1
  <2> QED
    BY <1>1, <1>3, <1>4, <1>5, <2>1, <2>2 DEF GrownOn
<1> QED
  BY <1>6, <1>7

LEMMA GrownSame ==
  ASSUME NEW A \in Seq(ASection)
  PROVE  Grown(A, A)
<1>1. Len(A) \in Nat /\ (A # <<>> => Len(A) \in 1..Len(A))
  BY LengthOf
<1>2. A # <<>> => More(A[Len(A)], A[Len(A)])
  BY <1>1, LengthOf, MoreIs
<1> QED
  BY <1>1, <1>2 DEF Grown

LEMMA GrownAppend ==
  ASSUME NEW A \in Seq(ASection), NEW s \in ASection
  PROVE  Append(A, s) \in Seq(ASection) /\ Grown(A, Append(A, s))
<1>1. PICK B \in Seq(ASection), n \in Nat : B = Append(A, s) /\ n = Len(A)
  BY AppendProperties, LengthOf
<1>2. Len(B) = n + 1 /\ \A j \in 1..n : B[j] = A[j]
  BY <1>1, AppendProperties
<1>3. A # <<>> => n \in 1..n /\ A[n] \in ASection
  BY <1>1, LengthOf
<1>4. A # <<>> => More(A[n], B[n])
  BY <1>2, <1>3, MoreIs
<1>5. n <= Len(B) /\ \A j \in 1..(n - 1) : B[j] = A[j]
  BY <1>2
<1> QED
  BY <1>1, <1>4, <1>5 DEF Grown

LEMMA GrownReplace ==
  ASSUME NEW A \in Seq(ASection), A # <<>>, NEW s \in ASection, More(Last(A), s)
  PROVE  Append(Front(A), s) \in Seq(ASection) /\ Grown(A, Append(Front(A), s))
<1>1. /\ Len(A) \in Nat \ {0} /\ Last(A) = A[Len(A)]
      /\ Append(Front(A), s) \in Seq(ASection) /\ Len(Append(Front(A), s)) = Len(A)
      /\ \A i \in 1..(Len(A) - 1) : Append(Front(A), s)[i] = A[i]
      /\ Append(Front(A), s)[Len(A)] = s
  BY LastReplaced
<1> QED
  BY <1>1 DEF Grown

LEMMA GrownMerge ==
  ASSUME NEW mm \in Seq(ASection), NEW s \in ASection
  PROVE  MergeNext(mm, s) \in Seq(ASection) /\ Grown(mm, MergeNext(mm, s))
<1>1. CASE mm # <<>> /\ IsThin(Last(mm)) /\ Fits(Last(mm), s)
  <2>1. Last(mm) \in ASection
    BY <1>1, FrontAre
  <2>2. PICK e \in ASection : e = Joined(Last(mm), s) /\ More(Last(mm), e)
    BY <2>1, JoinedIs, MoreIs
  <2>3. MergeNext(mm, s) = Append(Front(mm), e)
    BY <1>1, <2>2 DEF MergeNext
  <2> QED
    BY <1>1, <2>2, <2>3, GrownReplace
<1>2. CASE ~(mm # <<>> /\ IsThin(Last(mm)) /\ Fits(Last(mm), s))
  BY <1>2, GrownAppend DEF MergeNext
<1> QED
  BY <1>1, <1>2

LEMMA GrownBlock ==
  ASSUME NEW ss \in Seq(ASection), NEW doc \in Seq(ABlock), NEW k \in 1..Len(doc)
  PROVE  /\ AddBlock(ss, doc[k], WordsOf(doc, k)) \in Seq(ASection)
         /\ Grown(ss, AddBlock(ss, doc[k], WordsOf(doc, k)))
<1>1. PICK b \in ABlock, w \in Seq(AWord) : b = doc[k] /\ w = WordsOf(doc, k)
  BY WordsAre
<1>2. CASE w = <<>>
  BY <1>1, <1>2, GrownSame DEF AddBlock
<1>3. CASE w # <<>> /\ (ss = <<>> \/ Last(ss).path # b.path)
  <2>1. PICK s : s = New(b, w)
    OBVIOUS
  <2>2. s \in ASection
    BY <2>1 DEF New, ASection, ABlock
  <2>3. AddBlock(ss, b, w) = Append(ss, s)
    BY <1>3, <2>1 DEF AddBlock, New
  <2> QED
    BY <1>1, <2>2, <2>3, GrownAppend
<1>4. CASE w # <<>> /\ ss # <<>> /\ Last(ss).path = b.path
  <2>1. PICK l \in ASection : l = Last(ss)
    BY <1>4, FrontAre
  <2>2. PICK v \in Seq(AWord), f \in BOOLEAN, p \in Nat :
          /\ v = l.words \o w /\ f = (l.body \/ ~b.isHeading)
          /\ p = IF b.page # 0 THEN b.page ELSE l.to
    BY ConcatProperties DEF ASection, ABlock
  <2>3. PICK s : s = [l EXCEPT !.words = v, !.body = f, !.to = p]
    OBVIOUS
  <2>4. s \in ASection
    BY <2>3 DEF ASection
  <2>5. s.words = v /\ s.body = f
    BY <2>3, <2>4 DEF ASection
  <2>6. AddBlock(ss, b, w) = Append(Front(ss), s)
    BY <1>4, <2>1, <2>2, <2>3 DEF AddBlock
  <2>7. More(l, s)
    <3>1. Len(v) = Len(l.words) + Len(w) /\ Len(l.words) \in Nat /\ Len(w) \in Nat
      BY <2>2, ConcatProperties, LenProperties DEF ASection
    <3>2. Len(l.words) <= Len(s.words)
      BY <2>5, <3>1
    <3>3. l.body => s.body
      BY <2>2, <2>5, Zenon
    <3> QED
      BY <3>2, <3>3 DEF More
  <2> QED
    BY <1>1, <1>4, <2>1, <2>4, <2>6, <2>7, GrownReplace
<1> QED
  BY <1>2, <1>3, <1>4

\* The sections of a longer document have grown from those of the shorter one.
LEMMA HeadedGrow ==
  ASSUME NEW doc \in Seq(ABlock), NEW doc2 \in Seq(ABlock), IsPrefix(doc, doc2)
  PROVE  /\ HeadedSections(doc) \in Seq(ASection) /\ HeadedSections(doc2) \in Seq(ASection)
         /\ Grown(HeadedSections(doc), HeadedSections(doc2))
<1>1. PICK n \in Nat, m \in Nat : n = Len(doc) /\ m = Len(doc2)
  BY LenProperties
<1>2. n <= m /\ \A k \in 1..n : doc[k] = doc2[k]
  BY <1>1, PrefixIs
<1> DEFINE T == {k \in 0..n : SectionLoop(doc)[k] \in Seq(ASection) /\ SectionLoop(doc)[k] = SectionLoop(doc2)[k]}
<1>3. 0 \in T
  <2>1. SectionLoop(doc)[0] = <<>> /\ SectionLoop(doc2)[0] = <<>> /\ <<>> \in Seq(ASection)
    BY <1>1, SectionTurns, EmptySeq
  <2>2. SectionLoop(doc)[0] \in Seq(ASection) /\ SectionLoop(doc)[0] = SectionLoop(doc2)[0]
    BY <2>1
  <2> QED
    BY <2>2
<1>4. ASSUME NEW k \in 1..n, k - 1 \in T
      PROVE  k \in T
  <2>1. PICK ss \in Seq(ASection) : ss = SectionLoop(doc)[k - 1] /\ ss = SectionLoop(doc2)[k - 1]
    BY <1>4
  <2>2. k \in 1..Len(doc) /\ k \in 1..Len(doc2)
    BY <1>1, <1>2
  <2>3. SectionLoop(doc)[k] = AddBlock(ss, doc[k], WordsOf(doc, k))
    BY <1>1, <2>1, <2>2, SectionTurns
  <2>4. SectionLoop(doc2)[k] = AddBlock(ss, doc2[k], WordsOf(doc2, k))
    BY <1>1, <2>1, <2>2, SectionTurns
  <2>5. WordsOf(doc, k) = WordsOf(doc2, k) /\ doc[k] = doc2[k]
    BY <1>2 DEF WordsOf
  <2>6. SectionLoop(doc)[k] = SectionLoop(doc2)[k]
    BY <2>3, <2>4, <2>5
  <2>7. SectionLoop(doc)[k] \in Seq(ASection)
    BY <2>2, <2>3, GrownBlock
  <2>8. k \in 0..n
    OBVIOUS
  <2> QED
    BY <2>6, <2>7, <2>8
<1> HIDE DEF T
<1>5. \A k \in 0..n : k \in T
  BY <1>3, <1>4, Induction
<1>6. PICK A \in Seq(ASection) : A = SectionLoop(doc)[n] /\ A = SectionLoop(doc2)[n]
  BY <1>5 DEF T
<1> DEFINE U == {k \in 0..m : k < n \/ (SectionLoop(doc2)[k] \in Seq(ASection) /\ Grown(A, SectionLoop(doc2)[k]))}
<1>7. 0 \in U
  <2>1. CASE n = 0
    BY <1>6, <2>1, GrownSame
  <2>2. CASE n # 0
    BY <2>2
  <2> QED
    BY <2>1, <2>2
<1>8. ASSUME NEW k \in 1..m, k - 1 \in U
      PROVE  k \in U
  <2>1. CASE k < n
    BY <2>1
  <2>2. CASE k = n
    BY <1>6, <2>2, GrownSame
  <2>3. CASE k > n
    <3>1. PICK ss \in Seq(ASection) : ss = SectionLoop(doc2)[k - 1] /\ Grown(A, ss)
      BY <1>8, <2>3
    <3>2. k \in 1..Len(doc2) /\ k \in 0..m
      BY <1>1
    <3>3. SectionLoop(doc2)[k] = AddBlock(ss, doc2[k], WordsOf(doc2, k))
      BY <1>1, <3>1, <3>2, SectionTurns
    <3>4. PICK tt \in Seq(ASection) : tt = SectionLoop(doc2)[k] /\ Grown(ss, tt)
      BY <3>2, <3>3, GrownBlock
    <3>5. Grown(A, tt)
      BY <3>1, <3>4, GrownFurther
    <3> QED
      BY <3>2, <3>4, <3>5
  <2> QED
    BY <1>1, <2>1, <2>2, <2>3
<1> HIDE DEF U
<1>9. \A k \in 0..m : k \in U
  BY <1>7, <1>8, Induction
<1>10. SectionLoop(doc2)[m] \in Seq(ASection) /\ Grown(A, SectionLoop(doc2)[m])
  BY <1>2, <1>9 DEF U
<1> QED
  BY <1>1, <1>6, <1>10 DEF HeadedSections

LEMMA MergedGrow ==
  ASSUME NEW hs \in Seq(ASection), NEW gs \in Seq(ASection), Grown(hs, gs), hs # <<>>
  PROVE  /\ Merged(hs) \in Seq(ASection) /\ Merged(gs) \in Seq(ASection)
         /\ GrownOn(Merged(hs), Merged(gs))
<1>1. PICK n \in Nat, m \in Nat : n = Len(hs) /\ m = Len(gs)
  BY LengthOf
<1>2. n # 0 /\ n <= m /\ (\A j \in 1..(n - 1) : gs[j] = hs[j]) /\ More(hs[n], gs[n])
  BY <1>1, LengthOf DEF Grown
<1> DEFINE T == {k \in 0..(n - 1) : MergeLoop(hs)[k] \in Seq(ASection) /\ MergeLoop(hs)[k] = MergeLoop(gs)[k]}
<1>3. 0 \in T
  <2>1. MergeLoop(hs)[0] = <<>> /\ MergeLoop(gs)[0] = <<>> /\ <<>> \in Seq(ASection)
    BY <1>1, MergeTurns, EmptySeq
  <2>2. MergeLoop(hs)[0] \in Seq(ASection) /\ MergeLoop(hs)[0] = MergeLoop(gs)[0]
    BY <2>1
  <2>3. 0 \in 0..(n - 1)
    BY <1>2
  <2> QED
    BY <2>2, <2>3
<1>4. ASSUME NEW k \in 1..(n - 1), k - 1 \in T
      PROVE  k \in T
  <2>1. PICK mm \in Seq(ASection) : mm = MergeLoop(hs)[k - 1] /\ mm = MergeLoop(gs)[k - 1]
    BY <1>4
  <2>2. k \in 1..Len(hs) /\ k \in 1..Len(gs)
    BY <1>1, <1>2
  <2>3. MergeLoop(hs)[k] = MergeNext(mm, hs[k]) /\ MergeLoop(gs)[k] = MergeNext(mm, gs[k])
    BY <1>1, <2>1, <2>2, MergeTurns
  <2>4. hs[k] = gs[k] /\ hs[k] \in ASection
    BY <1>2, <2>2, LengthOf
  <2>5. MergeLoop(hs)[k] \in Seq(ASection) /\ MergeLoop(hs)[k] = MergeLoop(gs)[k]
    BY <2>3, <2>4, GrownMerge
  <2>6. k \in 0..(n - 1)
    OBVIOUS
  <2> QED
    BY <2>5, <2>6
<1> HIDE DEF T
<1>5. \A k \in 0..(n - 1) : k \in T
  <2>1. PICK e \in Nat : e = n - 1
    BY <1>2
  <2>2. \A k \in 1..e : k - 1 \in T => k \in T
    BY <1>4, <2>1
  <2>3. \A k \in 0..e : k \in T
    BY <1>3, <2>2, Induction
  <2> QED
    BY <2>1, <2>3
<1>6. n - 1 \in 0..(n - 1)
  BY <1>2
<1>7. PICK mm \in Seq(ASection) : mm = MergeLoop(hs)[n - 1] /\ mm = MergeLoop(gs)[n - 1]
  BY <1>5, <1>6 DEF T
<1>8. n \in 1..Len(hs) /\ n \in 1..Len(gs)
  BY <1>1, <1>2
<1>9. PICK s \in ASection, u \in ASection : s = hs[n] /\ u = gs[n] /\ More(s, u)
  BY <1>2, <1>8, LengthOf
<1>10. MergeLoop(hs)[n] = MergeNext(mm, s) /\ MergeLoop(gs)[n] = MergeNext(mm, u)
  BY <1>1, <1>7, <1>8, <1>9, MergeTurns
<1>11. PICK A \in Seq(ASection), B \in Seq(ASection) : A = MergeNext(mm, s) /\ B = MergeNext(mm, u)
  BY GrownMerge
<1>12. GrownOn(A, B)
  <2>1. PICK l \in Nat : l = Len(mm)
    BY LengthOf
  <2> DEFINE J(x) == mm # <<>> /\ IsThin(Last(mm)) /\ Fits(Last(mm), x)
  <2>2. J(u) => J(s)
    <3> SUFFICES ASSUME mm # <<>>, Fits(Last(mm), u) PROVE Fits(Last(mm), s)
      OBVIOUS
    <3>1. Last(mm) \in ASection
      BY FrontAre
    <3> QED
      BY <1>9, <3>1, MoreIs
  <2> HIDE DEF J
  <2>3. ASSUME NEW x \in ASection, NEW nn, nn = MergeNext(mm, x)
        PROVE  /\ J(x) => /\ Len(nn) = l /\ nn[l] = Joined(mm[l], x) /\ l # 0
                          /\ \A j \in 1..(l - 1) : nn[j] = mm[j]
               /\ ~J(x) => /\ Len(nn) = l + 1 /\ nn[l + 1] = x
                           /\ \A j \in 1..l : nn[j] = mm[j]
    <3>1. CASE J(x)
      BY <2>1, <2>3, <3>1, MergeNextIs, ZenonT(30) DEF J
    <3>2. CASE ~J(x)
      BY <2>1, <2>3, <3>2, MergeNextIs, ZenonT(30) DEF J
    <3> QED
      BY <3>1, <3>2
  <2>4. CASE J(u)
    <3>1. /\ Len(A) = l /\ A[l] = Joined(mm[l], s) /\ l # 0 /\ \A j \in 1..(l - 1) : A[j] = mm[j]
      BY <1>11, <2>2, <2>3, <2>4
    <3>2. /\ Len(B) = l /\ B[l] = Joined(mm[l], u) /\ \A j \in 1..(l - 1) : B[j] = mm[j]
      BY <1>11, <2>3, <2>4
    <3>3. mm[l] \in ASection
      BY <2>1, <3>1, LengthOf
    <3>4. More(A[l], B[l])
      BY <1>9, <3>1, <3>2, <3>3, MoreIs
    <3> QED
      BY <3>1, <3>2, <3>4 DEF GrownOn
  <2>5. CASE ~J(u) /\ J(s)
    <3>1. /\ Len(A) = l /\ \A j \in 1..(l - 1) : A[j] = mm[j]
      BY <1>11, <2>3, <2>5
    <3>2. /\ Len(B) = l + 1 /\ \A j \in 1..l : B[j] = mm[j]
      BY <1>11, <2>3, <2>5
    <3> QED
      BY <3>1, <3>2 DEF GrownOn
  <2>6. CASE ~J(s)
    <3>1. /\ Len(A) = l + 1 /\ A[l + 1] = s /\ \A j \in 1..l : A[j] = mm[j]
      BY <1>11, <2>3, <2>6
    <3>2. /\ Len(B) = l + 1 /\ B[l + 1] = u /\ \A j \in 1..l : B[j] = mm[j]
      BY <1>11, <2>2, <2>3, <2>6
    <3>3. (l + 1) - 1 = l /\ l + 1 <= l + 1
      OBVIOUS
    <3>4. Len(A) <= Len(B) /\ \A j \in 1..(Len(A) - 1) : B[j] = A[j]
      BY <3>1, <3>2, <3>3
    <3>5. More(A[Len(A)], B[Len(A)])
      BY <1>9, <3>1, <3>2
    <3> QED
      BY <3>4, <3>5 DEF GrownOn
  <2> QED
    BY <2>4, <2>5, <2>6
<1> DEFINE U == {k \in 0..m : k < n \/ (MergeLoop(gs)[k] \in Seq(ASection) /\ GrownOn(A, MergeLoop(gs)[k]))}
<1>13. 0 \in U
  BY <1>2
<1>14. ASSUME NEW k \in 1..m, k - 1 \in U
       PROVE  k \in U
  <2>1. CASE k < n
    BY <2>1
  <2>2. CASE k = n
    BY <1>10, <1>11, <1>12, <2>2
  <2>3. CASE k > n
    <3>1. PICK bb \in Seq(ASection) : bb = MergeLoop(gs)[k - 1] /\ GrownOn(A, bb)
      BY <1>14, <2>3
    <3>2. k \in 1..Len(gs) /\ k \in 0..m
      BY <1>1
    <3>3. MergeLoop(gs)[k] = MergeNext(bb, gs[k]) /\ gs[k] \in ASection
      BY <1>1, <3>1, <3>2, MergeTurns, LengthOf
    <3>4. PICK tt \in Seq(ASection) : tt = MergeLoop(gs)[k] /\ Grown(bb, tt)
      BY <3>3, GrownMerge
    <3>5. GrownOn(A, tt)
      BY <3>1, <3>4, GrownFurther
    <3> QED
      BY <3>2, <3>4, <3>5
  <2> QED
    BY <1>1, <2>1, <2>2, <2>3
<1> HIDE DEF U
<1>15. \A k \in 0..m : k \in U
  BY <1>13, <1>14, Induction
<1>16. MergeLoop(gs)[m] \in Seq(ASection) /\ GrownOn(A, MergeLoop(gs)[m])
  BY <1>2, <1>15 DEF U
<1> QED
  BY <1>1, <1>10, <1>11, <1>16 DEF Merged

\* What is kept when the tail of each is folded: all but the last.
LEMMA FoldedGrow ==
  ASSUME NEW A \in Seq(ASection), NEW B \in Seq(ASection), GrownOn(A, B), A # <<>>
  PROVE  LET P == FoldTail(A)  Q == FoldTail(B) IN
         /\ P \in Seq(ASection) /\ Q \in Seq(ASection) /\ P # <<>>
         /\ Len(P) - 1 <= Len(Q) /\ \A j \in 1..(Len(P) - 1) : Q[j] = P[j]
<1>1. PICK a \in Nat, b \in Nat : a = Len(A) /\ b = Len(B)
  BY LengthOf
<1>2. /\ a # 0 /\ a <= b /\ (\A j \in 1..(a - 1) : B[j] = A[j])
      /\ a = b => More(A[a], B[a])
  BY <1>1, LengthOf DEF GrownOn
<1>3. PICK P \in Seq(ASection), Q \in Seq(ASection) : P = FoldTail(A) /\ Q = FoldTail(B)
  BY FoldTailIs
<1> DEFINE F(x, n) == n > 1 /\ IsThin(x[n]) /\ Fits(x[n - 1], x[n])
<1>4. /\ F(A, a) => Len(P) = a - 1 /\ \A j \in 1..(a - 2) : P[j] = A[j]
      /\ ~F(A, a) => P = A
  BY <1>1, <1>3, FoldTailIs
<1>5. /\ F(B, b) => Len(Q) = b - 1 /\ \A j \in 1..(b - 2) : Q[j] = B[j]
      /\ ~F(B, b) => Q = B
  BY <1>1, <1>3, FoldTailIs
<1>6. a = b /\ F(B, b) => F(A, a)
  <2> SUFFICES ASSUME a = b, F(B, b) PROVE F(A, a)
    OBVIOUS
  <2> HIDE DEF F
  <2>0. a > 1
    BY DEF F
  <2>1. a \in 1..Len(A) /\ a \in 1..Len(B) /\ a - 1 \in 1..(a - 1) /\ a - 1 \in 1..Len(A)
    <3>1. a \in 1..a /\ a - 1 \in 1..(a - 1) /\ a - 1 \in 1..a
      BY <2>0
    <3> QED
      BY <1>1, <3>1
  <2>2. PICK p \in ASection, s \in ASection, u \in ASection : p = A[a - 1] /\ s = A[a] /\ u = B[a]
    BY <2>1, LengthOf
  <2>3. B[a - 1] = p /\ More(s, u) /\ IsThin(u) /\ Fits(p, u)
    BY <1>2, <2>1, <2>2 DEF F
  <2>4. IsThin(s) /\ Fits(p, s)
    BY <2>3, MoreIs
  <2> QED
    BY <2>0, <2>2, <2>4 DEF F
<1> HIDE DEF F
<1>7. F(A, a) => a > 1
  BY DEF F
<1>8. P # <<>> /\ Len(P) - 1 <= Len(Q) /\ \A j \in 1..(Len(P) - 1) : Q[j] = P[j]
  <2>1. CASE F(A, a)
    <3>1. Len(P) = a - 1 /\ a > 1 /\ \A j \in 1..(a - 2) : P[j] = A[j]
      BY <1>4, <1>7, <2>1
    <3>2. P # <<>>
      BY <3>1, LengthOf
    <3>3. Len(Q) >= b - 1 /\ \A j \in 1..(b - 2) : Q[j] = B[j]
      BY <1>1, <1>5
    <3>4. \A j \in 1..(a - 2) : Q[j] = P[j]
      BY <1>2, <3>1, <3>3
    <3> QED
      BY <1>2, <3>1, <3>2, <3>3, <3>4
  <2>2. CASE ~F(A, a)
    <3>1. P = A
      BY <1>4, <2>2
    <3>2. CASE a = b
      <4>1. Q = B
        BY <1>5, <1>6, <2>2, <3>2
      <4> QED
        BY <1>1, <1>2, <3>1, <4>1
    <3>3. CASE a # b
      <4>1. Len(Q) >= b - 1 /\ \A j \in 1..(b - 2) : Q[j] = B[j]
        BY <1>1, <1>5
      <4>2. \A j \in 1..(a - 1) : Q[j] = A[j]
        BY <1>2, <3>3, <4>1
      <4> QED
        BY <1>1, <1>2, <3>1, <3>3, <4>1, <4>2
    <3> QED
      BY <3>2, <3>3
  <2> QED
    BY <2>1, <2>2
<1> QED
  BY <1>3, <1>8

\* What is cut out of a section begins in it.
BeginsIn(cut, s) ==
  cut \in Seq(ASection) /\ \A i \in 1..Len(cut) : Head(cut[i].words) \in ToSet(s.words)

LEMMA BeginsAppend ==
  ASSUME NEW s \in ASection, NEW cut, BeginsIn(cut, s), NEW i \in Nat, NEW j \in Nat,
         i < j, j <= Len(s.words)
  PROVE  BeginsIn(Append(cut, Window(s, i, j)), s)
<1>1. PICK t \in Seq(AWord) : t = s.words
  BY DEF ASection
<1>2. PICK w : w = Piece(t, i, j)
  OBVIOUS
<1>3. i <= j /\ j <= Len(t)
  BY <1>1
<1>4. w \in Seq(AWord) /\ Len(w) = j - i
  BY <1>2, <1>3, PieceIs
<1>5. w[1] = t[i + 1]
  <2>1. \A k \in 1..(j - i) : Piece(t, i, j)[k] = t[i + k]
    BY <1>3, PieceIs
  <2>2. 1 \in 1..(j - i)
    OBVIOUS
  <2> QED
    BY <1>2, <2>1, <2>2
<1>6. Head(w) = t[i + 1]
  <2>1. w # <<>>
    BY <1>4, EmptySeq
  <2> QED
    BY <1>4, <1>5, <2>1, HeadTailProperties
<1>7. t[i + 1] \in ToSet(t)
  <2>1. i + 1 \in DOMAIN t
    BY <1>3, LenProperties
  <2> QED
    BY <2>1 DEF ToSet
<1>8. PICK c : c = [s EXCEPT !.words = w]
  OBVIOUS
<1>9. c \in ASection /\ c.words = w
  BY <1>4, <1>8 DEF ASection
<1>10. Window(s, i, j) = c
  BY <1>1, <1>2, <1>8 DEF Window, Piece
<1>11. PICK cc \in Seq(ASection), n \in Nat : cc = cut /\ n = Len(cut)
  BY LenProperties DEF BeginsIn
<1>12. /\ Append(cc, c) \in Seq(ASection) /\ Len(Append(cc, c)) = n + 1
       /\ Append(cc, c)[n + 1] = c /\ \A k \in 1..n : Append(cc, c)[k] = cc[k]
  BY <1>9, <1>11, AppendProperties
<1>13. \A k \in 1..(n + 1) : k \in 1..n \/ k = n + 1
  OBVIOUS
<1>14. \A k \in 1..n : Head(cc[k].words) \in ToSet(s.words)
  BY <1>11 DEF BeginsIn
<1>15. Head(c.words) \in ToSet(s.words)
  BY <1>1, <1>6, <1>7, <1>9
<1> QED
  BY <1>10, <1>11, <1>12, <1>13, <1>14, <1>15 DEF BeginsIn

LEMMA EmitBegins ==
  ASSUME NEW s \in ASection
  PROVE  BeginsIn(Emit(s), s)
<1>1. PICK n \in Nat : n = Len(s.words)
  BY LenProperties DEF ASection
<1>2. Target \in Nat /\ Target # 0 /\ Overlap \in Nat /\ Overlap < Target
  BY ChunkerAssumption
<1> DEFINE T == {k \in 0..n : BeginsIn(CutLoop(s)[k].cut, s) /\ CutLoop(s)[k].start \in Nat}
<1>3. 0 \in T
  <2>1. CutLoop(s)[0] = [start |-> 0, cut |-> <<>>]
    BY <1>1, CutTurns
  <2>2. BeginsIn(<<>>, s)
    BY EmptySeq DEF BeginsIn
  <2>3. CutLoop(s)[0].cut = <<>> /\ CutLoop(s)[0].start = 0
    BY <2>1
  <2> QED
    BY <2>2, <2>3
<1>4. ASSUME NEW k \in 1..n, k - 1 \in T
      PROVE  k \in T
  <2>1. PICK c : c = CutLoop(s)[k - 1]
    OBVIOUS
  <2>2. PICK st \in Nat : st = c.start /\ BeginsIn(c.cut, s)
    BY <1>4, <2>1
  <2>3. CutLoop(s)[k] = CutNext(s, c)
    BY <1>1, <2>1, CutTurns
  <2>4. PICK d : d = CutNext(s, c)
    OBVIOUS
  <2>5. BeginsIn(d.cut, s) /\ d.start \in Nat
    <3>1. CASE n - st >= Target
      <4>1. /\ d.start = st + (Target - Overlap)
            /\ d.cut = Append(c.cut, Window(s, st, st + Target))
        BY <1>1, <2>2, <2>4, <3>1 DEF CutNext
      <4>2. PICK e \in Nat : e = st + Target
        BY <1>2
      <4>3. st < e /\ e <= Len(s.words)
        BY <1>1, <1>2, <3>1, <4>2
      <4>4. BeginsIn(Append(c.cut, Window(s, st, e)), s)
        BY <2>2, <4>3, BeginsAppend
      <4> QED
        BY <1>2, <4>1, <4>2, <4>4
    <3>2. CASE ~(n - st >= Target)
      BY <1>1, <2>2, <2>4, <3>2 DEF CutNext
    <3> QED
      BY <3>1, <3>2
  <2>6. k \in 0..n
    OBVIOUS
  <2> QED
    BY <2>3, <2>4, <2>5, <2>6
<1> HIDE DEF T
<1>5. \A k \in 0..n : k \in T
  BY <1>3, <1>4, Induction
<1>6. PICK c : c = AllCut(s)
  OBVIOUS
<1>7. PICK st \in Nat : st = c.start /\ BeginsIn(c.cut, s)
  BY <1>1, <1>5, <1>6 DEF T, AllCut
<1>8. CASE st < n
  <2>1. BeginsIn(Append(c.cut, Window(s, st, n)), s)
    BY <1>1, <1>7, <1>8, BeginsAppend
  <2> QED
    BY <1>1, <1>6, <1>7, <1>8, <2>1 DEF Emit
<1>9. CASE ~(st < n)
  BY <1>1, <1>6, <1>7, <1>9 DEF Emit
<1> QED
  BY <1>8, <1>9

\* Sections that are the same are cut alike, and what follows them comes behind.
LEMMA EmitGrow ==
  ASSUME NEW P \in Seq(ASection), NEW Q \in Seq(ASection), NEW n \in Nat, n <= Len(P), n <= Len(Q),
         \A j \in 1..n : Q[j] = P[j]
  PROVE  /\ EmitLoop(P)[n] \in Seq(ASection) /\ EmitLoop(Q)[Len(Q)] \in Seq(ASection)
         /\ Len(EmitLoop(P)[n]) <= Len(EmitLoop(Q)[Len(Q)])
         /\ \A k \in 1..Len(EmitLoop(P)[n]) : EmitLoop(Q)[Len(Q)][k] = EmitLoop(P)[n][k]
<1>1. PICK p \in Nat, q \in Nat : p = Len(P) /\ q = Len(Q)
  BY LengthOf
<1> DEFINE T == {k \in 0..n : EmitLoop(P)[k] \in Seq(ASection) /\ EmitLoop(Q)[k] = EmitLoop(P)[k]}
<1>2. 0 \in T
  <2>1. EmitLoop(P)[0] = <<>> /\ EmitLoop(Q)[0] = <<>> /\ <<>> \in Seq(ASection)
    BY <1>1, EmitTurns, EmptySeq
  <2>2. EmitLoop(P)[0] \in Seq(ASection) /\ EmitLoop(Q)[0] = EmitLoop(P)[0]
    BY <2>1
  <2> QED
    BY <2>2
<1>3. ASSUME NEW k \in 1..n, k - 1 \in T
      PROVE  k \in T
  <2>1. PICK cs \in Seq(ASection) : cs = EmitLoop(P)[k - 1] /\ cs = EmitLoop(Q)[k - 1]
    BY <1>3
  <2>2. k \in 1..Len(P) /\ k \in 1..Len(Q)
    BY <1>1
  <2>3. EmitLoop(P)[k] = cs \o Emit(P[k]) /\ EmitLoop(Q)[k] = cs \o Emit(Q[k])
    BY <1>1, <2>1, <2>2, EmitTurns
  <2>4. Q[k] = P[k] /\ P[k] \in ASection
    BY <2>2, LengthOf
  <2>5. Emit(P[k]) \in Seq(ASection)
    BY <2>4, EmitBegins DEF BeginsIn
  <2>6. EmitLoop(P)[k] \in Seq(ASection) /\ EmitLoop(Q)[k] = EmitLoop(P)[k]
    BY <2>3, <2>4, <2>5, ConcatProperties
  <2>7. k \in 0..n
    OBVIOUS
  <2> QED
    BY <2>6, <2>7
<1> HIDE DEF T
<1>4. \A k \in 0..n : k \in T
  BY <1>2, <1>3, Induction
<1>5. PICK cs \in Seq(ASection) : cs = EmitLoop(P)[n] /\ cs = EmitLoop(Q)[n]
  BY <1>4 DEF T
<1>6. PICK l \in Nat : l = Len(cs)
  BY LengthOf
<1> DEFINE Behind(x) == x \in Seq(ASection) /\ l <= Len(x) /\ \A i \in 1..l : x[i] = cs[i]
           U == {k \in 0..q : k < n \/ Behind(EmitLoop(Q)[k])}
<1>7. Behind(cs)
  BY <1>6
<1>8. ASSUME NEW x, Behind(x), NEW y \in Seq(ASection)
      PROVE  Behind(x \o y)
  <2>1. PICK xx \in Seq(ASection), m \in Nat, e \in Nat : xx = x /\ m = Len(x) /\ e = Len(y)
    BY <1>8, LengthOf
  <2>2. /\ xx \o y \in Seq(ASection) /\ Len(xx \o y) = m + e
        /\ \A i \in 1..(m + e) : (xx \o y)[i] = IF i <= m THEN xx[i] ELSE y[i - m]
    BY <2>1, ConcatProperties
  <2>3. l <= m + e /\ \A i \in 1..l : i \in 1..(m + e) /\ i <= m
    BY <1>8, <2>1
  <2>4. \A i \in 1..l : (xx \o y)[i] = cs[i]
    BY <1>8, <2>1, <2>2, <2>3
  <2> QED
    BY <2>1, <2>2, <2>3, <2>4
<1> HIDE DEF Behind
<1>9. 0 \in U
  BY <1>5, <1>7
<1>10. ASSUME NEW k \in 1..q, k - 1 \in U
       PROVE  k \in U
  <2>1. CASE k < n
    BY <2>1
  <2>2. CASE k = n
    BY <1>5, <1>7, <2>2
  <2>3. CASE k > n
    <3>1. Behind(EmitLoop(Q)[k - 1])
      BY <1>10, <2>3
    <3>2. k \in 1..Len(Q) /\ k \in 0..q
      BY <1>1
    <3>3. EmitLoop(Q)[k] = EmitLoop(Q)[k - 1] \o Emit(Q[k]) /\ Q[k] \in ASection
      BY <1>1, <3>2, EmitTurns, LengthOf
    <3>4. Emit(Q[k]) \in Seq(ASection)
      BY <3>3, EmitBegins DEF BeginsIn
    <3>5. Behind(EmitLoop(Q)[k])
      BY <1>8, <3>1, <3>3, <3>4
    <3> QED
      BY <3>2, <3>5
  <2> QED
    BY <1>1, <2>1, <2>2, <2>3
<1> HIDE DEF U
<1>11. \A k \in 0..q : k \in U
  BY <1>9, <1>10, Induction
<1>12. Behind(EmitLoop(Q)[q])
  BY <1>1, <1>11 DEF U
<1> QED
  BY <1>1, <1>5, <1>6, <1>12 DEF Behind

\* A chunk that a longer document does not have begins in the last section.
LEMMA GrowthKeeps ==
  ASSUME NEW doc \in Seq(ABlock), NEW doc2 \in Seq(ABlock), IsPrefix(doc, doc2),
         NEW k \in DOMAIN Chunk(doc),
         k \notin DOMAIN Chunk(doc2) \/ Chunk(doc2)[k] # Chunk(doc)[k]
  PROVE  Head(Chunk(doc)[k].words) \in ToSet(Last(Sections(doc)).words)
<1>1. PICK hs \in Seq(ASection), gs \in Seq(ASection) :
        hs = HeadedSections(doc) /\ gs = HeadedSections(doc2) /\ Grown(hs, gs)
  BY HeadedGrow
<1>2. CASE hs = <<>>
  <2>1. Len(hs) = 0
    BY <1>2, EmptySeq
  <2>2. Merged(hs) = <<>>
    BY <2>1, MergeTurns DEF Merged
  <2>3. Sections(doc) = <<>>
    BY <1>1, <2>2, EmptySeq DEF Sections, FoldTail
  <2>4. EmitLoop(<<>>)[0] = <<>> /\ Len(<<>>) = 0
    <3>1. Len(<<>>) = 0
      BY EmptySeq
    <3> QED
      BY <3>1, EmitTurns
  <2>5. Chunk(doc) = <<>>
    BY <2>3, <2>4 DEF Chunk
  <2>6. DOMAIN <<>> = {}
    OBVIOUS
  <2> QED
    BY <2>5, <2>6
<1>3. CASE hs # <<>>
  <2>1. PICK A \in Seq(ASection), B \in Seq(ASection) :
          A = Merged(hs) /\ B = Merged(gs) /\ GrownOn(A, B)
    BY <1>1, <1>3, MergedGrow
  <2>2. A # <<>>
    <3>1. PICK n \in Nat : n = Len(hs) /\ n # 0
      BY <1>3, LengthOf
    <3>2. PICK mm \in Seq(ASection) : mm = MergeLoop(hs)[n - 1]
      <4>1. n - 1 \in 0..Len(hs)
        BY <3>1
      <4> QED
        BY <4>1, MergedLeaves
    <3>3. n \in 1..Len(hs)
      BY <3>1
    <3>4. MergeLoop(hs)[n] = MergeNext(mm, hs[n]) /\ hs[n] \in ASection
      BY <3>1, <3>2, <3>3, MergeTurns, LengthOf
    <3> QED
      BY <2>1, <3>1, <3>4, MergeNextIs DEF Merged
  <2>3. PICK P \in Seq(ASection), Q \in Seq(ASection) :
          /\ P = FoldTail(A) /\ Q = FoldTail(B) /\ P # <<>>
          /\ Len(P) - 1 <= Len(Q) /\ \A j \in 1..(Len(P) - 1) : Q[j] = P[j]
    BY <2>1, <2>2, FoldedGrow, ZenonT(30)
  <2>4. P = Sections(doc) /\ Q = Sections(doc2)
    BY <1>1, <2>1, <2>3 DEF Sections
  <2>5. PICK n \in Nat : n = Len(P) - 1 /\ n + 1 = Len(P)
    <3>1. Len(P) \in Nat /\ Len(P) # 0
      BY <2>3, LengthOf
    <3>2. Len(P) - 1 \in Nat /\ (Len(P) - 1) + 1 = Len(P)
      BY <3>1
    <3> QED
      BY <3>2
  <2>6. PICK cs \in Seq(ASection), ds \in Seq(ASection) :
          /\ cs = EmitLoop(P)[n] /\ ds = EmitLoop(Q)[Len(Q)]
          /\ Len(cs) <= Len(ds) /\ \A i \in 1..Len(cs) : ds[i] = cs[i]
    <3>1. n <= Len(P) /\ n <= Len(Q) /\ \A j \in 1..n : Q[j] = P[j]
      BY <2>3, <2>5
    <3>2. /\ EmitLoop(P)[n] \in Seq(ASection) /\ EmitLoop(Q)[Len(Q)] \in Seq(ASection)
          /\ Len(EmitLoop(P)[n]) <= Len(EmitLoop(Q)[Len(Q)])
          /\ \A i \in 1..Len(EmitLoop(P)[n]) : EmitLoop(Q)[Len(Q)][i] = EmitLoop(P)[n][i]
      BY <3>1, EmitGrow
    <3> QED
      BY <3>2
  <2>7. ds = Chunk(doc2)
    BY <2>4, <2>6 DEF Chunk
  <2>8. PICK s \in ASection : s = P[n + 1] /\ s = Last(P)
    <3>1. n + 1 \in 1..Len(P)
      BY <2>5
    <3> QED
      BY <2>5, <3>1, LengthOf DEF Last
  <2>9. PICK es \in Seq(ASection) : es = Emit(s) /\ BeginsIn(es, s)
    BY EmitBegins DEF BeginsIn
  <2>10. Chunk(doc) = cs \o es
    <3>1. Len(P) \in Nat /\ n + 1 \in 1..Len(P) /\ (n + 1) - 1 = n
      BY <2>5, LengthOf
    <3>2. EmitLoop(P)[n + 1] = EmitLoop(P)[(n + 1) - 1] \o Emit(P[n + 1])
      BY <3>1, EmitTurns
    <3>3. EmitLoop(P)[n + 1] = cs \o es
      BY <2>6, <2>8, <2>9, <3>1, <3>2
    <3> QED
      BY <2>4, <2>5, <3>3 DEF Chunk
  <2>11. PICK l \in Nat, m \in Nat, d \in Nat : l = Len(cs) /\ m = Len(es) /\ d = Len(ds)
    BY LengthOf
  <2>12. /\ cs \o es \in Seq(ASection) /\ Len(cs \o es) = l + m
         /\ \A i \in 1..(l + m) : (cs \o es)[i] = IF i <= l THEN cs[i] ELSE es[i - l]
    BY <2>11, ConcatProperties
  <2>13. k \in 1..(l + m)
    BY <2>10, <2>12, LenProperties
  <2>14. ~(k <= l)
    <3> SUFFICES ASSUME k <= l PROVE FALSE
      OBVIOUS
    <3>0. l <= d
      BY <2>6, <2>11
    <3>1. k \in 1..l /\ k \in 1..d
      BY <2>13, <3>0
    <3>2. k \in DOMAIN ds
      BY <2>11, <3>1, LenProperties
    <3>3. ds[k] = cs[k] /\ (cs \o es)[k] = cs[k]
      BY <2>6, <2>11, <2>12, <2>13, <3>1
    <3> QED
      BY <2>7, <2>10, <3>2, <3>3
  <2>15. (cs \o es)[k] = es[k - l] /\ k - l \in 1..Len(es)
    BY <2>11, <2>12, <2>13, <2>14
  <2>16. Head(es[k - l].words) \in ToSet(s.words)
    BY <2>9, <2>15 DEF BeginsIn
  <2> QED
    BY <2>4, <2>8, <2>10, <2>15, <2>16
<1> QED
  BY <1>2, <1>3
=============================================================================
