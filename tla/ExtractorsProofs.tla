-------------------------- MODULE ExtractorsProofs --------------------------
(***************************************************************************)
(* Proofs about Extractors: what extract_blocks makes of any file of any   *)
(* length, in every format, and what chunk makes of that.                  *)
(***************************************************************************)
EXTENDS Extractors, ChunkerProofs

-----------------------------------------------------------------------------
(***************************************************************************)
(* The loops over the lines and the bookmarks are what their turns make.   *)
(***************************************************************************)

LEMMA BookmarkTurns ==
  ASSUME NEW lines, Len(lines) \in Nat
  PROVE  /\ BookmarkLoop(lines)[0] = [path |-> <<>>, pages |-> [p \in Pages(lines) |-> <<>>]]
         /\ \A k \in 1..Len(lines) :
              BookmarkLoop(lines)[k] = AddBookmark(lines, BookmarkLoop(lines)[k - 1], k)
<1> DEFINE n == Len(lines)
           Turn(s, k) == AddBookmark(lines, s, k)
           Run(g, m) ==
             g = [k \in 0..m |-> IF k = 0 THEN [path |-> <<>>, pages |-> [p \in Pages(lines) |-> <<>>]]
                                  ELSE Turn(g[k - 1], k)]
           T == {m \in 0..n : \E g : Run(g, m)}
<1> HIDE DEF Turn
<1>1. Run([k \in 0..0 |-> [path |-> <<>>, pages |-> [p \in Pages(lines) |-> <<>>]]], 0)
  OBVIOUS
<1>2. ASSUME NEW m \in 1..n, NEW g, Run(g, m - 1)
      PROVE  Run([k \in 0..m |-> IF k = m THEN Turn(g[m - 1], m) ELSE g[k]], m)
  BY <1>2
<1> HIDE DEF Run
<1>3. \A m \in 0..n : m \in T
  <2>1. 0 \in T
    BY <1>1
  <2>2. ASSUME NEW m \in 1..n, m - 1 \in T
        PROVE  m \in T
    <3>1. PICK g : Run(g, m - 1)
      BY <2>2
    <3>2. Run([k \in 0..m |-> IF k = m THEN Turn(g[m - 1], m) ELSE g[k]], m)
      BY <1>2, <3>1
    <3> QED
      BY <3>2
  <2> HIDE DEF T
  <2> QED
    BY <2>1, <2>2, Induction
<1>4. PICK g : Run(g, n)
  BY <1>3
<1> USE DEF Run
<1>5. Run(BookmarkLoop(lines), n)
  BY <1>4 DEF BookmarkLoop, Turn
<1>6. /\ BookmarkLoop(lines)[0] = [path |-> <<>>, pages |-> [p \in Pages(lines) |-> <<>>]]
      /\ \A k \in 1..n : BookmarkLoop(lines)[k] =
           Turn(BookmarkLoop(lines)[k - 1], k)
  <2>1. PICK b : b = BookmarkLoop(lines)
    OBVIOUS
  <2>2. b = [k \in 0..n |-> IF k = 0 THEN [path |-> <<>>, pages |-> [p \in Pages(lines) |-> <<>>]]
                            ELSE Turn(b[k - 1], k)]
    BY <1>5, <2>1
  <2>3. b[0] = [path |-> <<>>, pages |-> [p \in Pages(lines) |-> <<>>]]
    BY <2>2
  <2>4. \A k \in 1..n : b[k] = Turn(b[k - 1], k)
    BY <2>2
  <2> QED
    BY <2>1, <2>3, <2>4
<1> QED
  BY <1>6 DEF Turn

LEMMA LineTurns ==
  ASSUME NEW suffix, NEW lines, Len(lines) \in Nat
  PROVE  /\ LineLoop(suffix, lines)[0] = Start
         /\ \A k \in 1..Len(lines) :
              LineLoop(suffix, lines)[k] = AddLine(suffix, lines, LineLoop(suffix, lines)[k - 1], k)
<1> DEFINE n == Len(lines)
           Turn(s, k) == AddLine(suffix, lines, s, k)
           Run(g, m) == g = [k \in 0..m |-> IF k = 0 THEN Start ELSE Turn(g[k - 1], k)]
           T == {m \in 0..n : \E g : Run(g, m)}
<1> HIDE DEF Turn
<1>1. Run([k \in 0..0 |-> Start], 0)
  OBVIOUS
<1>2. ASSUME NEW m \in 1..n, NEW g, Run(g, m - 1)
      PROVE  Run([k \in 0..m |-> IF k = m THEN Turn(g[m - 1], m) ELSE g[k]], m)
  BY <1>2
<1> HIDE DEF Run
<1>3. \A m \in 0..n : m \in T
  <2>1. 0 \in T
    BY <1>1
  <2>2. ASSUME NEW m \in 1..n, m - 1 \in T
        PROVE  m \in T
    <3>1. PICK g : Run(g, m - 1)
      BY <2>2
    <3>2. Run([k \in 0..m |-> IF k = m THEN Turn(g[m - 1], m) ELSE g[k]], m)
      BY <1>2, <3>1
    <3> QED
      BY <3>2
  <2> HIDE DEF T
  <2> QED
    BY <2>1, <2>2, Induction
<1>4. PICK g : Run(g, n)
  BY <1>3
<1> USE DEF Run
<1>5. Run(LineLoop(suffix, lines), n)
  BY <1>4 DEF LineLoop, Turn
<1>6. /\ LineLoop(suffix, lines)[0] = Start
      /\ \A k \in 1..n : LineLoop(suffix, lines)[k] =
           Turn(LineLoop(suffix, lines)[k - 1], k)
  BY <1>5
<1> QED
  BY <1>6 DEF Turn

-----------------------------------------------------------------------------
(***************************************************************************)
(* The lines of a file, and the state of the loop over them.               *)
(***************************************************************************)

Kinds == {"text", "blank", "page", "bookmark", "title", "heading", "atx", "under", "fence"}
ALine == [kind : Kinds, level : Nat, size : Nat, mark : Nat]

LEMMA LineIs ==
  ASSUME NEW k \in Kinds, NEW n \in Nat, NEW z \in Nat, NEW m \in Nat
  PROVE  LET l == Line(k, n, z, m)
         IN l \in ALine /\ l.kind = k /\ l.level = n /\ l.size = z /\ l.mark = m
BY DEF Line, ALine

\* What Next writes into a file of each format.
LinesOf(suffix) ==
  CASE suffix = "md" -> Texts \cup {Blank} \cup MarkdownLines
    [] suffix = "docx" -> Texts \cup {Blank} \cup DocxLines
    [] suffix = "pdf" -> Texts \cup {NextPage} \cup Bookmarks
    [] suffix = "txt" -> Texts \cup {Blank}

LEMMA TextLine ==
  ASSUME NEW l \in Texts
  PROVE  l \in ALine /\ l.kind = "text"
<1>1. PICK n \in Sizes : l = Line("text", 0, n, 0)
  BY DEF Texts
<1>2. n \in Nat
  BY ExtractorsAssumption
<1>3. "text" \in Kinds
  BY DEF Kinds
<1> QED
  BY <1>1, <1>2, <1>3, LineIs, 0 \in Nat

LEMMA BlankLine ==
  Blank \in ALine /\ Blank.kind = "blank"
<1>1. "blank" \in Kinds
  BY DEF Kinds
<1> QED
  BY <1>1, LineIs, 0 \in Nat DEF Blank

LEMMA MarkdownLine ==
  ASSUME NEW l \in LinesOf("md")
  PROVE  /\ l \in ALine /\ l.kind \in {"text", "blank", "atx", "under", "fence"}
         /\ l.kind = "blank" => l = Blank
         /\ l.kind \in {"atx", "under"} => l.level # 0
         /\ l.kind = "fence" => l.level <= 4
<1>1. l \in Texts \/ l = Blank \/ l \in MarkdownLines
  BY DEF LinesOf
<1>2. CASE l \in Texts
  BY <1>2, TextLine
<1>3. CASE l = Blank
  BY <1>3, BlankLine
<1>4. CASE l \in MarkdownLines
  <2>1. CASE \E n \in 1..MaxLevel : l = Line("atx", n, 1, 0)
    <3>1. PICK n \in 1..MaxLevel : l = Line("atx", n, 1, 0)
      BY <2>1
    <3>2. n \in Nat /\ n # 0
      BY ExtractorsAssumption
    <3>3. "atx" \in Kinds
      BY DEF Kinds
    <3> QED
      BY <3>1, <3>2, <3>3, LineIs, 0 \in Nat, 1 \in Nat
  <2>2. CASE \E n \in 1..2 : l = Line("under", n, 1, 0)
    <3>1. PICK n \in 1..2 : l = Line("under", n, 1, 0)
      BY <2>2
    <3>2. n \in Nat /\ n # 0
      OBVIOUS
    <3>3. "under" \in Kinds
      BY DEF Kinds
    <3> QED
      BY <3>1, <3>2, <3>3, LineIs, 0 \in Nat, 1 \in Nat
  <2>3. CASE l \in {Line("fence", 3, 1, Backtick), Line("fence", 4, 1, Backtick), Line("fence", 3, 1, Tilde)}
    <3>1. PICK n \in {3, 4}, m \in {1, 2} : l = Line("fence", n, 1, m)
      BY <2>3 DEF Backtick, Tilde
    <3>2. n \in Nat /\ n <= 4 /\ m \in Nat
      OBVIOUS
    <3>3. "fence" \in Kinds
      BY DEF Kinds
    <3> QED
      BY <3>1, <3>2, <3>3, LineIs, 1 \in Nat
  <2> QED
    BY <1>4, <2>1, <2>2, <2>3 DEF MarkdownLines
<1> QED
  BY <1>1, <1>2, <1>3, <1>4

LEMMA DocxLine ==
  ASSUME NEW l \in LinesOf("docx")
  PROVE  /\ l \in ALine /\ l.kind \in {"text", "blank", "title", "heading"}
         /\ l.kind = "blank" => l = Blank
         /\ DocxLevel(l) \in Nat
<1>1. l \in Texts \/ l = Blank \/ l \in DocxLines
  BY DEF LinesOf
<1>2. CASE l \in Texts
  BY <1>2, TextLine DEF DocxLevel
<1>3. CASE l = Blank
  BY <1>3, BlankLine DEF DocxLevel
<1>4. CASE l \in DocxLines
  <2>1. CASE l = Line("title", 0, 1, 0)
    <3>1. "title" \in Kinds
      BY DEF Kinds
    <3>2. l \in ALine /\ l.kind = "title"
      BY <2>1, <3>1, LineIs, 0 \in Nat, 1 \in Nat
    <3> QED
      BY <3>2 DEF DocxLevel
  <2>2. CASE \E n \in 0..MaxLevel : l = Line("heading", n, 1, 0)
    <3>1. PICK n \in 0..MaxLevel : l = Line("heading", n, 1, 0)
      BY <2>2
    <3>3. n \in Nat
      BY ExtractorsAssumption
    <3>4. "heading" \in Kinds
      BY DEF Kinds
    <3>2. l \in ALine /\ l.kind = "heading" /\ l.level = n
      BY <3>1, <3>3, <3>4, LineIs, 0 \in Nat, 1 \in Nat
    <3> QED
      BY <3>2, <3>3 DEF DocxLevel
  <2> QED
    BY <1>4, <2>1, <2>2 DEF DocxLines
<1> QED
  BY <1>1, <1>2, <1>3, <1>4

LEMMA PdfLine ==
  ASSUME NEW l \in LinesOf("pdf")
  PROVE  /\ l \in ALine /\ l.kind \in {"text", "page", "bookmark"}
         /\ l.kind = "bookmark" => l.level # 0
<1>1. l \in Texts \/ l = NextPage \/ l \in Bookmarks
  BY DEF LinesOf
<1>2. CASE l \in Texts
  BY <1>2, TextLine
<1>3. CASE l = NextPage
  <2>1. "page" \in Kinds
    BY DEF Kinds
  <2> QED
    BY <1>3, <2>1, LineIs, 0 \in Nat DEF NextPage
<1>4. CASE l \in Bookmarks
  <2>1. PICK n \in 1..MaxLevel, p \in 1..MaxPages : l = Line("bookmark", n, 0, p)
    BY <1>4 DEF Bookmarks
  <2>2. n \in Nat /\ n # 0 /\ p \in Nat
    BY ExtractorsAssumption
  <2>3. "bookmark" \in Kinds
    BY DEF Kinds
  <2> QED
    BY <2>1, <2>2, <2>3, LineIs, 0 \in Nat
<1> QED
  BY <1>1, <1>2, <1>3, <1>4

LEMMA PlainLine ==
  ASSUME NEW l \in LinesOf("txt")
  PROVE  /\ l \in ALine /\ l.kind \in {"text", "blank"}
         /\ l.kind = "blank" => l = Blank
<1>1. l \in Texts \/ l = Blank
  BY DEF LinesOf
<1> QED
  BY <1>1, TextLine, BlankLine

AllFormats == {"md", "docx", "pdf", "txt"}

LEMMA AnyLine ==
  ASSUME NEW suffix \in AllFormats, NEW l \in LinesOf(suffix)
  PROVE  l \in ALine
BY MarkdownLine, DocxLine, PdfLine, PlainLine DEF AllFormats

LEMMA FirstOf ==
  ASSUME NEW path \in Seq(Nat), NEW m \in Nat, m <= Len(path)
  PROVE  /\ Piece(path, 0, m) \in Seq(Nat) /\ Len(Piece(path, 0, m)) = m
         /\ \A j \in 1..m : Piece(path, 0, m)[j] = path[j]
<1>1. 0 <= m
  OBVIOUS
<1>2. Piece(path, 0, m) \in Seq(Nat) /\ Len(Piece(path, 0, m)) = m - 0
  BY <1>1, PieceIs, 0 \in Nat
<1>3. \A j \in 1..(m - 0) : Piece(path, 0, m)[j] = path[0 + j]
  BY <1>1, PieceIs, 0 \in Nat
<1> QED
  BY <1>2, <1>3

\* _push: the headings above the level, and the new one.
LEMMA PushTo ==
  ASSUME NEW path \in Seq(Nat), NEW level \in Nat, level # 0, NEW i \in Nat,
         NEW m \in Nat, m <= Len(path), m < level, m = Len(path) \/ m = level - 1
  PROVE  /\ Push(path, level, i) \in Seq(Nat) /\ Len(Push(path, level, i)) = m + 1
         /\ Push(path, level, i)[m + 1] = i
         /\ \A j \in 1..m : Push(path, level, i)[j] = path[j]
<1>1. Len(path) \in Nat
  BY LenProperties
<1>2. 0 <= m /\ m <= Len(path) /\ m < level
  BY <1>1
<1>4. PICK p : p = Piece(path, 0, m)
  OBVIOUS
<1>7. p \in Seq(Nat) /\ Len(p) = m /\ \A j \in 1..m : p[j] = path[j]
  BY <1>4, FirstOf
<1>8. /\ Append(p, i) \in Seq(Nat) /\ Len(Append(p, i)) = m + 1 /\ Append(p, i)[m + 1] = i
      /\ \A j \in 1..m : Append(p, i)[j] = p[j]
  BY <1>7, AppendProperties
<1>9. Push(path, level, i) = Append(p, i)
  <2>1. m = IF Len(path) < level THEN Len(path) ELSE level - 1
    BY <1>1
  <2> QED
    BY <1>4, <2>1 DEF Push, Piece
<1> QED
  BY <1>2, <1>7, <1>8, <1>9

LEMMA PushIs ==
  ASSUME NEW path \in Seq(Nat), NEW level \in Nat, level # 0, NEW i \in Nat
  PROVE  Push(path, level, i) \in Seq(Nat)
<1>1. PICK n \in Nat : n = Len(path)
  BY LenProperties
<1>2. PICK m \in Nat : m <= n /\ m < level /\ (m = n \/ m = level - 1)
  <2>1. CASE n < level
    BY <2>1
  <2>2. CASE level <= n
    <3>1. level - 1 \in Nat /\ level - 1 <= n /\ level - 1 < level
      BY <2>2
    <3> QED
      BY <3>1
  <2> QED
    BY <2>1, <2>2
<1> QED
  BY <1>1, <1>2, PushTo

-----------------------------------------------------------------------------
(***************************************************************************)
(* The pages of a PDF, and the headings they have.                         *)
(***************************************************************************)

LEMMA PageIs ==
  ASSUME NEW lines, NEW i \in Nat, NEW j \in Nat, i <= j
  PROVE  PageOf(lines, i) \in Nat \ {0} /\ PageOf(lines, i) <= PageOf(lines, j)
<1> DEFINE B(k) == {b \in 1..k : lines[b] = NextPage}
<1>1. IsFiniteSet(1..j)
  BY FS_Interval, 1 \in Int
<1>2. B(j) \in SUBSET (1..j) /\ B(i) \in SUBSET B(j)
  OBVIOUS
<1>3. IsFiniteSet(B(j))
  BY <1>1, <1>2, FS_Subset
<1>4. IsFiniteSet(B(i)) /\ Cardinality(B(i)) <= Cardinality(B(j))
  BY <1>2, <1>3, FS_Subset
<1>5. Cardinality(B(i)) \in Nat /\ Cardinality(B(j)) \in Nat
  BY <1>3, <1>4, FS_CardinalityType
<1>6. PageOf(lines, i) = 1 + Cardinality(B(i)) /\ PageOf(lines, j) = 1 + Cardinality(B(j))
  BY DEF PageOf
<1> HIDE DEF B
<1> QED
  BY <1>4, <1>5, <1>6

LEMMA PageInPages ==
  ASSUME NEW lines, Len(lines) \in Nat, NEW i \in 1..Len(lines)
  PROVE  PageOf(lines, i) \in Pages(lines) /\ Pages(lines) \in SUBSET (Nat \ {0})
<1>1. i \in Nat /\ i <= Len(lines)
  OBVIOUS
<1>2. /\ PageOf(lines, i) \in Nat \ {0} /\ PageOf(lines, Len(lines)) \in Nat \ {0}
      /\ PageOf(lines, i) <= PageOf(lines, Len(lines))
  BY <1>1, PageIs
<1> QED
  BY <1>2 DEF Pages

\* The state of the loop over the bookmarks.
AMap(lines) == [path : Seq(Nat), pages : [Pages(lines) -> Seq(Nat)]]

LEMMA OutlineIs ==
  ASSUME NEW lines \in Seq(LinesOf("pdf")), NEW i \in Outline(lines)
  PROVE  /\ i \in 1..Len(lines) /\ lines[i] \in ALine /\ lines[i].level \in Nat \ {0}
         /\ lines[i].mark \in Pages(lines)
<1>1. i \in 1..Len(lines) /\ lines[i].kind = "bookmark" /\ lines[i].mark \in Pages(lines)
  BY LenProperties DEF Outline
<1>2. lines[i] \in LinesOf("pdf")
  BY <1>1, ElementOfSeq
<1>3. lines[i] \in ALine /\ lines[i].level # 0
  BY <1>1, <1>2, PdfLine
<1> QED
  BY <1>1, <1>3 DEF ALine

LEMMA AddBookmarkIs ==
  ASSUME NEW lines \in Seq(LinesOf("pdf")), NEW s \in AMap(lines), NEW i \in 1..Len(lines)
  PROVE  LET t == AddBookmark(lines, s, i)
         IN /\ t \in AMap(lines)
            /\ i \notin Outline(lines) => t = s
            /\ i \in Outline(lines) =>
                 /\ t.path = Push(s.path, lines[i].level, i)
                 /\ \A p \in Pages(lines) :
                      t.pages[p] = IF p = lines[i].mark THEN t.path ELSE s.pages[p]
<1>1. CASE i \notin Outline(lines)
  BY <1>1 DEF AddBookmark
<1>2. CASE i \in Outline(lines)
  <2>1. PICK l \in Nat, m \in Pages(lines) : l = lines[i].level /\ m = lines[i].mark /\ l # 0
    BY <1>2, OutlineIs
  <2>2. s.path \in Seq(Nat) /\ s.pages \in [Pages(lines) -> Seq(Nat)] /\ i \in Nat
    BY LenProperties DEF AMap
  <2>3. PICK q : q = Push(s.path, l, i)
    OBVIOUS
  <2>4. q \in Seq(Nat)
    BY <2>1, <2>2, <2>3, PushIs
  <2>5. AddBookmark(lines, s, i) = [path |-> q, pages |-> [s.pages EXCEPT ![m] = q]]
    BY <1>2, <2>1, <2>3 DEF AddBookmark
  <2>6. /\ [s.pages EXCEPT ![m] = q] \in [Pages(lines) -> Seq(Nat)]
        /\ \A p \in Pages(lines) : [s.pages EXCEPT ![m] = q][p] = IF p = m THEN q ELSE s.pages[p]
    BY <2>1, <2>2, <2>4
  <2>7. AddBookmark(lines, s, i) \in AMap(lines)
    BY <2>4, <2>5, <2>6 DEF AMap
  <2> QED
    BY <1>2, <2>1, <2>3, <2>5, <2>6, <2>7
<1> QED
  BY <1>1, <1>2

LEMMA BookmarkType ==
  ASSUME NEW lines \in Seq(LinesOf("pdf"))
  PROVE  \A k \in 0..Len(lines) : BookmarkLoop(lines)[k] \in AMap(lines)
<1> DEFINE T == {k \in 0..Len(lines) : BookmarkLoop(lines)[k] \in AMap(lines)}
<1>1. Len(lines) \in Nat
  BY LenProperties
<1>2. 0 \in T
  <2>1. [path |-> <<>>, pages |-> [p \in Pages(lines) |-> <<>>]] \in AMap(lines)
    BY EmptySeq DEF AMap
  <2> QED
    BY <1>1, <2>1, BookmarkTurns
<1>3. ASSUME NEW k \in 1..Len(lines), k - 1 \in T
      PROVE  k \in T
  <2>1. BookmarkLoop(lines)[k] = AddBookmark(lines, BookmarkLoop(lines)[k - 1], k)
    BY <1>1, BookmarkTurns
  <2>2. BookmarkLoop(lines)[k] \in AMap(lines)
    BY <1>3, <2>1, AddBookmarkIs
  <2>3. k \in 0..Len(lines)
    BY <1>1
  <2> QED
    BY <2>2, <2>3
<1> HIDE DEF T
<1>4. \A k \in 0..Len(lines) : k \in T
  BY <1>1, <1>2, <1>3, Induction
<1> QED
  BY <1>4 DEF T

LEMMA PerPageIs ==
  ASSUME NEW lines \in Seq(LinesOf("pdf"))
  PROVE  PerPage(lines) \in [Pages(lines) -> Seq(Nat)]
<1>1. Len(lines) \in 0..Len(lines)
  BY LenProperties
<1>2. BookmarkLoop(lines)[Len(lines)] \in AMap(lines)
  BY <1>1, BookmarkType
<1> QED
  BY <1>2 DEF PerPage, AMap

\* The headings of a page: those of the last page at or before it that has its own.
LEMMA HeadingsByPageIs ==
  ASSUME NEW lines \in Seq(LinesOf("pdf")), NEW p \in Pages(lines)
  PROVE  LET own == PerPage(lines)
             q == HeadingsByPage(lines)[p]
         IN \/ q = <<>> /\ \A b \in Pages(lines) : b <= p => own[b] = <<>>
            \/ \E b \in Pages(lines) : /\ b <= p /\ own[b] # <<>> /\ q = own[b]
                                       /\ \A c \in Pages(lines) : c <= p /\ own[c] # <<>> => c <= b
<1>1. PICK own \in [Pages(lines) -> Seq(Nat)] : own = PerPage(lines)
  BY PerPageIs
<1>2. PICK before : before = {b \in 1..p : own[b] # <<>>}
  OBVIOUS
<1>3. HeadingsByPage(lines)[p] =
        IF before = {} THEN <<>> ELSE own[CHOOSE b \in before : \A c \in before : c <= b]
  BY <1>1, <1>2 DEF HeadingsByPage
<1>4. PICK n \in Nat : n = PageOf(lines, Len(lines))
  BY LenProperties, PageIs
<1>5. Pages(lines) = 1..n
  BY <1>4 DEF Pages
<1>6. before = {b \in Pages(lines) : b <= p /\ own[b] # <<>>}
  BY <1>2, <1>5
<1>7. CASE before = {}
  BY <1>1, <1>3, <1>6, <1>7
<1>8. CASE before # {}
  <2> DEFINE D == {n - b : b \in before}
  <2>1. D # {} /\ D \in SUBSET Nat
    BY <1>5, <1>6, <1>8
  <2>2. PICK d \in D : \A e \in D : d <= e
    BY <2>1, Least
  <2>3. PICK b \in before : d = n - b
    OBVIOUS
  <2>4. \A c \in before : c <= b
    <3>1. \A c \in before : n - b <= n - c
      BY <2>2, <2>3
    <3> QED
      BY <1>5, <1>6, <3>1
  <2>5. PICK m : m = CHOOSE b1 \in before : \A c \in before : c <= b1
    OBVIOUS
  <2>6. m \in before /\ \A c \in before : c <= m
    BY <2>4, <2>5
  <2>7. HeadingsByPage(lines)[p] = own[m]
    BY <1>3, <1>8, <2>5
  <2> QED
    BY <1>1, <1>6, <2>6, <2>7
<1> QED
  BY <1>7, <1>8

LEMMA HeadingsByPageType ==
  ASSUME NEW lines \in Seq(LinesOf("pdf")), NEW p \in Pages(lines)
  PROVE  HeadingsByPage(lines)[p] \in Seq(Nat)
<1>1. PICK own \in [Pages(lines) -> Seq(Nat)] : own = PerPage(lines)
  BY PerPageIs
<1>2. \/ HeadingsByPage(lines)[p] = <<>>
      \/ \E b \in Pages(lines) : HeadingsByPage(lines)[p] = own[b]
  BY <1>1, HeadingsByPageIs
<1> QED
  BY <1>2, EmptySeq

-----------------------------------------------------------------------------
(***************************************************************************)
(* One turn of the loop over the lines, in each format.                    *)
(***************************************************************************)

AState == [blocks : Seq(ABlock), path : Seq(Nat), fence : ALine, skip : BOOLEAN]

\* The level of the heading that line i is, or 0.
LevelAt(suffix, lines, s, i) ==
  CASE suffix = "md" -> IF s.fence # Blank THEN 0 ELSE MarkdownLevel(lines, i)
    [] suffix = "docx" -> DocxLevel(lines[i])
    [] OTHER -> 0

\* Line i closes or opens a code block.
ClosesAt(lines, s, i) == s.fence # Blank /\ Closes(lines[i], s.fence)
OpensAt(lines, s, i) == s.fence = Blank /\ lines[i].kind = "fence"

\* Line i becomes a block.
Adds(suffix, lines, s, i) ==
  CASE suffix = "md" -> ~s.skip /\ lines[i] # Blank /\ ~ClosesAt(lines, s, i) /\ ~OpensAt(lines, s, i)
    [] suffix = "pdf" -> lines[i].kind = "text"
    [] OTHER -> lines[i] # Blank

PathAt(suffix, lines, s, i) ==
  IF LevelAt(suffix, lines, s, i) = 0 THEN s.path ELSE Push(s.path, LevelAt(suffix, lines, s, i), i)

HeadAt(suffix, lines, s, i) ==
  CASE suffix = "pdf" -> HeadingsByPage(lines)[PageOf(lines, i)]
    [] suffix = "txt" -> <<>>
    [] OTHER -> PathAt(suffix, lines, s, i)

PageAt(suffix, lines, i) == IF suffix = "pdf" THEN PageOf(lines, i) ELSE 0

NewBlock(suffix, lines, s, i) ==
  Block(lines, i, HeadAt(suffix, lines, s, i), LevelAt(suffix, lines, s, i) # 0,
        PageAt(suffix, lines, i))

LEMMA BlockIs ==
  ASSUME NEW lines, NEW i \in Nat, lines[i].size \in Nat, NEW path \in Seq(Nat),
         NEW isHeading \in BOOLEAN, NEW page \in Nat
  PROVE  LET b == Block(lines, i, path, isHeading, page)
         IN /\ b \in ABlock /\ b.path = path /\ b.isHeading = isHeading /\ b.page = page
            /\ b.line = i
BY DEF Block, ABlock

LEMMA LevelIs ==
  ASSUME NEW suffix \in AllFormats, NEW lines \in Seq(LinesOf(suffix)), NEW s, NEW i \in 1..Len(lines)
  PROVE  LevelAt(suffix, lines, s, i) \in Nat
<1>1. Len(lines) \in Nat /\ i \in Nat
  BY LenProperties
<1>2. lines[i] \in LinesOf(suffix) /\ (i < Len(lines) => lines[i + 1] \in LinesOf(suffix))
  BY <1>1, ElementOfSeq
<1>3. CASE suffix = "md"
  <2>1. lines[i].level \in Nat /\ (i < Len(lines) => lines[i + 1].level \in Nat)
    BY <1>2, <1>3, MarkdownLine DEF ALine
  <2>2. MarkdownLevel(lines, i) \in Nat
    BY <2>1 DEF MarkdownLevel
  <2> QED
    BY <1>3, <2>2 DEF LevelAt
<1>4. CASE suffix = "docx"
  BY <1>2, <1>4, DocxLine DEF LevelAt
<1>5. CASE suffix \notin {"md", "docx"}
  BY <1>5 DEF LevelAt
<1> QED
  BY <1>3, <1>4, <1>5

LEMMA PathAtIs ==
  ASSUME NEW suffix \in AllFormats, NEW lines \in Seq(LinesOf(suffix)), NEW s, s.path \in Seq(Nat),
         NEW i \in 1..Len(lines)
  PROVE  PathAt(suffix, lines, s, i) \in Seq(Nat)
<1>1. PICK n \in Nat : n = LevelAt(suffix, lines, s, i)
  BY LevelIs
<1>2. CASE n = 0
  BY <1>1, <1>2 DEF PathAt
<1>3. CASE n # 0
  <2>1. i \in Nat
    BY LenProperties
  <2>2. Push(s.path, n, i) \in Seq(Nat)
    BY <1>3, <2>1, PushIs
  <2> QED
    BY <1>1, <1>3, <2>2 DEF PathAt
<1> QED
  BY <1>2, <1>3

LEMMA HeadAtIs ==
  ASSUME NEW suffix \in AllFormats, NEW lines \in Seq(LinesOf(suffix)), NEW s, s.path \in Seq(Nat),
         NEW i \in 1..Len(lines)
  PROVE  HeadAt(suffix, lines, s, i) \in Seq(Nat) /\ PageAt(suffix, lines, i) \in Nat
<1>1. Len(lines) \in Nat
  BY LenProperties
<1>2. CASE suffix = "pdf"
  <2>1. PageOf(lines, i) \in Pages(lines) /\ PageOf(lines, i) \in Nat
    BY <1>1, PageInPages
  <2>2. HeadingsByPage(lines)[PageOf(lines, i)] \in Seq(Nat)
    BY <1>2, <2>1, HeadingsByPageType
  <2> QED
    BY <1>2, <2>1, <2>2 DEF HeadAt, PageAt
<1>3. CASE suffix = "txt"
  BY <1>3, EmptySeq DEF HeadAt, PageAt
<1>4. CASE suffix \notin {"pdf", "txt"}
  BY <1>4, PathAtIs DEF HeadAt, PageAt
<1> QED
  BY <1>2, <1>3, <1>4

LEMMA NewBlockIs ==
  ASSUME NEW suffix \in AllFormats, NEW lines \in Seq(LinesOf(suffix)), NEW s, s.path \in Seq(Nat),
         NEW i \in 1..Len(lines)
  PROVE  LET b == NewBlock(suffix, lines, s, i)
         IN /\ b \in ABlock /\ b.path = HeadAt(suffix, lines, s, i)
            /\ b.isHeading <=> LevelAt(suffix, lines, s, i) # 0
            /\ b.page = PageAt(suffix, lines, i) /\ b.line = i
<1>1. i \in Nat /\ lines[i] \in LinesOf(suffix)
  BY LenProperties, ElementOfSeq
<1>2. lines[i].size \in Nat
  BY <1>1, AnyLine DEF ALine
<1>3. PICK h \in BOOLEAN : h = (LevelAt(suffix, lines, s, i) # 0)
  OBVIOUS
<1>4. PICK path \in Seq(Nat), page \in Nat :
        path = HeadAt(suffix, lines, s, i) /\ page = PageAt(suffix, lines, i)
  BY HeadAtIs
<1>5. PICK b : b = Block(lines, i, path, h, page)
  OBVIOUS
<1>6. NewBlock(suffix, lines, s, i) = b
  BY <1>3, <1>4, <1>5 DEF NewBlock
<1>7. /\ Block(lines, i, path, h, page) \in ABlock /\ Block(lines, i, path, h, page).path = path
      /\ Block(lines, i, path, h, page).isHeading = h /\ Block(lines, i, path, h, page).page = page
      /\ Block(lines, i, path, h, page).line = i
  BY <1>1, <1>2 DEF Block, ABlock
<1>8. b \in ABlock /\ b.path = path /\ b.isHeading = h /\ b.page = page /\ b.line = i
  BY <1>5, <1>7, Zenon
<1> QED
  BY <1>3, <1>4, <1>6, <1>8, Zenon

\* What each turn does to the blocks and the path.
Turned(suffix, lines, s, i, t) ==
  /\ t \in AState
  /\ Adds(suffix, lines, s, i) =>
       /\ t.blocks = Append(s.blocks, NewBlock(suffix, lines, s, i))
       /\ t.path = PathAt(suffix, lines, s, i)
  /\ ~Adds(suffix, lines, s, i) => t.blocks = s.blocks /\ t.path = s.path

LEMMA MarkdownTurn ==
  ASSUME NEW lines \in Seq(LinesOf("md")), NEW s \in AState, NEW i \in 1..Len(lines)
  PROVE  LET t == AddMarkdownLine(lines, s, i)
         IN /\ Turned("md", lines, s, i, t)
            /\ t.fence = IF s.skip \/ lines[i] = Blank THEN s.fence
                         ELSE IF ClosesAt(lines, s, i) THEN Blank
                         ELSE IF OpensAt(lines, s, i) THEN lines[i] ELSE s.fence
            /\ t.skip <=> /\ Adds("md", lines, s, i) /\ LevelAt("md", lines, s, i) # 0
                          /\ lines[i].kind # "atx"
<1> DEFINE t == AddMarkdownLine(lines, s, i)
<1>1. /\ s.blocks \in Seq(ABlock) /\ s.path \in Seq(Nat) /\ s.fence \in ALine /\ s.skip \in BOOLEAN
  BY DEF AState
<1>2. lines[i] \in LinesOf("md") /\ lines[i] \in ALine
  BY ElementOfSeq, LenProperties, MarkdownLine
<1>3. Blank \in ALine
  BY BlankLine
<1>a. "md" \in AllFormats
  BY DEF AllFormats
<1>4. CASE s.skip
  <2>1. t = [s EXCEPT !.skip = FALSE]
    BY <1>4 DEF AddMarkdownLine
  <2>2. t \in AState /\ t.blocks = s.blocks /\ t.path = s.path /\ t.fence = s.fence /\ t.skip = FALSE
    BY <2>1 DEF AState
  <2>3. ~Adds("md", lines, s, i)
    BY <1>4 DEF Adds
  <2> QED
    BY <1>4, <2>2, <2>3 DEF Turned
<1>5. CASE ~s.skip /\ lines[i] = Blank
  <2>1. t = s
    BY <1>5 DEF AddMarkdownLine
  <2>2. ~Adds("md", lines, s, i)
    BY <1>5 DEF Adds
  <2> QED
    BY <1>5, <2>1, <2>2 DEF Turned
<1>6. CASE ~s.skip /\ lines[i] # Blank /\ ClosesAt(lines, s, i)
  <2>1. t = [s EXCEPT !.fence = Blank]
    BY <1>6 DEF AddMarkdownLine, ClosesAt
  <2>2. t \in AState /\ t.blocks = s.blocks /\ t.path = s.path /\ t.fence = Blank /\ t.skip = s.skip
    BY <2>1, <1>3 DEF AState
  <2>3. ~Adds("md", lines, s, i)
    BY <1>6 DEF Adds
  <2> QED
    BY <1>6, <2>2, <2>3 DEF Turned
<1>7. CASE ~s.skip /\ lines[i] # Blank /\ ~ClosesAt(lines, s, i) /\ OpensAt(lines, s, i)
  <2>1. t = [s EXCEPT !.fence = lines[i]]
    BY <1>7 DEF AddMarkdownLine, ClosesAt, OpensAt
  <2>2. t \in AState /\ t.blocks = s.blocks /\ t.path = s.path /\ t.fence = lines[i] /\ t.skip = s.skip
    BY <2>1, <1>2 DEF AState
  <2>3. ~Adds("md", lines, s, i)
    BY <1>7 DEF Adds
  <2> QED
    BY <1>7, <2>2, <2>3 DEF Turned
<1>8. CASE ~s.skip /\ lines[i] # Blank /\ ~ClosesAt(lines, s, i) /\ ~OpensAt(lines, s, i)
  <2>1. Adds("md", lines, s, i)
    BY <1>8 DEF Adds
  <2>2. LevelAt("md", lines, s, i) = IF s.fence # Blank THEN 0 ELSE MarkdownLevel(lines, i)
    BY DEF LevelAt
  <2>3. HeadAt("md", lines, s, i) = PathAt("md", lines, s, i) /\ PageAt("md", lines, i) = 0
    BY DEF HeadAt, PageAt
  <2>4. PICK q \in Seq(Nat), b \in ABlock :
          q = PathAt("md", lines, s, i) /\ b = NewBlock("md", lines, s, i)
    BY <1>1, <1>a, PathAtIs, NewBlockIs
  <2>5. PICK n : n = LevelAt("md", lines, s, i)
    OBVIOUS
  <2>6. PICK k \in BOOLEAN : k = (n # 0 /\ lines[i].kind # "atx")
    OBVIOUS
  <2>7. q = IF n = 0 THEN s.path ELSE Push(s.path, n, i)
    BY <2>4, <2>5 DEF PathAt
  <2>8. b = Block(lines, i, q, n # 0, 0)
    BY <2>3, <2>4, <2>5 DEF NewBlock
  <2>9. t = [s EXCEPT !.path = q, !.skip = k, !.blocks = Append(@, b)]
    BY <1>8, <2>2, <2>5, <2>6, <2>7, <2>8 DEF AddMarkdownLine, ClosesAt, OpensAt
  <2>10. Append(s.blocks, b) \in Seq(ABlock)
    BY <1>1, <2>4, AppendProperties
  <2>11. /\ t \in AState /\ t.blocks = Append(s.blocks, b) /\ t.path = q /\ t.fence = s.fence
         /\ t.skip = k
    BY <2>4, <2>6, <2>9, <2>10 DEF AState
  <2> QED
    BY <1>8, <2>1, <2>4, <2>5, <2>6, <2>11 DEF Turned
<1> QED
  BY <1>4, <1>5, <1>6, <1>7, <1>8

LEMMA OtherTurn ==
  ASSUME NEW suffix \in AllFormats, suffix # "md", NEW lines \in Seq(LinesOf(suffix)),
         NEW s \in AState, NEW i \in 1..Len(lines)
  PROVE  Turned(suffix, lines, s, i, AddLine(suffix, lines, s, i))
<1> DEFINE t == AddLine(suffix, lines, s, i)
<1>1. /\ s.blocks \in Seq(ABlock) /\ s.path \in Seq(Nat) /\ s.fence \in ALine /\ s.skip \in BOOLEAN
  BY DEF AState
<1>2. PICK q \in Seq(Nat), b \in ABlock :
        q = PathAt(suffix, lines, s, i) /\ b = NewBlock(suffix, lines, s, i)
  BY <1>1, PathAtIs, NewBlockIs
<1>3. Append(s.blocks, b) \in Seq(ABlock)
  BY <1>1, <1>2, AppendProperties
<1>4. CASE ~Adds(suffix, lines, s, i)
  <2>1. t = s
    <3>1. CASE suffix = "docx"
      BY <1>4, <3>1 DEF AddLine, AddDocxLine, Adds
    <3>2. CASE suffix = "pdf"
      BY <1>4, <3>2 DEF AddLine, AddPdfLine, Adds
    <3>3. CASE suffix = "txt"
      BY <1>4, <3>3 DEF AddLine, AddTextLine, Adds
    <3> QED
      BY <3>1, <3>2, <3>3 DEF AllFormats
  <2> QED
    BY <1>4, <2>1 DEF Turned
<1>5. CASE Adds(suffix, lines, s, i) /\ suffix = "docx"
  <2>1. PICK n : n = DocxLevel(lines[i])
    OBVIOUS
  <2>2. q = IF n = 0 THEN s.path ELSE Push(s.path, n, i)
    BY <1>2, <1>5, <2>1 DEF PathAt, LevelAt
  <2>3. b = Block(lines, i, q, n # 0, 0)
    BY <1>2, <1>5, <2>1 DEF NewBlock, HeadAt, PageAt, LevelAt
  <2>4. t = [s EXCEPT !.path = q, !.blocks = Append(@, b)]
    BY <1>5, <2>1, <2>2, <2>3 DEF AddLine, AddDocxLine, Adds
  <2>5. t \in AState /\ t.blocks = Append(s.blocks, b) /\ t.path = q
    BY <1>2, <1>3, <2>4 DEF AState
  <2> QED
    BY <1>2, <1>5, <2>5 DEF Turned
<1>6. CASE Adds(suffix, lines, s, i) /\ suffix \in {"pdf", "txt"}
  <2>1. q = s.path
    BY <1>2, <1>6 DEF PathAt, LevelAt
  <2>2. CASE suffix = "pdf"
    <3>1. LevelAt(suffix, lines, s, i) = 0
      BY <2>2 DEF LevelAt
    <3>2. b = Block(lines, i, HeadingsByPage(lines)[PageOf(lines, i)], FALSE, PageOf(lines, i))
      BY <1>2, <2>2, <3>1 DEF NewBlock, HeadAt, PageAt
    <3>3. t = [s EXCEPT !.blocks = Append(@, b)]
      BY <1>6, <2>2, <3>2 DEF AddLine, AddPdfLine, Adds
    <3>4. t \in AState /\ t.blocks = Append(s.blocks, b) /\ t.path = s.path
      BY <1>3, <3>3 DEF AState
    <3> QED
      BY <1>2, <1>6, <2>1, <3>4 DEF Turned
  <2>3. CASE suffix = "txt"
    <3>1. LevelAt(suffix, lines, s, i) = 0
      BY <2>3 DEF LevelAt
    <3>2. b = Block(lines, i, <<>>, FALSE, 0)
      BY <1>2, <2>3, <3>1 DEF NewBlock, HeadAt, PageAt
    <3>3. t = [s EXCEPT !.blocks = Append(@, b)]
      BY <1>6, <2>3, <3>2 DEF AddLine, AddTextLine, Adds
    <3>4. t \in AState /\ t.blocks = Append(s.blocks, b) /\ t.path = s.path
      BY <1>3, <3>3 DEF AState
    <3> QED
      BY <1>2, <1>6, <2>1, <3>4 DEF Turned
  <2> QED
    BY <1>6, <2>2, <2>3
<1> QED
  BY <1>4, <1>5, <1>6 DEF AllFormats

LEMMA LineTurn ==
  ASSUME NEW suffix \in AllFormats, NEW lines \in Seq(LinesOf(suffix)),
         NEW s \in AState, NEW i \in 1..Len(lines)
  PROVE  Turned(suffix, lines, s, i, AddLine(suffix, lines, s, i))
<1>1. CASE suffix = "md"
  BY <1>1, MarkdownTurn DEF AddLine
<1> QED
  BY <1>1, OtherTurn

-----------------------------------------------------------------------------
(***************************************************************************)
(* What the loop over the lines has made after k of them.                  *)
(***************************************************************************)

\* The state line i finds, whether it becomes a block, and which.
Before(suffix, lines, i) == LineLoop(suffix, lines)[i - 1]
Added(suffix, lines, i) == Adds(suffix, lines, Before(suffix, lines, i), i)
Made(suffix, lines, i) == NewBlock(suffix, lines, Before(suffix, lines, i), i)

LEMMA LoopType ==
  ASSUME NEW suffix \in AllFormats, NEW lines \in Seq(LinesOf(suffix))
  PROVE  /\ Len(lines) \in Nat /\ LineLoop(suffix, lines)[0] = Start
         /\ \A k \in 0..Len(lines) : LineLoop(suffix, lines)[k] \in AState
<1> DEFINE T == {k \in 0..Len(lines) : LineLoop(suffix, lines)[k] \in AState}
<1>1. Len(lines) \in Nat
  BY LenProperties
<1>2. LineLoop(suffix, lines)[0] = Start /\ 0 \in T
  <2>1. Start \in AState
    BY EmptySeq, BlankLine DEF Start, AState
  <2> QED
    BY <1>1, <2>1, LineTurns
<1>3. ASSUME NEW k \in 1..Len(lines), k - 1 \in T
      PROVE  k \in T
  <2>1. LineLoop(suffix, lines)[k] = AddLine(suffix, lines, LineLoop(suffix, lines)[k - 1], k)
    BY <1>1, LineTurns
  <2>2. LineLoop(suffix, lines)[k] \in AState
    BY <1>3, <2>1, LineTurn DEF Turned
  <2>3. k \in 0..Len(lines)
    BY <1>1
  <2> QED
    BY <2>2, <2>3
<1> HIDE DEF T
<1>4. \A k \in 0..Len(lines) : k \in T
  BY <1>1, <1>2, <1>3, Induction
<1> QED
  BY <1>1, <1>2, <1>4 DEF T

LEMMA LoopTurn ==
  ASSUME NEW suffix \in AllFormats, NEW lines \in Seq(LinesOf(suffix)), NEW i \in 1..Len(lines)
  PROVE  /\ Before(suffix, lines, i) \in AState
         /\ LineLoop(suffix, lines)[i] = AddLine(suffix, lines, Before(suffix, lines, i), i)
         /\ Turned(suffix, lines, Before(suffix, lines, i), i, LineLoop(suffix, lines)[i])
<1>1. Len(lines) \in Nat /\ i - 1 \in 0..Len(lines)
  BY LoopType
<1>2. Before(suffix, lines, i) \in AState
  BY <1>1, LoopType DEF Before
<1>3. LineLoop(suffix, lines)[i] = AddLine(suffix, lines, Before(suffix, lines, i), i)
  BY <1>1, LineTurns DEF Before
<1> QED
  BY <1>2, <1>3, LineTurn

LEMMA MadeIs ==
  ASSUME NEW suffix \in AllFormats, NEW lines \in Seq(LinesOf(suffix)), NEW i \in 1..Len(lines)
  PROVE  LET b == Made(suffix, lines, i)
             s == Before(suffix, lines, i)
         IN /\ b \in ABlock /\ b.path = HeadAt(suffix, lines, s, i)
            /\ b.isHeading <=> LevelAt(suffix, lines, s, i) # 0
            /\ b.page = PageAt(suffix, lines, i) /\ b.line = i
<1>1. Before(suffix, lines, i).path \in Seq(Nat)
  BY LoopTurn DEF AState
<1> QED
  BY <1>1, NewBlockIs DEF Made

\* The blocks are those of the lines so far that become one, in order.
Holds(suffix, lines, k, bs) ==
  /\ \A b \in 1..Len(bs) : \E i \in 1..k : Added(suffix, lines, i) /\ bs[b] = Made(suffix, lines, i)
  /\ \A i \in 1..k : Added(suffix, lines, i) => \E b \in 1..Len(bs) : bs[b] = Made(suffix, lines, i)
  /\ \A b \in 1..Len(bs) : \A c \in 1..Len(bs) : b < c => bs[b].line < bs[c].line

LEMMA LoopHolds ==
  ASSUME NEW suffix \in AllFormats, NEW lines \in Seq(LinesOf(suffix)), NEW n \in 0..Len(lines)
  PROVE  Holds(suffix, lines, n, LineLoop(suffix, lines)[n].blocks)
<1> DEFINE L == LineLoop(suffix, lines)
           T == {k \in 0..Len(lines) : Holds(suffix, lines, k, L[k].blocks)}
<1>1. Len(lines) \in Nat
  BY LoopType
<1>2. 0 \in T
  <2>1. L[0].blocks = <<>>
    BY LoopType DEF Start
  <2>2. PICK e : e = <<>>
    OBVIOUS
  <2>3. Len(e) = 0
    BY <2>2
  <2>4. Holds(suffix, lines, 0, e)
    BY <2>3 DEF Holds
  <2> QED
    BY <1>1, <2>1, <2>2, <2>4
<1>3. ASSUME NEW k \in 1..Len(lines), k - 1 \in T
      PROVE  k \in T
  <2>1. k \in Nat /\ k \in 0..Len(lines) /\ k - 1 \in Nat
    BY <1>1
  <2>2. PICK s : s = Before(suffix, lines, k)
    OBVIOUS
  <2>3. s \in AState /\ Turned(suffix, lines, s, k, L[k])
    BY <2>2, LoopTurn
  <2>4. PICK bs \in Seq(ABlock) : bs = s.blocks
    BY <2>3 DEF AState
  <2>5. Holds(suffix, lines, k - 1, bs)
    BY <1>3, <2>2, <2>4 DEF Before
  <2>6. /\ \A b \in 1..Len(bs) : \E i \in 1..(k - 1) : Added(suffix, lines, i) /\ bs[b] = Made(suffix, lines, i)
        /\ \A i \in 1..(k - 1) : Added(suffix, lines, i) => \E b \in 1..Len(bs) : bs[b] = Made(suffix, lines, i)
        /\ \A b \in 1..Len(bs) : \A c \in 1..Len(bs) : b < c => bs[b].line < bs[c].line
    BY <2>5 DEF Holds
  <2>7. PICK n1 \in Nat : n1 = Len(bs)
    BY <2>4, LenProperties
  <2>8. \A i \in 1..k : i \in 1..(k - 1) \/ i = k
    BY <2>1
  <2>9. \A i \in 1..(k - 1) : i \in 1..k
    BY <2>1
  <2>10. CASE ~Added(suffix, lines, k)
    <3>1. L[k].blocks = bs
      BY <2>2, <2>3, <2>4, <2>10 DEF Turned, Added
    <3>2. Holds(suffix, lines, k, bs)
      BY <2>6, <2>8, <2>9, <2>10 DEF Holds
    <3> QED
      BY <2>1, <3>1, <3>2
  <2>11. CASE Added(suffix, lines, k)
    <3>1. PICK m : m = Made(suffix, lines, k)
      OBVIOUS
    <3>2. m \in ABlock /\ m.line = k
      BY <3>1, MadeIs
    <3>3. L[k].blocks = Append(bs, m)
      BY <2>2, <2>3, <2>4, <2>11, <3>1 DEF Turned, Added, Made
    <3>4. PICK cs \in Seq(ABlock) : cs = Append(bs, m)
      BY <2>4, <3>2, AppendProperties
    <3>5. Len(cs) = n1 + 1 /\ cs[n1 + 1] = m /\ \A b \in 1..n1 : cs[b] = bs[b]
      BY <2>4, <2>7, <3>2, <3>4, AppendProperties
    <3>6. \A b \in 1..(n1 + 1) : b \in 1..n1 \/ b = n1 + 1
      OBVIOUS
    <3>7. \A b \in 1..n1 : b \in 1..(n1 + 1)
      OBVIOUS
    <3>8. \A b \in 1..Len(cs) : \E i \in 1..k : Added(suffix, lines, i) /\ cs[b] = Made(suffix, lines, i)
      <4>1. SUFFICES ASSUME NEW b \in 1..(n1 + 1)
                     PROVE  \E i \in 1..k : Added(suffix, lines, i) /\ cs[b] = Made(suffix, lines, i)
        BY <3>5
      <4>2. CASE b = n1 + 1
        BY <2>1, <2>11, <3>1, <3>5, <4>2
      <4>3. CASE b \in 1..n1
        <5>1. cs[b] = bs[b]
          BY <3>5, <4>3
        <5>2. PICK i \in 1..(k - 1) : Added(suffix, lines, i) /\ bs[b] = Made(suffix, lines, i)
          BY <2>6, <2>7, <4>3
        <5> QED
          BY <2>9, <5>1, <5>2
      <4> QED
        BY <3>6, <4>2, <4>3
    <3>9. \A i \in 1..k : Added(suffix, lines, i) => \E b \in 1..Len(cs) : cs[b] = Made(suffix, lines, i)
      <4>1. SUFFICES ASSUME NEW i \in 1..k, Added(suffix, lines, i)
                     PROVE  \E b \in 1..(n1 + 1) : cs[b] = Made(suffix, lines, i)
        BY <3>5
      <4>2. CASE i = k
        BY <3>1, <3>5, <4>2
      <4>3. CASE i \in 1..(k - 1)
        <5>1. PICK b \in 1..n1 : bs[b] = Made(suffix, lines, i)
          BY <2>6, <2>7, <4>1, <4>3
        <5> QED
          BY <3>5, <3>7, <5>1
      <4> QED
        BY <2>8, <4>2, <4>3
    <3>10. \A b \in 1..n1 : bs[b].line < k
      <4>1. SUFFICES ASSUME NEW b \in 1..n1 PROVE bs[b].line < k
        OBVIOUS
      <4>2. PICK i \in 1..(k - 1) : bs[b] = Made(suffix, lines, i)
        BY <2>6, <2>7
      <4>3. Made(suffix, lines, i).line = i
        BY <1>1, <2>1, MadeIs
      <4> QED
        BY <2>1, <4>2, <4>3
    <3>11. \A b \in 1..Len(cs) : \A c \in 1..Len(cs) : b < c => cs[b].line < cs[c].line
      <4>1. SUFFICES ASSUME NEW b \in 1..(n1 + 1), NEW c \in 1..(n1 + 1), b < c
                     PROVE  cs[b].line < cs[c].line
        BY <3>5
      <4>2. b \in 1..n1
        BY <4>1
      <4>3. CASE c = n1 + 1
        BY <3>2, <3>5, <3>10, <4>2, <4>3
      <4>4. CASE c \in 1..n1
        <5>1. bs[b].line < bs[c].line
          BY <2>6, <2>7, <4>1, <4>2, <4>4
        <5> QED
          BY <3>5, <4>2, <4>4, <5>1
      <4> QED
        BY <3>6, <4>3, <4>4
    <3>12. Holds(suffix, lines, k, cs)
      BY <3>8, <3>9, <3>11 DEF Holds
    <3> QED
      BY <2>1, <3>3, <3>4, <3>12
  <2> QED
    BY <2>10, <2>11
<1> HIDE DEF T
<1>4. \A k \in 0..Len(lines) : k \in T
  BY <1>1, <1>2, <1>3, Induction
<1> QED
  BY <1>4 DEF T

\* extract_blocks: a block of every line that becomes one, in order, and no other.
LEMMA ExtractIs ==
  ASSUME NEW suffix \in AllFormats, NEW lines \in Seq(LinesOf(suffix))
  PROVE  /\ Extract(suffix, lines) \in Seq(ABlock)
         /\ Holds(suffix, lines, Len(lines), Extract(suffix, lines))
<1>1. Len(lines) \in 0..Len(lines)
  BY LoopType
<1>2. LineLoop(suffix, lines)[Len(lines)].blocks \in Seq(ABlock)
  BY <1>1, LoopType DEF AState
<1> QED
  BY <1>1, <1>2, LoopHolds DEF Extract

LEMMA PagesStandInOrder ==
  ASSUME NEW suffix \in AllFormats, NEW lines \in Seq(LinesOf(suffix))
  PROVE  PagesInOrder(Extract(suffix, lines))
<1>1. PICK bs \in Seq(ABlock) : bs = Extract(suffix, lines)
  BY ExtractIs
<1>2. PICK n \in Nat, m \in Nat : n = Len(bs) /\ m = Len(lines)
  BY <1>1, LenProperties
<1>3. /\ \A b \in 1..n : \E i \in 1..m : Added(suffix, lines, i) /\ bs[b] = Made(suffix, lines, i)
      /\ \A b \in 1..n : \A c \in 1..n : b < c => bs[b].line < bs[c].line
  BY <1>1, <1>2, ExtractIs DEF Holds
<1>4. SUFFICES ASSUME NEW b \in 1..n, NEW c \in 1..n, b <= c
               PROVE  bs[b].page <= bs[c].page
  BY <1>1, <1>2 DEF PagesInOrder
<1>5. PICK i \in 1..m, j \in 1..m : bs[b] = Made(suffix, lines, i) /\ bs[c] = Made(suffix, lines, j)
  BY <1>3
<1>6. /\ bs[b].page = PageAt(suffix, lines, i) /\ bs[b].line = i
      /\ bs[c].page = PageAt(suffix, lines, j) /\ bs[c].line = j
  BY <1>2, <1>5, MadeIs
<1>7. i <= j
  <2>1. CASE b = c
    BY <1>6, <2>1
  <2>2. CASE b < c
    BY <1>3, <1>6, <2>2
  <2> QED
    BY <1>4, <2>1, <2>2
<1>8. PageAt(suffix, lines, i) <= PageAt(suffix, lines, j)
  <2>1. CASE suffix = "pdf"
    <3>1. i \in Nat /\ j \in Nat
      BY <1>2
    <3>2. PageOf(lines, i) <= PageOf(lines, j)
      BY <1>7, <3>1, PageIs
    <3> QED
      BY <2>1, <3>2 DEF PageAt
  <2>2. CASE suffix # "pdf"
    BY <2>2 DEF PageAt
  <2> QED
    BY <2>1, <2>2
<1> QED
  BY <1>6, <1>8

-----------------------------------------------------------------------------
(***************************************************************************)
(* The machine: its blocks and chunks are those of the file it has written. *)
(***************************************************************************)

Written ==
  /\ format \in Formats
  /\ file \in Seq(LinesOf(format))
  /\ blocks = Extract(format, file)
  /\ chunks = Chunk(blocks)

LEMMA WrittenFormat ==
  ASSUME Written
  PROVE  format \in AllFormats /\ file \in Seq(LinesOf(format)) /\ blocks = Extract(format, file)
BY ExtractorsAssumption DEF Written, AllFormats

LEMMA WrittenBlocks ==
  ASSUME Written
  PROVE  blocks \in Seq(ABlock) /\ PagesInOrder(blocks) /\ chunks = Chunk(blocks)
<1>1. format \in AllFormats /\ file \in Seq(LinesOf(format)) /\ blocks = Extract(format, file)
  BY WrittenFormat
<1>2. Extract(format, file) \in Seq(ABlock) /\ PagesInOrder(Extract(format, file))
  BY <1>1, ExtractIs, PagesStandInOrder
<1> QED
  BY <1>1, <1>2 DEF Written

LEMMA WrittenInit ==
  Init => Written
<1> SUFFICES ASSUME Init PROVE Written
  OBVIOUS
<1>1. format \in AllFormats
  BY ExtractorsAssumption DEF Init, AllFormats
<1>2. PICK e \in Seq(LinesOf(format)) : e = <<>> /\ file = e
  BY EmptySeq DEF Init
<1>3. Len(e) = 0
  BY <1>2
<1>4. LineLoop(format, e)[0] = Start
  BY <1>1, LoopType
<1>5. Extract(format, e) = Start.blocks
  BY <1>3, <1>4 DEF Extract
<1>6. Extract(format, file) = <<>>
  BY <1>2, <1>5 DEF Start
<1> QED
  BY <1>2, <1>6 DEF Init, Written

LEMMA WriteKeeps ==
  ASSUME Written, NEW line \in LinesOf(format), Write(line)
  PROVE  Written'
<1>1. file' = Append(file, line) /\ format' = format
  BY DEF Write
<1>2. file' \in Seq(LinesOf(format))
  BY <1>1, AppendProperties DEF Written
<1> QED
  BY <1>1, <1>2 DEF Write, Written

LEMMA WrittenNext ==
  Written /\ [Next]_vars => Written'
<1> SUFFICES ASSUME Written, [Next]_vars PROVE Written'
  OBVIOUS
<1>0. format \in AllFormats
  BY WrittenFormat
<1>1. CASE \E line \in Texts : Write(line)
  <2>1. PICK line \in Texts : Write(line)
    BY <1>1
  <2>2. line \in LinesOf(format)
    BY <1>0 DEF LinesOf, AllFormats
  <2> QED
    BY <2>1, <2>2, WriteKeeps
<1>2. CASE format # "pdf" /\ Write(Blank)
  <2>1. Blank \in LinesOf(format)
    BY <1>0, <1>2 DEF LinesOf, AllFormats
  <2> QED
    BY <1>2, <2>1, WriteKeeps
<1>3. CASE format = "md" /\ \E line \in MarkdownLines : Write(line)
  <2>1. PICK line \in MarkdownLines : Write(line)
    BY <1>3
  <2>2. line \in LinesOf(format)
    BY <1>3 DEF LinesOf
  <2> QED
    BY <2>1, <2>2, WriteKeeps
<1>4. CASE format = "docx" /\ \E line \in DocxLines : Write(line)
  <2>1. PICK line \in DocxLines : Write(line)
    BY <1>4
  <2>2. line \in LinesOf(format)
    BY <1>4 DEF LinesOf
  <2> QED
    BY <2>1, <2>2, WriteKeeps
<1>5. CASE format = "pdf" /\ Write(NextPage)
  <2>1. NextPage \in LinesOf(format)
    BY <1>5 DEF LinesOf
  <2> QED
    BY <1>5, <2>1, WriteKeeps
<1>6. CASE \E line \in Bookmarks : WriteBookmark(line)
  <2>1. PICK line \in Bookmarks : WriteBookmark(line)
    BY <1>6
  <2>2. line \in LinesOf(format) /\ Write(line)
    BY <2>1 DEF LinesOf, WriteBookmark
  <2> QED
    BY <2>2, WriteKeeps
<1>7. CASE UNCHANGED vars
  BY <1>7 DEF vars, Written
<1> QED
  BY <1>1, <1>2, <1>3, <1>4, <1>5, <1>6, <1>7 DEF Next

\* What the properties follow from: blocks is what extract_blocks makes of the file
\* in its format, and chunks is what chunk makes of the blocks.
LEMMA AlwaysWritten == Spec => []Written
BY WrittenInit, WrittenNext, PTL DEF Spec

\* Search misses no word of a file: _emit and _merge_thin leave none out and put none
\* out of order, however long the file is and wherever its sections are cut.
THEOREM CoverAlways == Spec => []ChunksCoverTheDocument
<1>1. Written => ChunksCoverTheDocument
  BY WrittenBlocks, ChunksCoverTheText
<1> QED
  BY <1>1, AlwaysWritten, PTL

\* _merge_thin gives a chunk no heading that some of its text is not under.
THEOREM HonestAlways == Spec => []HeadingsAreHonest
<1>1. Written => HeadingsAreHonest
  BY WrittenBlocks, ChunksAreHonest
<1> QED
  BY <1>1, AlwaysWritten, PTL

\* page_start and page_end of a chunk are the pages of the first and the last word of the
\* section that _emit takes it from, which is the chunk itself unless it had to be cut,
\* whatever _merge_thin has joined into it.
THEOREM PagesAlways == Spec => []PagesAreTheSections
<1>1. Written => PagesAreTheSections
  BY WrittenBlocks, ChunksAreHonest
<1> QED
  BY <1>1, AlwaysWritten, PTL

\* A section thinner than the minimum is left alone only where merging it into a
\* neighbour would exceed the target.
THEOREM ThinAlways == Spec => []ThinOnlyWhereNothingFits
<1>1. Written => ThinOnlyWhereNothingFits
  BY WrittenBlocks, ThinSections
<1> QED
  BY <1>1, AlwaysWritten, PTL

\* A document that grows at its end keeps the chunks before its last section, so plan
\* embeds again only from there on.
THEOREM GrowthAlways == Spec => GrowthKeepsEarlierChunks
<1> DEFINE A == IsPrefix(blocks, blocks') =>
                  \A k \in DOMAIN chunks :
                    k \notin DOMAIN chunks' \/ chunks'[k] # chunks[k] =>
                      Head(chunks[k].words) \in ToSet(Last(Sections(blocks)).words)
<1>1. Written /\ Written' => A
  <2> SUFFICES ASSUME Written, Written', IsPrefix(blocks, blocks'), NEW k \in DOMAIN chunks,
                      k \notin DOMAIN chunks' \/ chunks'[k] # chunks[k]
               PROVE  Head(chunks[k].words) \in ToSet(Last(Sections(blocks)).words)
    OBVIOUS
  <2>1. blocks \in Seq(ABlock) /\ chunks = Chunk(blocks)
    BY WrittenBlocks
  <2>2. blocks' \in Seq(ABlock) /\ chunks' = Chunk(blocks')
    <3>1. (blocks \in Seq(ABlock) /\ chunks = Chunk(blocks))'
      BY WrittenBlocks, PTL
    <3> QED
      BY <3>1
  <2> QED
    BY <2>1, <2>2, GrowthKeeps
<1>2. Written /\ Written' => [A]_<<blocks, chunks>>
  BY <1>1
<1> QED
  BY <1>2, AlwaysWritten, PTL DEF GrowthKeepsEarlierChunks

-----------------------------------------------------------------------------
(***************************************************************************)
(* Outlines: a set of headings with their levels, and the path a stack of  *)
(* them makes.                                                             *)
(***************************************************************************)

\* The headings that enclose what follows g: Enclosing, of any outline.
Above(H, lev, g) == {j \in H : j <= g /\ \A k \in H : j < k /\ k <= g => lev[j] < lev[k]}

\* The path is the headings above g, each as deep as its level says.
Nests(H, lev, path, g) ==
  /\ path \in Seq(Nat)
  /\ ToSet(path) = Above(H, lev, g)
  /\ \A j \in 1..Len(path) : path[j] \in H /\ lev[path[j]] = j
  /\ \A j \in 1..Len(path) : \A k \in 1..Len(path) : j < k => path[j] < path[k]

LEMMA ElementsAre ==
  ASSUME NEW path \in Seq(Nat)
  PROVE  Len(path) \in Nat /\ ToSet(path) = {path[j] : j \in 1..Len(path)}
BY LenProperties DEF ToSet

LEMMA NestsNothing ==
  ASSUME NEW H \in SUBSET (Nat \ {0}), NEW lev
  PROVE  Nests(H, lev, <<>>, 0)
<1>1. PICK e \in Seq(Nat) : e = <<>>
  BY EmptySeq
<1>2. Len(e) = 0
  BY <1>1
<1>3. 1..Len(e) = {}
  BY <1>2
<1>4. ToSet(e) = {e[j] : j \in 1..Len(e)}
  BY ElementsAre
<1>5. ToSet(e) = {}
  BY <1>3, <1>4
<1>6. \A j \in H : ~(j <= 0)
  OBVIOUS
<1>7. Above(H, lev, 0) = {}
  BY <1>6, Zenon DEF Above
<1>8. Nests(H, lev, e, 0)
  BY <1>3, <1>5, <1>7 DEF Nests
<1> QED
  BY <1>1, <1>8

\* As many as there are places where they grow.
LEMMA Distinct ==
  ASSUME NEW path \in Seq(Nat),
         \A j \in 1..Len(path) : \A k \in 1..Len(path) : j < k => path[j] < path[k]
  PROVE  Cardinality(ToSet(path)) = Len(path)
<1>1. PICK n \in Nat : n = Len(path)
  BY LenProperties
<1>2. path \in [1..n -> Nat] /\ ToSet(path) = {path[j] : j \in 1..n}
  BY <1>1, ElementsAre, LenProperties, ElementOfSeq
<1>3. path \in [1..n -> ToSet(path)]
  BY <1>2
<1>4. path \in Surjection(1..n, ToSet(path))
  BY <1>2, <1>3 DEF Surjection
<1>5. \A j \in 1..n : \A k \in 1..n : path[j] = path[k] => j = k
  <2> SUFFICES ASSUME NEW j \in 1..n, NEW k \in 1..n, path[j] = path[k] PROVE j = k
    OBVIOUS
  <2>1. path[j] \in Nat /\ path[k] \in Nat
    BY <1>2
  <2>2. (j < k => path[j] < path[k]) /\ (k < j => path[k] < path[j])
    BY <1>1
  <2> QED
    BY <2>1, <2>2
<1>6. path \in Injection(1..n, ToSet(path))
  BY <1>3, <1>5 DEF Injection, IsInjective
<1>7. IsFiniteSet(1..n) /\ Cardinality(1..n) = n
  BY FS_Interval, 1 \in Int, n \in Int
<1>8. Cardinality(ToSet(path)) = Cardinality(1..n)
  BY <1>4, <1>6, <1>7, FS_Surjection
<1> QED
  BY <1>1, <1>7, <1>8

\* _push: the headings above the next one are those the stack keeps, and it.
LEMMA PushAbove ==
  ASSUME NEW H \in SUBSET (Nat \ {0}), NEW lev \in [H -> Nat \ {0}],
         NEW path, NEW g \in Nat, Nests(H, lev, path, g), g = 0 \/ g \in H,
         NEW h \in H, g < h, \A k \in H : k <= g \/ h <= k
  PROVE  LET q == Push(path, lev[h], h)
         IN /\ q \in Seq(Nat) /\ ToSet(q) = Above(H, lev, h)
            /\ \A j \in 1..Len(q) : j < Len(q) => q[j] \in H /\ lev[q[j]] = j
            /\ q[Len(q)] = h /\ Len(q) # 0
            /\ \A j \in 1..Len(q) : \A k \in 1..Len(q) : j < k => q[j] < q[k]
<1>1. path \in Seq(Nat) /\ ToSet(path) = Above(H, lev, g) /\ h \in Nat
  BY DEF Nests
<1>2. PICK l \in Nat, n \in Nat : l = lev[h] /\ l # 0 /\ n = Len(path)
  BY <1>1, LenProperties
<1>3. /\ \A j \in 1..n : path[j] \in H /\ lev[path[j]] = j
      /\ \A j \in 1..n : \A k \in 1..n : j < k => path[j] < path[k]
      /\ ToSet(path) = {path[j] : j \in 1..n}
  BY <1>2, ElementsAre DEF Nests
<1>4. PICK m \in Nat : m = IF n < l THEN n ELSE l - 1
  BY <1>2
<1>5. PICK q : q = Push(path, l, h)
  OBVIOUS
<1>6. /\ m <= n /\ m < l
      /\ q \in Seq(Nat) /\ Len(q) = m + 1 /\ q[m + 1] = h
      /\ \A j \in 1..m : q[j] = path[j]
  <2>1. m <= Len(path) /\ m < l /\ (m = Len(path) \/ m = l - 1)
    BY <1>2, <1>4
  <2>2. /\ Push(path, l, h) \in Seq(Nat) /\ Len(Push(path, l, h)) = m + 1
        /\ Push(path, l, h)[m + 1] = h
        /\ \A j \in 1..m : Push(path, l, h)[j] = path[j]
    <3>1. path \in Seq(Nat) /\ l \in Nat /\ l # 0 /\ h \in Nat /\ m \in Nat
      BY <1>1, <1>2, <1>4
    <3> QED
      BY ONLY <2>1, <3>1, PushTo
  <2> QED
    BY <1>2, <1>5, <2>1, <2>2
<1>7. \A j \in 1..m : j \in 1..n /\ q[j] = path[j] /\ path[j] \in H /\ lev[path[j]] = j
  BY <1>3, <1>6
<1>8. \A j \in 1..(m + 1) : j \in 1..m \/ j = m + 1
  OBVIOUS
<1>9. \A j \in 1..n : path[j] <= g /\ path[j] \in Nat /\ \A k \in H : path[j] < k /\ k <= g => j < lev[k]
  <2> SUFFICES ASSUME NEW j \in 1..n
               PROVE  path[j] <= g /\ path[j] \in Nat /\ \A k \in H : path[j] < k /\ k <= g => j < lev[k]
    OBVIOUS
  <2>1. path[j] \in Above(H, lev, g) /\ path[j] \in H /\ lev[path[j]] = j
    BY <1>1, <1>3
  <2>2. path[j] <= g /\ \A k \in H : path[j] < k /\ k <= g => lev[path[j]] < lev[k]
    BY <2>1, Zenon DEF Above
  <2> QED
    BY <2>1, <2>2
<1>10. \A j \in 1..(m + 1) : \A k \in 1..(m + 1) : j < k => q[j] < q[k]
  <2> SUFFICES ASSUME NEW j \in 1..(m + 1), NEW k \in 1..(m + 1), j < k PROVE q[j] < q[k]
    OBVIOUS
  <2>1. j \in 1..m /\ j \in 1..n
    BY <1>6
  <2>2. CASE k = m + 1
    BY <1>1, <1>6, <1>7, <1>9, <2>1, <2>2
  <2>3. CASE k \in 1..m
    BY <1>3, <1>7, <2>1, <2>3
  <2> QED
    BY <1>8, <2>2, <2>3
<1>11. ToSet(q) = {q[j] : j \in 1..(m + 1)}
  BY <1>6, ElementsAre
<1>12. ASSUME NEW x \in ToSet(q) PROVE x \in Above(H, lev, h)
  <2>1. PICK j \in 1..(m + 1) : x = q[j]
    BY <1>11
  <2>2. CASE j = m + 1
    <3>1. x = h
      BY <1>6, <2>1, <2>2
    <3>2. \A k \in H : ~(h < k /\ k <= h)
      BY <1>1
    <3> QED
      BY <1>1, <3>1, <3>2 DEF Above
  <2>3. CASE j \in 1..m
    <3>1. x = path[j] /\ x \in H /\ lev[x] = j /\ j \in 1..n /\ x \in Nat /\ x <= g
      BY <1>7, <1>9, <2>1, <2>3
    <3>2. ASSUME NEW k \in H, x < k, k <= h
          PROVE  lev[x] < lev[k]
      <4>1. CASE k <= g
        BY <1>9, <3>1, <3>2, <4>1
      <4>2. CASE h <= k
        <5>1. k = h
          BY <1>1, <3>2, <4>2
        <5> QED
          BY <1>2, <1>6, <2>3, <3>1, <5>1
      <4> QED
        BY <4>1, <4>2
    <3>3. x <= h
      BY <1>1, <3>1
    <3> QED
      BY <3>1, <3>2, <3>3 DEF Above
  <2> QED
    BY <1>8, <2>2, <2>3
<1>13. ASSUME NEW x \in Above(H, lev, h) PROVE x \in ToSet(q)
  <2>1. x \in H /\ x <= h /\ \A k \in H : x < k /\ k <= h => lev[x] < lev[k]
    BY DEF Above
  <2>2. x \in Nat
    BY <2>1
  <2>3. CASE h <= x
    <3>1. x = h
      BY <1>1, <2>1, <2>2, <2>3
    <3>2. m + 1 \in 1..(m + 1)
      OBVIOUS
    <3> QED
      BY <1>6, <1>11, <3>1, <3>2
  <2>4. CASE x <= g
    <3>1. x \in Above(H, lev, g)
      <4>1. ASSUME NEW k \in H, x < k, k <= g PROVE lev[x] < lev[k]
        <5>1. k \in Nat /\ k <= h
          BY <1>1, <4>1
        <5> QED
          BY <2>1, <4>1, <5>1
      <4> QED
        BY <2>1, <2>4, <4>1 DEF Above
    <3>2. PICK j \in 1..n : x = path[j]
      BY <1>1, <1>3, <3>1
    <3>3. lev[x] = j /\ lev[x] < lev[h]
      BY <1>1, <1>3, <2>1, <2>2, <2>4, <3>2
    <3>4. j \in 1..m
      BY <1>2, <1>4, <3>3
    <3>5. x = q[j] /\ j \in 1..(m + 1)
      BY <1>7, <3>2, <3>4
    <3> QED
      BY <1>11, <3>5
  <2> QED
    BY <2>1, <2>3, <2>4
<1>14. ToSet(q) = Above(H, lev, h)
  BY <1>12, <1>13
<1>15. \A j \in 1..(m + 1) : j < m + 1 => q[j] \in H /\ lev[q[j]] = j
  BY <1>7
<1> QED
  BY <1>2, <1>5, <1>6, <1>10, <1>14, <1>15

\* Where no level is skipped, the stack nests the headings by their levels.
LEMMA PushNests ==
  ASSUME NEW H \in SUBSET (Nat \ {0}), NEW lev \in [H -> Nat \ {0}],
         NEW path, NEW g \in Nat, Nests(H, lev, path, g), g = 0 \/ g \in H,
         NEW h \in H, g < h, \A k \in H : k <= g \/ h <= k,
         Cardinality(Above(H, lev, h)) = lev[h]
  PROVE  Nests(H, lev, Push(path, lev[h], h), h)
<1>1. PICK q : q = Push(path, lev[h], h)
  OBVIOUS
<1>2. /\ q \in Seq(Nat) /\ ToSet(q) = Above(H, lev, h)
      /\ \A j \in 1..Len(q) : j < Len(q) => q[j] \in H /\ lev[q[j]] = j
      /\ q[Len(q)] = h /\ Len(q) # 0
      /\ \A j \in 1..Len(q) : \A k \in 1..Len(q) : j < k => q[j] < q[k]
  BY <1>1, PushAbove, SMTT(30)
<1>3. PICK n \in Nat : n = Len(q)
  BY <1>2, LenProperties
<1>4. n = lev[h]
  BY <1>2, <1>3, Distinct
<1>5. ASSUME NEW j \in 1..n PROVE q[j] \in H /\ lev[q[j]] = j
  <2>1. CASE j = n
    BY <1>2, <1>3, <1>4, <2>1
  <2>2. CASE j < n
    BY <1>2, <1>3, <2>2
  <2> QED
    BY <2>1, <2>2
<1> QED
  BY <1>1, <1>2, <1>3, <1>5 DEF Nests

-----------------------------------------------------------------------------
(***************************************************************************)
(* The headings of a file, and the heading a block is under.               *)
(***************************************************************************)

LEMMA BlocksAre ==
  ASSUME Written
  PROVE  /\ format \in AllFormats /\ file \in Seq(LinesOf(format)) /\ Len(file) \in Nat
         /\ DOMAIN file = 1..Len(file) /\ DOMAIN blocks = 1..Len(blocks)
         /\ \A b \in DOMAIN blocks :
              \E i \in 1..Len(file) : Added(format, file, i) /\ blocks[b] = Made(format, file, i)
         /\ \A i \in 1..Len(file) : Added(format, file, i) =>
              \E b \in DOMAIN blocks : blocks[b] = Made(format, file, i)
         /\ \A b \in DOMAIN blocks : \A c \in DOMAIN blocks : b < c => blocks[b].line < blocks[c].line
<1>1. format \in AllFormats /\ file \in Seq(LinesOf(format)) /\ blocks = Extract(format, file)
  BY WrittenFormat
<1>2. Holds(format, file, Len(file), blocks) /\ blocks \in Seq(ABlock)
  BY <1>1, ExtractIs
<1>3. Len(file) \in Nat /\ DOMAIN file = 1..Len(file) /\ DOMAIN blocks = 1..Len(blocks)
  BY <1>1, <1>2, LenProperties
<1> QED
  BY <1>1, <1>2, <1>3 DEF Holds

\* Line i is a heading.
IsHead(i) == Added(format, file, i) /\ LevelAt(format, file, Before(format, file, i), i) # 0

LEMMA BlockLinesAre ==
  ASSUME Written
  PROVE  BlockLines = {i \in 1..Len(file) : Added(format, file, i)}
<1>1. ASSUME NEW i \in BlockLines PROVE i \in 1..Len(file) /\ Added(format, file, i)
  <2>1. PICK b \in DOMAIN blocks : i = blocks[b].line
    BY DEF BlockLines
  <2>2. PICK j \in 1..Len(file) : Added(format, file, j) /\ blocks[b] = Made(format, file, j)
    BY BlocksAre
  <2>3. Made(format, file, j).line = j
    BY BlocksAre, MadeIs
  <2> QED
    BY <2>1, <2>2, <2>3
<1>2. ASSUME NEW i \in 1..Len(file), Added(format, file, i) PROVE i \in BlockLines
  <2>1. PICK b \in DOMAIN blocks : blocks[b] = Made(format, file, i)
    BY <1>2, BlocksAre
  <2>2. Made(format, file, i).line = i
    BY BlocksAre, MadeIs
  <2> QED
    BY <2>1, <2>2 DEF BlockLines
<1> QED
  BY <1>1, <1>2

LEMMA HeadingLinesAre ==
  ASSUME Written
  PROVE  HeadingLines = {i \in 1..Len(file) : IsHead(i)}
<1>1. ASSUME NEW i \in HeadingLines PROVE i \in 1..Len(file) /\ IsHead(i)
  <2>1. PICK b \in DOMAIN blocks : i = blocks[b].line /\ blocks[b].isHeading
    BY DEF HeadingLines
  <2>2. PICK j \in 1..Len(file) : Added(format, file, j) /\ blocks[b] = Made(format, file, j)
    BY BlocksAre
  <2>3. /\ Made(format, file, j).line = j
        /\ Made(format, file, j).isHeading <=> LevelAt(format, file, Before(format, file, j), j) # 0
    BY BlocksAre, MadeIs
  <2>4. i = j /\ LevelAt(format, file, Before(format, file, j), j) # 0
    BY <2>1, <2>2, <2>3
  <2> QED
    BY <2>2, <2>4 DEF IsHead
<1>2. ASSUME NEW i \in 1..Len(file), IsHead(i) PROVE i \in HeadingLines
  <2>1. PICK b \in DOMAIN blocks : blocks[b] = Made(format, file, i)
    BY <1>2, BlocksAre DEF IsHead
  <2>2. /\ Made(format, file, i).line = i
        /\ Made(format, file, i).isHeading <=> LevelAt(format, file, Before(format, file, i), i) # 0
    BY BlocksAre, MadeIs
  <2>3. blocks[b].line = i /\ blocks[b].isHeading
    BY <1>2, <2>1, <2>2 DEF IsHead
  <2> QED
    BY <2>3 DEF HeadingLines
<1> QED
  BY <1>1, <1>2

Lev == [i \in Headings |-> LevelOf(i)]

LEMMA EnclosingIs ==
  ASSUME NEW g \in Headings
  PROVE  Enclosing(g) = Above(Headings, Lev, g)
<1>1. \A j \in Headings : Lev[j] = LevelOf(j)
  BY DEF Lev
<1> QED
  BY <1>1, Zenon DEF Enclosing, Above

\* The last heading before a block of text.
LEMMA HeadingOfText ==
  ASSUME format # "pdf", Headings \in SUBSET Nat, NEW b, b.line \in Nat,
         NEW g \in Nat, \A j \in Headings : j <= g \/ b.line < j,
         g = 0 \/ (g \in Headings /\ g <= b.line), 0 \notin Headings
  PROVE  HeadingOf(b) = g
<1>1. PICK above : above = {j \in Headings : j <= b.line}
  OBVIOUS
<1>2. PICK closest : closest = {j \in above : \A k \in above : k <= j}
  OBVIOUS
<1>3. HeadingOf(b) = IF above = {} THEN 0 ELSE CHOOSE j \in closest : TRUE
  BY <1>1, <1>2 DEF HeadingOf
<1>4. CASE g = 0
  <2>1. ASSUME NEW j \in above PROVE FALSE
    <3>1. j \in Headings /\ j <= b.line /\ j \in Nat
      BY <1>1
    <3>2. j <= 0 \/ b.line < j
      BY <1>4, <3>1
    <3>3. j # 0
      BY <3>1
    <3> QED
      BY <3>1, <3>2, <3>3
  <2>2. above = {}
    BY <2>1
  <2> QED
    BY <1>3, <1>4, <2>2
<1>5. CASE g \in Headings /\ g <= b.line
  <2>1. g \in above /\ \A k \in above : k <= g
    BY <1>1, <1>5
  <2>2. \A j \in closest : j = g
    BY <1>1, <1>2, <2>1
  <2>3. closest = {g}
    BY <1>2, <2>1, <2>2
  <2> QED
    BY <1>3, <2>1, <2>3
<1> QED
  BY <1>4, <1>5

\* The last bookmark of the last page at or before a block of a PDF that has one.
LEMMA HeadingOfPage ==
  ASSUME format = "pdf", Headings \in SUBSET Nat, \A j \in Headings : file[j].mark \in Nat,
         NEW b, b.page \in Nat,
         NEW g \in Headings, file[g].mark <= b.page,
         \A j \in Headings : file[j].mark <= b.page =>
           file[j].mark < file[g].mark \/ (file[j].mark = file[g].mark /\ j <= g)
  PROVE  HeadingOf(b) = g
<1>1. PICK above : above = {j \in Headings : file[j].mark <= b.page}
  OBVIOUS
<1>2. PICK closest :
        closest = {j \in above : \A k \in above : IF file[j].mark # file[k].mark
                                                THEN file[k].mark < file[j].mark ELSE k <= j}
  OBVIOUS
<1>3. HeadingOf(b) = IF above = {} THEN 0 ELSE CHOOSE j \in closest : TRUE
  BY <1>1, <1>2 DEF HeadingOf
<1>4. g \in above /\ \A k \in above : IF file[g].mark # file[k].mark
                                       THEN file[k].mark < file[g].mark ELSE k <= g
  <2>1. g \in above
    BY <1>1
  <2>2. ASSUME NEW k \in above
        PROVE  IF file[g].mark # file[k].mark THEN file[k].mark < file[g].mark ELSE k <= g
    <3>1. k \in Headings /\ file[k].mark <= b.page
      BY <1>1
    <3>2. file[k].mark < file[g].mark \/ (file[k].mark = file[g].mark /\ k <= g)
      BY <3>1
    <3>3. file[k].mark \in Nat /\ file[g].mark \in Nat
      BY <3>1
    <3> QED
      BY <3>2, <3>3
  <2> QED
    BY <2>1, <2>2
<1>5. ASSUME NEW j \in closest PROVE j = g
  <2>1. j \in above /\ IF file[j].mark # file[g].mark THEN file[g].mark < file[j].mark ELSE g <= j
    BY <1>2, <1>4
  <2>2. j \in Headings /\ j \in Nat /\ g \in Nat /\ file[j].mark \in Nat /\ file[g].mark \in Nat
    BY <1>1, <2>1
  <2>3. IF file[g].mark # file[j].mark THEN file[j].mark < file[g].mark ELSE j <= g
    BY <1>4, <2>1
  <2> QED
    BY <2>1, <2>2, <2>3
<1>6. closest = {g}
  BY <1>2, <1>4, <1>5
<1> QED
  BY <1>3, <1>4, <1>6

LEMMA HeadingOfFirstPages ==
  ASSUME format = "pdf", NEW b, \A j \in Headings : ~(file[j].mark <= b.page)
  PROVE  HeadingOf(b) = 0
<1>1. {j \in Headings : file[j].mark <= b.page} = {}
  OBVIOUS
<1> QED
  BY <1>1 DEF HeadingOf

-----------------------------------------------------------------------------
(***************************************************************************)
(* Text follows its outline: Markdown, DOCX and plain text.                *)
(***************************************************************************)

\* What SectionsFollowTheOutline asks of a file.
NoLevelSkipped == \A h \in Headings : Cardinality(Enclosing(h)) = LevelOf(h)

LEMMA TextHeadings ==
  ASSUME Written, format # "pdf"
  PROVE  /\ Headings = {i \in 1..Len(file) : IsHead(i)}
         /\ Headings \in SUBSET (Nat \ {0}) /\ Lev \in [Headings -> Nat \ {0}]
         /\ \A h \in Headings : Lev[h] = LevelAt(format, file, Before(format, file, h), h)
<1>1. Headings = {i \in 1..Len(file) : IsHead(i)}
  BY HeadingLinesAre DEF Headings
<1>2. Headings \in SUBSET (Nat \ {0})
  BY <1>1, BlocksAre
<1>3. ASSUME NEW h \in Headings
      PROVE  /\ Lev[h] = LevelAt(format, file, Before(format, file, h), h)
             /\ Lev[h] \in Nat \ {0}
  <2>1. h \in 1..Len(file) /\ LevelAt(format, file, Before(format, file, h), h) # 0
    BY <1>1 DEF IsHead
  <2>2. LevelAt(format, file, Before(format, file, h), h) \in Nat
    BY <2>1, BlocksAre, LevelIs
  <2>3. LevelOf(h) = LevelAt(format, file, Before(format, file, h), h)
    <3>1. CASE format = "md"
      BY <2>1, <3>1 DEF LevelAt, LevelOf
    <3>2. CASE format = "docx"
      BY <3>2 DEF LevelAt, LevelOf
    <3>3. CASE format = "txt"
      BY <2>1, <3>3 DEF LevelAt
    <3> QED
      BY <3>1, <3>2, <3>3, BlocksAre DEF AllFormats
  <2> QED
    BY <2>1, <2>2, <2>3 DEF Lev
<1>4. Lev \in [Headings -> Nat \ {0}]
  BY <1>3 DEF Lev
<1> QED
  BY <1>1, <1>2, <1>3, <1>4

\* g is the last heading up to line k, or 0.
LastUpto(g, k) ==
  /\ g \in Nat /\ g <= k /\ (g = 0 \/ g \in Headings)
  /\ \A h \in Headings : h <= g \/ k < h

LEMMA PathsNest ==
  ASSUME Written, format # "pdf", NoLevelSkipped, NEW n \in 0..Len(file)
  PROVE  \E g : LastUpto(g, n) /\ Nests(Headings, Lev, LineLoop(format, file)[n].path, g)
<1> DEFINE L == LineLoop(format, file)
           T == {k \in 0..Len(file) : \E g : LastUpto(g, k) /\ Nests(Headings, Lev, L[k].path, g)}
<1>1. format \in AllFormats /\ file \in Seq(LinesOf(format)) /\ Len(file) \in Nat
  BY BlocksAre
<1>2. /\ Headings = {i \in 1..Len(file) : IsHead(i)}
      /\ Headings \in SUBSET (Nat \ {0}) /\ Lev \in [Headings -> Nat \ {0}]
      /\ \A h \in Headings : Lev[h] = LevelAt(format, file, Before(format, file, h), h)
  BY TextHeadings
<1>3. 0 \in T
  <2>1. L[0].path = <<>>
    BY <1>1, LoopType DEF Start
  <2>2. LastUpto(0, 0)
    BY <1>2 DEF LastUpto
  <2>3. Nests(Headings, Lev, L[0].path, 0)
    BY <1>2, <2>1, NestsNothing
  <2> QED
    BY <1>1, <2>2, <2>3
<1>4. ASSUME NEW k \in 1..Len(file), k - 1 \in T
      PROVE  k \in T
  <2>1. k \in Nat /\ k \in 0..Len(file) /\ k # 0
    BY <1>1
  <2>2. PICK g : LastUpto(g, k - 1) /\ Nests(Headings, Lev, L[k - 1].path, g)
    BY <1>4
  <2>3. /\ g \in Nat /\ g <= k - 1 /\ (g = 0 \/ g \in Headings)
        /\ \A h \in Headings : h <= g \/ k - 1 < h
    BY <2>2 DEF LastUpto
  <2>4. PICK s : s = Before(format, file, k)
    OBVIOUS
  <2>5. s \in AState /\ Turned(format, file, s, k, L[k]) /\ L[k - 1].path = s.path
    BY <1>1, <2>4, LoopTurn DEF Before
  <2>6. \A h \in Headings : h \in Nat
    BY <1>2
  <2>7. CASE k \in Headings
    <3>1. Added(format, file, k) /\ LevelAt(format, file, s, k) # 0 /\ Lev[k] = LevelAt(format, file, s, k)
      BY <1>2, <2>4, <2>7 DEF IsHead
    <3>2. L[k].path = Push(s.path, Lev[k], k)
      BY <2>4, <2>5, <3>1 DEF Turned, Added, PathAt
    <3>3. g < k /\ \A h \in Headings : h <= g \/ k <= h
      BY <2>1, <2>3, <2>6
    <3>4. Cardinality(Above(Headings, Lev, k)) = Lev[k]
      <4>1. Lev[k] = LevelOf(k)
        BY <2>7 DEF Lev
      <4> QED
        BY <2>7, <4>1, EnclosingIs DEF NoLevelSkipped
    <3>5. Nests(Headings, Lev, L[k].path, k)
      <4>1. /\ Headings \in SUBSET (Nat \ {0}) /\ Lev \in [Headings -> Nat \ {0}]
            /\ g \in Nat /\ Nests(Headings, Lev, s.path, g) /\ (g = 0 \/ g \in Headings)
        BY <1>2, <2>2, <2>3, <2>5
      <4>2. Nests(Headings, Lev, Push(s.path, Lev[k], k), k)
        BY ONLY <2>7, <3>3, <3>4, <4>1, PushNests
      <4> QED
        BY <3>2, <4>2
    <3>6. LastUpto(k, k)
      BY <2>1, <2>6, <2>7 DEF LastUpto
    <3> QED
      BY <2>1, <3>5, <3>6
  <2>8. CASE k \notin Headings
    <3>1. Added(format, file, k) => LevelAt(format, file, s, k) = 0
      BY <1>2, <2>4, <2>8 DEF IsHead
    <3>2. L[k].path = s.path
      BY <2>4, <2>5, <3>1 DEF Turned, Added, PathAt
    <3>3. \A h \in Headings : h <= g \/ k < h
      BY <2>1, <2>3, <2>6, <2>8
    <3>4. LastUpto(g, k)
      BY <2>1, <2>3, <3>3 DEF LastUpto
    <3> QED
      BY <2>1, <2>2, <2>5, <3>2, <3>4
  <2> QED
    BY <2>7, <2>8
<1> HIDE DEF T
<1>5. \A k \in 0..Len(file) : k \in T
  BY <1>1, <1>3, <1>4, Induction
<1> QED
  BY <1>5 DEF T

\* What the property says of one path.
Follows(path, h) ==
  /\ ToSet(path) = IF h = 0 THEN {} ELSE Enclosing(h)
  /\ \A i \in 2..Len(path) : path[i - 1] < path[i]

LEMMA NestsFollows ==
  ASSUME Headings \in SUBSET (Nat \ {0}), NEW g, g = 0 \/ g \in Headings,
         NEW path, Nests(Headings, Lev, path, g)
  PROVE  Follows(path, g)
<1>1. PICK n \in Nat : n = Len(path)
  BY LenProperties DEF Nests
<1>2. \A i \in 2..n : i - 1 \in 1..n /\ i \in 1..n /\ i - 1 < i
  OBVIOUS
<1>3. \A i \in 2..Len(path) : path[i - 1] < path[i]
  BY <1>1, <1>2 DEF Nests
<1>4. ToSet(path) = Above(Headings, Lev, g)
  BY DEF Nests
<1>5. CASE g = 0
  <2>1. \A j \in Headings : ~(j <= 0)
    OBVIOUS
  <2>2. Above(Headings, Lev, 0) = {}
    BY <2>1, Zenon DEF Above
  <2> QED
    BY <1>3, <1>4, <1>5, <2>2 DEF Follows
<1>6. CASE g \in Headings
  <2>1. g # 0
    BY <1>6
  <2> QED
    BY <1>3, <1>4, <1>6, <2>1, EnclosingIs DEF Follows
<1> QED
  BY <1>5, <1>6

LEMMA EmptyFollows ==
  Follows(<<>>, 0)
<1>1. PICK e \in Seq(Nat) : e = <<>>
  BY EmptySeq
<1>2. Len(e) = 0
  BY <1>1
<1>3. 1..Len(e) = {} /\ 2..Len(e) = {}
  BY <1>2
<1>4. ToSet(e) = {e[j] : j \in 1..Len(e)}
  BY ElementsAre
<1>5. ToSet(e) = {}
  BY <1>3, <1>4
<1> QED
  BY <1>1, <1>3, <1>5 DEF Follows

LEMMA TextFollows ==
  ASSUME Written, format # "pdf", NoLevelSkipped, NEW b \in DOMAIN blocks
  PROVE  Follows(blocks[b].path, HeadingOf(blocks[b]))
<1>1. format \in AllFormats /\ file \in Seq(LinesOf(format)) /\ Len(file) \in Nat
  BY BlocksAre
<1>2. PICK i \in 1..Len(file) : Added(format, file, i) /\ blocks[b] = Made(format, file, i)
  BY BlocksAre
<1>3. PICK s : s = Before(format, file, i)
  OBVIOUS
<1>4. blocks[b].path = HeadAt(format, file, s, i) /\ blocks[b].line = i
  BY <1>1, <1>2, <1>3, MadeIs
<1>5. i \in Nat /\ i \in 0..Len(file)
  BY <1>1
<1>6. Headings \in SUBSET (Nat \ {0})
  BY TextHeadings
<1>7. PICK g : LastUpto(g, i) /\ Nests(Headings, Lev, LineLoop(format, file)[i].path, g)
  BY <1>5, PathsNest
<1>8. HeadingOf(blocks[b]) = g
  BY <1>4, <1>5, <1>6, <1>7, HeadingOfText DEF LastUpto
<1>9. CASE format = "txt"
  <2>1. blocks[b].path = <<>>
    BY <1>4, <1>9 DEF HeadAt
  <2>2. Headings = {}
    BY <1>9, TextHeadings DEF IsHead, LevelAt
  <2>3. g = 0
    BY <1>7, <2>2 DEF LastUpto
  <2> QED
    BY <1>8, <2>1, <2>3, EmptyFollows
<1>10. CASE format # "txt"
  <2>1. blocks[b].path = PathAt(format, file, s, i)
    BY <1>4, <1>10 DEF HeadAt
  <2>2. LineLoop(format, file)[i].path = PathAt(format, file, s, i)
    BY <1>1, <1>2, <1>3, LoopTurn DEF Turned, Added
  <2>3. g = 0 \/ g \in Headings
    BY <1>7 DEF LastUpto
  <2> QED
    BY <1>6, <1>7, <1>8, <2>1, <2>2, <2>3, NestsFollows
<1> QED
  BY <1>9, <1>10

-----------------------------------------------------------------------------
(***************************************************************************)
(* Pages follow the bookmarks: PDF.                                        *)
(***************************************************************************)

LEMMA PageHeadings ==
  ASSUME Written, format = "pdf"
  PROVE  /\ Headings = Outline(file)
         /\ Headings \in SUBSET (Nat \ {0}) /\ Lev \in [Headings -> Nat \ {0}]
         /\ \A h \in Headings : h \in 1..Len(file) /\ Lev[h] = file[h].level
         /\ \A h \in Headings : file[h].mark \in Pages(file)
<1>1. file \in Seq(LinesOf("pdf")) /\ Len(file) \in Nat
  BY BlocksAre
<1>2. Headings = Outline(file)
  BY DEF Headings
<1>3. \A h \in Headings : h \in 1..Len(file) /\ file[h].level \in Nat \ {0} /\ file[h].mark \in Pages(file)
  BY <1>1, <1>2, OutlineIs
<1>4. \A h \in Headings : Lev[h] = file[h].level
  BY DEF Lev, LevelOf
<1>5. Headings \in SUBSET (Nat \ {0})
  BY <1>1, <1>3
<1>6. Lev \in [Headings -> Nat \ {0}]
  BY <1>3, <1>4 DEF Lev
<1> QED
  BY <1>2, <1>3, <1>4, <1>5, <1>6

\* A page has the path of its last bookmark up to line k, or none.
PageNests(path, p, k) ==
  \/ path = <<>> /\ \A h \in Headings : h <= k => file[h].mark # p
  \/ \E h \in Headings : /\ h <= k /\ file[h].mark = p /\ Nests(Headings, Lev, path, h)
                         /\ \A j \in Headings : j <= k /\ file[j].mark = p => j <= h

LEMMA NestsSome ==
  ASSUME Headings \in SUBSET (Nat \ {0}), NEW h \in Headings, NEW path, Nests(Headings, Lev, path, h)
  PROVE  path # <<>>
<1>1. path \in Seq(Nat) /\ ToSet(path) = Above(Headings, Lev, h) /\ h \in Nat
  BY DEF Nests
<1>2. h <= h /\ \A k \in Headings : ~(h < k /\ k <= h)
  BY <1>1
<1>3. h \in Above(Headings, Lev, h)
  BY <1>2, Zenon DEF Above
<1>4. PICK j \in 1..Len(path) : path[j] = h
  BY <1>1, <1>3, ElementsAre
<1>5. PICK n \in Nat : n = Len(path)
  BY <1>1, LenProperties
<1>6. n # 0
  BY <1>4, <1>5
<1> QED
  BY <1>5, <1>6

LEMMA PagesNest ==
  ASSUME Written, format = "pdf", NoLevelSkipped
  PROVE  \A p \in Pages(file) : PageNests(PerPage(file)[p], p, Len(file))
<1> DEFINE B == BookmarkLoop(file)
           I(k) == /\ \E g : LastUpto(g, k) /\ Nests(Headings, Lev, B[k].path, g)
                   /\ \A p \in Pages(file) : PageNests(B[k].pages[p], p, k)
           T == {k \in 0..Len(file) : I(k)}
<1>1. file \in Seq(LinesOf("pdf")) /\ Len(file) \in Nat
  BY BlocksAre
<1>2. /\ Headings = Outline(file)
      /\ Headings \in SUBSET (Nat \ {0}) /\ Lev \in [Headings -> Nat \ {0}]
      /\ \A h \in Headings : h \in 1..Len(file) /\ Lev[h] = file[h].level
      /\ \A h \in Headings : file[h].mark \in Pages(file)
  BY PageHeadings
<1>3. 0 \in T
  <2>1. B[0] = [path |-> <<>>, pages |-> [p \in Pages(file) |-> <<>>]]
    BY <1>1, BookmarkTurns
  <2>2. B[0].path = <<>> /\ \A p \in Pages(file) : B[0].pages[p] = <<>>
    BY <2>1
  <2>3. LastUpto(0, 0)
    BY <1>2 DEF LastUpto
  <2>4. Nests(Headings, Lev, B[0].path, 0)
    BY <1>2, <2>2, NestsNothing
  <2>5. \A h \in Headings : ~(h <= 0)
    BY <1>2
  <2>6. \A p \in Pages(file) : PageNests(B[0].pages[p], p, 0)
    BY <2>2, <2>5 DEF PageNests
  <2> QED
    BY <1>1, <2>3, <2>4, <2>6
<1>4. ASSUME NEW k \in 1..Len(file), k - 1 \in T
      PROVE  k \in T
  <2>1. k \in Nat /\ k \in 0..Len(file) /\ k # 0 /\ k - 1 \in 0..Len(file)
    BY <1>1
  <2>2. PICK g : LastUpto(g, k - 1) /\ Nests(Headings, Lev, B[k - 1].path, g)
    BY <1>4
  <2>3. /\ g \in Nat /\ g <= k - 1 /\ (g = 0 \/ g \in Headings)
        /\ \A h \in Headings : h <= g \/ k - 1 < h
    BY <2>2 DEF LastUpto
  <2>4. PICK s \in AMap(file) : s = B[k - 1]
    BY <1>1, <2>1, BookmarkType
  <2>5. PICK t : t = B[k] /\ t = AddBookmark(file, s, k)
    BY <1>1, <2>4, BookmarkTurns
  <2>6. /\ k \notin Outline(file) => t = s
        /\ k \in Outline(file) =>
             /\ t.path = Push(s.path, file[k].level, k)
             /\ \A p \in Pages(file) : t.pages[p] = IF p = file[k].mark THEN t.path ELSE s.pages[p]
    BY <1>1, <2>4, <2>5, AddBookmarkIs
  <2>7. \A h \in Headings : h \in Nat /\ (h <= k => h <= k - 1 \/ h = k) /\ (h <= k - 1 => h <= k)
    BY <1>2, <2>1
  <2>8. \A p \in Pages(file) : PageNests(s.pages[p], p, k - 1)
    BY <1>4, <2>4
  <2>9. ASSUME NEW p \in Pages(file), k \in Headings => file[k].mark # p
        PROVE  PageNests(s.pages[p], p, k)
    <3>1. CASE s.pages[p] = <<>> /\ \A h \in Headings : h <= k - 1 => file[h].mark # p
      BY <2>7, <2>9, <3>1, Zenon DEF PageNests
    <3>2. CASE \E h \in Headings : /\ h <= k - 1 /\ file[h].mark = p
                                   /\ Nests(Headings, Lev, s.pages[p], h)
                                   /\ \A j \in Headings : j <= k - 1 /\ file[j].mark = p => j <= h
      BY <2>7, <2>9, <3>2, Zenon DEF PageNests
    <3> QED
      BY <2>8, <3>1, <3>2, Zenon DEF PageNests
  <2>10. CASE k \in Headings
    <3>1. t.path = Push(s.path, Lev[k], k)
      BY <1>2, <2>6, <2>10
    <3>2. g < k /\ \A h \in Headings : h <= g \/ k <= h
      BY <2>1, <2>3, <2>7
    <3>3. Cardinality(Above(Headings, Lev, k)) = Lev[k]
      <4>1. Lev[k] = LevelOf(k)
        BY <2>10 DEF Lev
      <4> QED
        BY <2>10, <4>1, EnclosingIs DEF NoLevelSkipped
    <3>4. Nests(Headings, Lev, t.path, k)
      <4>1. /\ Headings \in SUBSET (Nat \ {0}) /\ Lev \in [Headings -> Nat \ {0}]
            /\ g \in Nat /\ Nests(Headings, Lev, s.path, g) /\ (g = 0 \/ g \in Headings)
        BY <1>2, <2>2, <2>3, <2>4
      <4>2. Nests(Headings, Lev, Push(s.path, Lev[k], k), k)
        BY ONLY <2>10, <3>2, <3>3, <4>1, PushNests
      <4> QED
        BY <3>1, <4>2
    <3>5. LastUpto(k, k)
      BY <2>1, <2>7, <2>10 DEF LastUpto
    <3>6. ASSUME NEW p \in Pages(file) PROVE PageNests(t.pages[p], p, k)
      <4>1. CASE p = file[k].mark
        <5>1. t.pages[p] = t.path
          BY <1>2, <2>6, <2>10, <4>1
        <5>2. k <= k
          BY <2>1
        <5> QED
          BY <2>10, <3>4, <4>1, <5>1, <5>2, Zenon DEF PageNests
      <4>2. CASE p # file[k].mark
        <5>1. t.pages[p] = s.pages[p]
          BY <1>2, <2>6, <2>10, <4>2
        <5> QED
          BY <2>9, <4>2, <5>1
      <4> QED
        BY <4>1, <4>2
    <3> QED
      BY <2>1, <2>5, <3>4, <3>5, <3>6
  <2>11. CASE k \notin Headings
    <3>1. t = s
      BY <1>2, <2>6, <2>11
    <3>2. LastUpto(g, k)
      <4>1. \A h \in Headings : h <= g \/ k < h
        BY <2>1, <2>3, <2>7, <2>11
      <4> QED
        BY <2>1, <2>3, <4>1 DEF LastUpto
    <3>3. \A p \in Pages(file) : PageNests(t.pages[p], p, k)
      BY <2>9, <2>11, <3>1
    <3> QED
      BY <2>1, <2>2, <2>4, <2>5, <3>1, <3>2, <3>3
  <2> QED
    BY <2>10, <2>11
<1> HIDE DEF T
<1>5. \A k \in 0..Len(file) : k \in T
  BY <1>1, <1>3, <1>4, Induction
<1>6. Len(file) \in 0..Len(file)
  BY <1>1
<1>7. I(Len(file))
  BY <1>5, <1>6 DEF T
<1> QED
  BY <1>7 DEF PerPage

LEMMA PageFollows ==
  ASSUME Written, format = "pdf", NoLevelSkipped, NEW b \in DOMAIN blocks
  PROVE  Follows(blocks[b].path, HeadingOf(blocks[b]))
<1>1. file \in Seq(LinesOf("pdf")) /\ Len(file) \in Nat /\ format \in AllFormats
  BY BlocksAre
<1>2. PICK i \in 1..Len(file) : blocks[b] = Made(format, file, i)
  BY BlocksAre
<1>3. PICK p : p = PageOf(file, i)
  OBVIOUS
<1>4. p \in Pages(file) /\ Pages(file) \in SUBSET (Nat \ {0})
  BY <1>1, <1>3, PageInPages
<1>5. PICK q : q = HeadingsByPage(file)[p]
  OBVIOUS
<1>6. blocks[b].path = q /\ blocks[b].page = p
  <2>1. blocks[b].path = HeadAt(format, file, Before(format, file, i), i)
        /\ blocks[b].page = PageAt(format, file, i)
    BY <1>1, <1>2, MadeIs
  <2> QED
    BY <1>3, <1>5, <2>1 DEF HeadAt, PageAt
<1>7. PICK own : own = PerPage(file)
  OBVIOUS
<1>8. \A c \in Pages(file) : PageNests(own[c], c, Len(file))
  BY <1>7, PagesNest
<1>9. /\ Headings \in SUBSET (Nat \ {0})
      /\ \A h \in Headings : h \in 1..Len(file) /\ h <= Len(file)
      /\ \A h \in Headings : file[h].mark \in Pages(file)
  BY <1>1, PageHeadings
<1>10. \/ q = <<>> /\ \A c \in Pages(file) : c <= p => own[c] = <<>>
       \/ \E c \in Pages(file) : /\ c <= p /\ own[c] # <<>> /\ q = own[c]
                                 /\ \A d \in Pages(file) : d <= p /\ own[d] # <<>> => d <= c
  BY <1>1, <1>4, <1>5, <1>7, HeadingsByPageIs
<1>11. ASSUME NEW j \in Headings PROVE own[file[j].mark] # <<>>
  <2>1. PICK c \in Pages(file) : c = file[j].mark
    BY <1>9
  <2>2. PICK h \in Headings : Nests(Headings, Lev, own[c], h)
    BY <1>8, <1>9, <2>1, Zenon DEF PageNests
  <2> QED
    BY <1>9, <2>1, <2>2, NestsSome
<1>12. CASE q = <<>> /\ \A c \in Pages(file) : c <= p => own[c] = <<>>
  <2>1. \A j \in Headings : ~(file[j].mark <= blocks[b].page)
    BY <1>6, <1>9, <1>11, <1>12, Zenon
  <2>2. HeadingOf(blocks[b]) = 0
    BY <2>1, HeadingOfFirstPages
  <2> QED
    BY <1>6, <1>12, <2>2, EmptyFollows
<1>13. CASE \E c \in Pages(file) : /\ c <= p /\ own[c] # <<>> /\ q = own[c]
                                   /\ \A d \in Pages(file) : d <= p /\ own[d] # <<>> => d <= c
  <2>1. PICK c \in Pages(file) : /\ c <= p /\ own[c] # <<>> /\ q = own[c]
                                 /\ \A d \in Pages(file) : d <= p /\ own[d] # <<>> => d <= c
    BY <1>13
  <2>2. PICK h \in Headings : /\ file[h].mark = c /\ Nests(Headings, Lev, q, h)
                              /\ \A j \in Headings : j <= Len(file) /\ file[j].mark = c => j <= h
    BY <1>8, <2>1, Zenon DEF PageNests
  <2>3. ASSUME NEW j \in Headings, file[j].mark <= p
        PROVE  file[j].mark < file[h].mark \/ (file[j].mark = file[h].mark /\ j <= h)
    <3>1. file[j].mark \in Pages(file) /\ file[j].mark <= c
      BY <1>9, <1>11, <2>1, <2>3
    <3>2. file[j].mark \in Nat /\ c \in Nat
      BY <1>4, <3>1
    <3>3. file[j].mark = c => j <= h
      BY <1>9, <2>2
    <3> QED
      BY <2>2, <3>1, <3>2, <3>3
  <2>4. /\ Headings \in SUBSET Nat /\ \A j \in Headings : file[j].mark \in Nat
        /\ blocks[b].page \in Nat /\ file[h].mark <= blocks[b].page
    BY <1>4, <1>6, <1>9, <2>1, <2>2
  <2>5. HeadingOf(blocks[b]) = h
    BY <1>6, <2>3, <2>4, HeadingOfPage
  <2> QED
    BY <1>6, <1>9, <2>2, <2>5, NestsFollows
<1> QED
  BY <1>10, <1>12, <1>13

\* Where no level is skipped, the path that an extractor keeps with _push puts
\* every block under the headings that enclose it, in every file of every format.
THEOREM OutlineAlways == Spec => []SectionsFollowTheOutline
<1>1. Written => SectionsFollowTheOutline
  <2> SUFFICES ASSUME Written, NoLevelSkipped, NEW b \in DOMAIN blocks
               PROVE  Follows(blocks[b].path, HeadingOf(blocks[b]))
    BY DEF SectionsFollowTheOutline, NoLevelSkipped, Follows
  <2> QED
    BY TextFollows, PageFollows
<1> QED
  BY <1>1, AlwaysWritten, PTL

-----------------------------------------------------------------------------
(***************************************************************************)
(* Fences: which of them open a code block, and what the loop makes of it. *)
(***************************************************************************)

\* The openers among the first n lines.
Opening(open, n) ==
  /\ open \in SUBSET Fences /\ \A o \in open : o <= n
  /\ \A i \in Fences : i <= n => (i \in open <=> ~\E o \in open : IsOpenAt(o, i))

LEMMA SomeOpening ==
  ASSUME Len(file) \in Nat, Fences \in SUBSET (1..Len(file))
  PROVE  \E open : Opening(open, Len(file))
<1> DEFINE T == {k \in 0..Len(file) : \E open : Opening(open, k)}
<1>1. 0 \in T
  <2>1. \A i \in Fences : ~(i <= 0)
    OBVIOUS
  <2>2. Opening({}, 0)
    BY <2>1 DEF Opening
  <2> QED
    BY <2>2
<1>2. ASSUME NEW k \in 1..Len(file), k - 1 \in T
      PROVE  k \in T
  <2>1. k \in Nat /\ k \in 0..Len(file)
    OBVIOUS
  <2>2. PICK open : Opening(open, k - 1)
    BY <1>2
  <2>3. /\ open \in SUBSET Fences /\ \A o \in open : o <= k - 1
        /\ \A i \in Fences : i <= k - 1 => (i \in open <=> ~\E o \in open : IsOpenAt(o, i))
    BY <2>2 DEF Opening
  <2>4. \A i \in Fences : i \in Nat /\ (i <= k => i <= k - 1 \/ i = k) /\ (i <= k - 1 => i <= k /\ i # k)
    BY <2>1
  <2>5. CASE k \in Fences /\ ~\E o \in open : IsOpenAt(o, k)
    <3>1. PICK more : more = open \cup {k}
      OBVIOUS
    <3>2. \A i \in Fences : i <= k => ~IsOpenAt(k, i)
      BY <2>1, <2>4 DEF IsOpenAt
    <3>3. more \in SUBSET Fences /\ \A o \in more : o <= k
      BY <2>1, <2>3, <2>4, <2>5, <3>1
    <3>4. \A i \in Fences : i <= k => (i \in more <=> ~\E o \in more : IsOpenAt(o, i))
      BY <2>3, <2>4, <2>5, <3>1, <3>2, Zenon
    <3> QED
      BY <2>1, <3>3, <3>4 DEF Opening
  <2>6. CASE ~(k \in Fences /\ ~\E o \in open : IsOpenAt(o, k))
    <3>1. \A o \in open : o <= k /\ o # k
      BY <2>3, <2>4
    <3>2. \A i \in Fences : i <= k => (i \in open <=> ~\E o \in open : IsOpenAt(o, i))
      BY <2>3, <2>4, <2>6, <3>1, Zenon
    <3> QED
      BY <2>1, <2>3, <3>1, <3>2 DEF Opening
  <2> QED
    BY <2>5, <2>6
<1> HIDE DEF T
<1>3. \A k \in 0..Len(file) : k \in T
  BY <1>1, <1>2, Induction
<1> QED
  BY <1>3 DEF T

LEMMA FencesAre ==
  ASSUME Written
  PROVE  /\ Fences \in SUBSET (1..Len(file))
         /\ format # "md" => Fences = {}
         /\ \A i \in Fences : /\ format = "md" /\ file[i].kind = "fence" /\ file[i] \in ALine
                              /\ file[i].level <= 4 /\ file[i] # Blank
<1>1. file \in Seq(LinesOf(format)) /\ DOMAIN file = 1..Len(file) /\ Len(file) \in Nat
  BY BlocksAre
<1>2. ASSUME NEW i \in Fences
      PROVE  /\ format = "md" /\ file[i].kind = "fence" /\ file[i] \in ALine
             /\ file[i].level <= 4 /\ file[i] # Blank /\ i \in 1..Len(file)
  <2>1. i \in 1..Len(file) /\ format = "md" /\ file[i].kind = "fence"
    BY <1>1 DEF Fences
  <2>2. file[i] \in LinesOf("md")
    BY <1>1, <2>1, ElementOfSeq
  <2>3. file[i] \in ALine /\ file[i].level <= 4
    BY <2>1, <2>2, MarkdownLine
  <2>4. file[i] # Blank
    BY <2>1, BlankLine
  <2> QED
    BY <2>1, <2>3, <2>4
<1> QED
  BY <1>2

LEMMA OpenersAre ==
  ASSUME Written
  PROVE  /\ Openers \in SUBSET Fences
         /\ \A i \in Fences : i \in Openers <=> ~\E o \in Openers : IsOpenAt(o, i)
<1>1. Len(file) \in Nat /\ Fences \in SUBSET (1..Len(file))
  BY BlocksAre, FencesAre
<1>2. PICK open : Opening(open, Len(file))
  BY <1>1, SomeOpening
<1>3. \A i \in Fences : i <= Len(file)
  BY <1>1
<1>4. open \in SUBSET Fences /\ \A i \in Fences : i \in open <=> ~\E o \in open : IsOpenAt(o, i)
  BY <1>2, <1>3 DEF Opening
<1> QED
  BY <1>4, Zenon DEF Openers

\* At most one code block is open at a line.
LEMMA OneIsOpen ==
  ASSUME Written, NEW o \in Openers, NEW u \in Openers, NEW i \in Nat, IsOpenAt(o, i), IsOpenAt(u, i)
  PROVE  o = u
<1>1. /\ Openers \in SUBSET Fences
      /\ \A k \in Fences : k \in Openers <=> ~\E p \in Openers : IsOpenAt(p, k)
      /\ o \in Nat /\ u \in Nat
  BY OpenersAre, FencesAre, BlocksAre
<1>2. ASSUME NEW a \in Openers, NEW b \in Openers, a \in Nat, b \in Nat, a < b, IsOpenAt(a, i), IsOpenAt(b, i)
      PROVE  FALSE
  <2>1. b < i /\ \A c \in (a + 1)..(i - 1) : ~Ends(c, a)
    BY <1>2 DEF IsOpenAt
  <2>2. \A c \in (a + 1)..(b - 1) : c \in (a + 1)..(i - 1)
    BY <1>2, <2>1
  <2>3. IsOpenAt(a, b)
    BY <1>2, <2>1, <2>2 DEF IsOpenAt
  <2> QED
    BY <1>1, <2>3
<1>3. ~(o < u) /\ ~(u < o)
  BY <1>1, <1>2
<1> QED
  BY <1>1, <1>3

\* A block that is open at the next line was open at this one, and did not end here,
\* or it opens here.
LEMMA StillOpen ==
  ASSUME Written, NEW o \in Openers, NEW i \in 1..Len(file)
  PROVE  IsOpenAt(o, i + 1) <=> o = i \/ (IsOpenAt(o, i) /\ ~Ends(i, o))
<1>1. o \in Nat /\ i \in Nat
  BY OpenersAre, FencesAre, BlocksAre
<1>2. CASE o = i
  <2>1. (o + 1)..(i + 1 - 1) = {} /\ o < i + 1
    BY <1>1, <1>2
  <2> QED
    BY <1>2, <2>1 DEF IsOpenAt
<1>3. CASE o < i
  <2>1. \A c : c \in (o + 1)..(i + 1 - 1) <=> c \in (o + 1)..(i - 1) \/ c = i
    BY <1>1, <1>3
  <2>2. o < i + 1 /\ o # i
    BY <1>1, <1>3
  <2> QED
    <3>1. ASSUME IsOpenAt(o, i + 1) PROVE IsOpenAt(o, i) /\ ~Ends(i, o)
      <4>1. \A c \in (o + 1)..(i + 1 - 1) : ~Ends(c, o)
        BY <3>1 DEF IsOpenAt
      <4>2. \A c \in (o + 1)..(i - 1) : ~Ends(c, o)
        BY <2>1, <4>1
      <4>3. ~Ends(i, o)
        BY <2>1, <4>1
      <4> QED
        BY <1>3, <4>2, <4>3 DEF IsOpenAt
    <3>2. ASSUME IsOpenAt(o, i), ~Ends(i, o) PROVE IsOpenAt(o, i + 1)
      <4>1. \A c \in (o + 1)..(i - 1) : ~Ends(c, o)
        BY <3>2 DEF IsOpenAt
      <4>2. \A c \in (o + 1)..(i + 1 - 1) : ~Ends(c, o)
        BY <2>1, <3>2, <4>1
      <4> QED
        BY <2>2, <4>2 DEF IsOpenAt
    <3> QED
      BY <2>2, <3>1, <3>2
<1>4. CASE i < o
  <2>1. ~(o < i + 1) /\ ~(o < i) /\ o # i
    BY <1>1, <1>4
  <2> QED
    BY <2>1 DEF IsOpenAt
<1> QED
  BY <1>1, <1>2, <1>3, <1>4

\* In Markdown the loop is in a code block exactly where one is open, and skips
\* exactly the underlines of its headings.
FenceIs(k, s) ==
  \/ s.fence = Blank /\ \A o \in Openers : ~IsOpenAt(o, k + 1)
  \/ \E o \in Openers : IsOpenAt(o, k + 1) /\ s.fence = file[o]
SkipIs(k, s) ==
  /\ s.skip <=> k # 0 /\ IsHead(k) /\ file[k].kind # "atx"
  /\ s.skip => s.fence = Blank /\ k < Len(file) /\ file[k + 1].kind = "under"

LEMMA FenceTurn ==
  ASSUME Written, format = "md", NEW k \in 1..Len(file),
         FenceIs(k - 1, Before(format, file, k)), SkipIs(k - 1, Before(format, file, k))
  PROVE  FenceIs(k, LineLoop(format, file)[k])
<1> DEFINE s == Before(format, file, k)
           t == LineLoop(format, file)[k]
<1>1. /\ file \in Seq(LinesOf("md")) /\ Len(file) \in Nat /\ k \in Nat
      /\ (k - 1) + 1 = k /\ DOMAIN file = 1..Len(file)
  BY BlocksAre
<1>2. t = AddMarkdownLine(file, s, k) /\ s \in AState
  BY BlocksAre, LoopTurn DEF AddLine
<1>3. t.fence = IF s.skip \/ file[k] = Blank THEN s.fence
                ELSE IF ClosesAt(file, s, k) THEN Blank
                ELSE IF OpensAt(file, s, k) THEN file[k] ELSE s.fence
  BY <1>1, <1>2, MarkdownTurn
<1>4. /\ Openers \in SUBSET Fences
      /\ \A i \in Fences : i \in Openers <=> ~\E o \in Openers : IsOpenAt(o, i)
  BY OpenersAre
<1>5. \A o \in Openers : file[o].kind = "fence" /\ file[o] # Blank /\ file[o] \in ALine
  BY <1>4, FencesAre
<1>6. \/ s.fence = Blank /\ \A o \in Openers : ~IsOpenAt(o, k)
      \/ \E o \in Openers : IsOpenAt(o, k) /\ s.fence = file[o]
  BY <1>1 DEF FenceIs
<1>7. \A o \in Openers : IsOpenAt(o, k + 1) <=> o = k \/ (IsOpenAt(o, k) /\ ~Ends(k, o))
  BY StillOpen
<1>8. file[k] \in LinesOf("md") /\ file[k] \in ALine
  BY <1>1, ElementOfSeq, MarkdownLine
<1>9. k \in Fences <=> file[k].kind = "fence"
  BY <1>1 DEF Fences
<1>10. ASSUME k \notin Fences PROVE FenceIs(k, t)
  <2>1. \A o \in Openers : o # k /\ ~Ends(k, o)
    BY <1>4, <1>10 DEF Ends
  <2>2. file[k].kind # "fence"
    BY <1>9, <1>10
  <2>3. ~ClosesAt(file, s, k) /\ ~OpensAt(file, s, k)
    BY <2>2 DEF ClosesAt, Closes, OpensAt
  <2>4. t.fence = s.fence
    BY <1>3, <2>3
  <2> QED
    BY <1>6, <1>7, <2>1, <2>4, Zenon DEF FenceIs
<1>11. ASSUME k \in Fences PROVE FenceIs(k, t)
  <2>1. file[k].kind = "fence" /\ file[k] # Blank /\ file[k].level <= 4
    BY <1>11, FencesAre
  <2>2. ~s.skip
    <3>1. s.skip => file[k].kind = "under"
      BY <1>1 DEF SkipIs
    <3> QED
      BY <2>1, <3>1
  <2>3. CASE s.fence = Blank /\ \A o \in Openers : ~IsOpenAt(o, k)
    <3>1. k \in Openers
      BY <1>4, <1>11, <2>3
    <3>2. t.fence = file[k]
      BY <1>3, <2>1, <2>2, <2>3 DEF ClosesAt, OpensAt
    <3>3. IsOpenAt(k, k + 1)
      BY <1>7, <3>1
    <3> QED
      BY <3>1, <3>2, <3>3 DEF FenceIs
  <2>4. CASE \E o \in Openers : IsOpenAt(o, k) /\ s.fence = file[o]
    <3>1. PICK o \in Openers : IsOpenAt(o, k) /\ s.fence = file[o]
      BY <2>4
    <3>2. k \notin Openers
      BY <1>4, <1>11, <3>1
    <3>3. s.fence # Blank
      BY <1>5, <3>1
    <3>4. ClosesAt(file, s, k) <=> Ends(k, o)
      <4>1. file[k].level \in Nat /\ file[o].level \in Nat
        BY <1>5, <1>8 DEF ALine
      <4>2. file[k].level >= file[o].level <=> file[k].level \in file[o].level..4
        BY <2>1, <4>1
      <4> QED
        BY <1>11, <2>1, <3>1, <3>3, <4>2 DEF ClosesAt, Closes, Ends
    <3>5. CASE Ends(k, o)
      <4>1. t.fence = Blank
        BY <1>3, <2>1, <2>2, <3>4, <3>5
      <4>2. ASSUME NEW u \in Openers, IsOpenAt(u, k + 1) PROVE FALSE
        <5>1. IsOpenAt(u, k) /\ ~Ends(k, u)
          BY <1>7, <3>2, <4>2
        <5>2. u = o
          BY <1>1, <3>1, <5>1, OneIsOpen
        <5> QED
          BY <3>5, <5>1, <5>2
      <4> QED
        BY <4>1, <4>2 DEF FenceIs
    <3>6. CASE ~Ends(k, o)
      <4>1. ~OpensAt(file, s, k)
        BY <3>3 DEF OpensAt
      <4>2. t.fence = s.fence
        BY <1>3, <3>4, <3>6, <4>1
      <4>3. IsOpenAt(o, k + 1)
        BY <1>7, <3>1, <3>6
      <4> QED
        BY <3>1, <4>2, <4>3 DEF FenceIs
    <3> QED
      BY <3>5, <3>6
  <2> QED
    BY <1>6, <2>3, <2>4
<1> QED
  BY <1>10, <1>11

LEMMA SkipTurn ==
  ASSUME Written, format = "md", NEW k \in 1..Len(file)
  PROVE  SkipIs(k, LineLoop(format, file)[k])
<1> DEFINE s == Before(format, file, k)
           t == LineLoop(format, file)[k]
<1>1. file \in Seq(LinesOf("md")) /\ Len(file) \in Nat /\ k \in Nat /\ k # 0
  BY BlocksAre
<1>2. t = AddMarkdownLine(file, s, k) /\ s \in AState
  BY BlocksAre, LoopTurn DEF AddLine
<1>3. /\ t.fence = IF s.skip \/ file[k] = Blank THEN s.fence
                   ELSE IF ClosesAt(file, s, k) THEN Blank
                   ELSE IF OpensAt(file, s, k) THEN file[k] ELSE s.fence
      /\ t.skip <=> /\ Adds("md", file, s, k) /\ LevelAt("md", file, s, k) # 0
                    /\ file[k].kind # "atx"
  BY <1>1, <1>2, MarkdownTurn
<1>4. IsHead(k) <=> Adds("md", file, s, k) /\ LevelAt("md", file, s, k) # 0
  BY DEF IsHead, Added
<1>5. t.skip <=> k # 0 /\ IsHead(k) /\ file[k].kind # "atx"
  BY <1>1, <1>3, <1>4
<1>6. ASSUME t.skip PROVE t.fence = Blank /\ k < Len(file) /\ file[k + 1].kind = "under"
  <2>1. Adds("md", file, s, k) /\ LevelAt("md", file, s, k) # 0 /\ file[k].kind # "atx"
    BY <1>3, <1>6
  <2>2. s.fence = Blank /\ MarkdownLevel(file, k) # 0
    BY <2>1 DEF LevelAt
  <2>3. k < Len(file) /\ file[k + 1].kind = "under"
    BY <2>1, <2>2 DEF MarkdownLevel
  <2>4. ~s.skip /\ file[k] # Blank /\ ~ClosesAt(file, s, k) /\ ~OpensAt(file, s, k)
    BY <2>1 DEF Adds
  <2> QED
    BY <1>3, <2>2, <2>3, <2>4
<1> QED
  BY <1>5, <1>6 DEF SkipIs

LEMMA MarkdownLoop ==
  ASSUME Written, format = "md", NEW n \in 0..Len(file)
  PROVE  FenceIs(n, LineLoop(format, file)[n]) /\ SkipIs(n, LineLoop(format, file)[n])
<1> DEFINE L == LineLoop(format, file)
           T == {k \in 0..Len(file) : FenceIs(k, L[k]) /\ SkipIs(k, L[k])}
<1>1. Len(file) \in Nat
  BY BlocksAre
<1>2. 0 \in T
  <2>1. L[0] = Start
    BY BlocksAre, LoopType
  <2>2. Start.fence = Blank /\ Start.skip = FALSE
    BY DEF Start
  <2>3. \A o \in Openers : ~(o < 0 + 1)
    BY OpenersAre, FencesAre, <1>1
  <2>4. FenceIs(0, Start)
    BY <2>2, <2>3 DEF FenceIs, IsOpenAt
  <2>5. SkipIs(0, Start)
    BY <2>2 DEF SkipIs
  <2> QED
    BY <1>1, <2>1, <2>4, <2>5
<1>3. ASSUME NEW k \in 1..Len(file), k - 1 \in T
      PROVE  k \in T
  <2>1. FenceIs(k - 1, Before(format, file, k)) /\ SkipIs(k - 1, Before(format, file, k))
    BY <1>3 DEF Before
  <2>2. FenceIs(k, L[k]) /\ SkipIs(k, L[k])
    BY <2>1, FenceTurn, SkipTurn
  <2> QED
    BY <1>1, <2>2
<1> HIDE DEF T
<1>4. \A k \in 0..Len(file) : k \in T
  BY <1>1, <1>2, <1>3, Induction
<1> QED
  BY <1>4 DEF T

-----------------------------------------------------------------------------
(***************************************************************************)
(* Code is text, and no line is lost.                                      *)
(***************************************************************************)

LEMMA InCodeIs ==
  ASSUME Written, format = "md", NEW i \in 1..Len(file)
  PROVE  /\ InCode(i) => /\ Before(format, file, i).fence # Blank
                         /\ ~ClosesAt(file, Before(format, file, i), i)
         /\ ~InCode(i) /\ i \in Fences => \/ ClosesAt(file, Before(format, file, i), i)
                                          \/ OpensAt(file, Before(format, file, i), i)
         /\ InCode(i) => ~OpensAt(file, Before(format, file, i), i)
<1> DEFINE s == Before(format, file, i)
<1>1. file \in Seq(LinesOf("md")) /\ Len(file) \in Nat /\ i \in Nat /\ i - 1 \in 0..Len(file)
      /\ (i - 1) + 1 = i /\ DOMAIN file = 1..Len(file)
  BY BlocksAre
<1>2. \/ s.fence = Blank /\ \A o \in Openers : ~IsOpenAt(o, i)
      \/ \E o \in Openers : IsOpenAt(o, i) /\ s.fence = file[o]
  BY <1>1, MarkdownLoop DEF FenceIs, Before
<1>3. \A o \in Openers : o \in Fences /\ file[o] # Blank /\ file[o] \in ALine
  BY OpenersAre, FencesAre
<1>4. file[i] \in ALine
  BY <1>1, ElementOfSeq, MarkdownLine
<1>5. ASSUME NEW o \in Openers, IsOpenAt(o, i), s.fence = file[o]
      PROVE  s.fence # Blank /\ (ClosesAt(file, s, i) <=> Ends(i, o))
  <2>1. s.fence # Blank
    BY <1>3, <1>5
  <2>2. file[i].kind = "fence" <=> i \in Fences
    BY <1>1 DEF Fences
  <2>3. CASE i \in Fences
    <3>1. file[i].level \in Nat /\ file[o].level \in Nat /\ file[i].level <= 4
      BY <1>3, <1>4, <2>3, FencesAre DEF ALine
    <3>2. file[i].level >= file[o].level <=> file[i].level \in file[o].level..4
      BY <3>1
    <3> QED
      BY <1>5, <2>1, <2>2, <2>3, <3>2 DEF ClosesAt, Closes, Ends
  <2>4. CASE i \notin Fences
    BY <2>1, <2>2, <2>4 DEF ClosesAt, Closes, Ends
  <2> QED
    BY <2>3, <2>4
<1>6. ASSUME InCode(i) PROVE s.fence # Blank /\ ~ClosesAt(file, s, i) /\ ~OpensAt(file, s, i)
  <2>1. PICK u \in Openers : IsOpenAt(u, i) /\ ~Ends(i, u)
    BY <1>6 DEF InCode
  <2>2. PICK o \in Openers : IsOpenAt(o, i) /\ s.fence = file[o]
    BY <1>2, <2>1
  <2>3. o = u
    BY <1>1, <2>1, <2>2, OneIsOpen
  <2>4. s.fence # Blank /\ ~ClosesAt(file, s, i)
    BY <1>5, <2>1, <2>2, <2>3
  <2> QED
    BY <2>4 DEF OpensAt
<1>7. ASSUME ~InCode(i), i \in Fences PROVE ClosesAt(file, s, i) \/ OpensAt(file, s, i)
  <2>1. CASE s.fence = Blank
    BY <1>1, <1>7, <2>1 DEF OpensAt, Fences
  <2>2. CASE \E o \in Openers : IsOpenAt(o, i) /\ s.fence = file[o]
    <3>1. PICK o \in Openers : IsOpenAt(o, i) /\ s.fence = file[o]
      BY <2>2
    <3>2. Ends(i, o)
      BY <1>7, <3>1 DEF InCode
    <3> QED
      BY <1>5, <3>1, <3>2
  <2> QED
    BY <1>2, <2>1, <2>2
<1> QED
  BY <1>6, <1>7

LEMMA InCodeOnly ==
  ASSUME Written, format # "md", NEW i
  PROVE  ~InCode(i)
BY OpenersAre, FencesAre DEF InCode

\* _extract_markdown takes no line within a fence for a heading, in every Markdown file,
\* however its fences are nested.
THEOREM CodeAlways == Spec => []CodeIsText
<1>1. Written => CodeIsText
  <2> SUFFICES ASSUME Written, NEW i \in DOMAIN file, InCode(i), file[i] # Blank
               PROVE  i \in BlockLines \ HeadingLines
    BY DEF CodeIsText
  <2>1. format = "md"
    BY InCodeOnly
  <2>2. i \in 1..Len(file) /\ Len(file) \in Nat
    BY BlocksAre
  <2>3. PICK s : s = Before(format, file, i)
    OBVIOUS
  <2>4. s.fence # Blank /\ ~ClosesAt(file, s, i) /\ ~OpensAt(file, s, i)
    BY <2>1, <2>2, <2>3, InCodeIs
  <2>5. ~s.skip
    <3>1. i - 1 \in 0..Len(file)
      BY <2>2
    <3>2. s.skip => s.fence = Blank
      BY <2>1, <2>3, <3>1, MarkdownLoop DEF SkipIs, Before
    <3> QED
      BY <2>4, <3>2
  <2>6. Added(format, file, i)
    BY <2>1, <2>3, <2>4, <2>5 DEF Added, Adds
  <2>7. LevelAt(format, file, s, i) = 0
    BY <2>1, <2>4 DEF LevelAt
  <2>8. ~IsHead(i)
    BY <2>3, <2>7 DEF IsHead
  <2> QED
    BY <2>2, <2>6, <2>8, BlockLinesAre, HeadingLinesAre
<1> QED
  BY <1>1, AlwaysWritten, PTL

\* What becomes no block: the lines NoLineIsLost names.
Underline(i) == file[i].kind = "under" /\ i - 1 \in HeadingLines /\ file[i - 1].kind # "atx"
Silent(i) == file[i].kind \in {"blank", "page", "bookmark"}
Bound(i) == i \in Fences /\ ~InCode(i)

LEMMA MarkdownAdds ==
  ASSUME Written, format = "md", NEW i \in 1..Len(file)
  PROVE  Added(format, file, i) <=> ~Underline(i) /\ ~Bound(i) /\ ~Silent(i)
<1> DEFINE s == Before(format, file, i)
<1>1. file \in Seq(LinesOf("md")) /\ Len(file) \in Nat /\ i \in Nat /\ i - 1 \in 0..Len(file)
      /\ (i - 1) + 1 = i /\ DOMAIN file = 1..Len(file)
  BY BlocksAre
<1>2. file[i] \in LinesOf("md")
  BY <1>1, ElementOfSeq
<1>3. /\ file[i].kind \in {"text", "blank", "atx", "under", "fence"}
      /\ file[i].kind = "blank" <=> file[i] = Blank
  BY <1>2, MarkdownLine, BlankLine
<1>4. Silent(i) <=> file[i] = Blank
  BY <1>3 DEF Silent
<1>5. /\ s.skip <=> i - 1 # 0 /\ IsHead(i - 1) /\ file[i - 1].kind # "atx"
      /\ s.skip => file[i].kind = "under"
  BY <1>1, MarkdownLoop DEF SkipIs, Before
<1>6. i - 1 \in HeadingLines <=> i - 1 # 0 /\ IsHead(i - 1)
  BY <1>1, HeadingLinesAre
<1>7. s.skip <=> Underline(i)
  BY <1>5, <1>6 DEF Underline
<1>8. Added(format, file, i) <=> ~s.skip /\ file[i] # Blank /\ ~ClosesAt(file, s, i) /\ ~OpensAt(file, s, i)
  BY DEF Added, Adds
<1>9. Bound(i) <=> ClosesAt(file, s, i) \/ OpensAt(file, s, i)
  <2>1. Bound(i) => ClosesAt(file, s, i) \/ OpensAt(file, s, i)
    BY InCodeIs DEF Bound
  <2>2. ASSUME ClosesAt(file, s, i) \/ OpensAt(file, s, i) PROVE Bound(i)
    <3>1. file[i].kind = "fence"
      BY <2>2 DEF ClosesAt, Closes, OpensAt
    <3>2. i \in Fences
      BY <1>1, <3>1 DEF Fences
    <3>3. ~InCode(i)
      BY <2>2, InCodeIs
    <3> QED
      BY <3>2, <3>3 DEF Bound
  <2> QED
    BY <2>1, <2>2
<1> QED
  BY <1>4, <1>7, <1>8, <1>9

LEMMA OtherAdds ==
  ASSUME Written, format # "md", NEW i \in 1..Len(file)
  PROVE  Added(format, file, i) <=> ~Underline(i) /\ ~Bound(i) /\ ~Silent(i)
<1>1. format \in AllFormats /\ file[i] \in LinesOf(format)
  BY BlocksAre, ElementOfSeq
<1>2. ~Bound(i)
  BY FencesAre DEF Bound
<1>3. CASE format = "docx"
  <2>1. file[i].kind \in {"text", "blank", "title", "heading"} /\ (file[i].kind = "blank" <=> file[i] = Blank)
    BY <1>1, <1>3, DocxLine, BlankLine
  <2>2. Added(format, file, i) <=> file[i] # Blank
    BY <1>3 DEF Added, Adds
  <2> QED
    BY <1>2, <2>1, <2>2 DEF Underline, Silent
<1>4. CASE format = "pdf"
  <2>1. file[i].kind \in {"text", "page", "bookmark"}
    BY <1>1, <1>4, PdfLine
  <2>2. Added(format, file, i) <=> file[i].kind = "text"
    BY <1>4 DEF Added, Adds
  <2> QED
    BY <1>2, <2>1, <2>2 DEF Underline, Silent
<1>5. CASE format = "txt"
  <2>1. file[i].kind \in {"text", "blank"} /\ (file[i].kind = "blank" <=> file[i] = Blank)
    BY <1>1, <1>5, PlainLine, BlankLine
  <2>2. Added(format, file, i) <=> file[i] # Blank
    BY <1>5 DEF Added, Adds
  <2> QED
    BY <1>2, <2>1, <2>2 DEF Underline, Silent
<1> QED
  BY <1>1, <1>3, <1>4, <1>5 DEF AllFormats

\* Every extractor makes one block of every line of text, in every file of every format.
THEOREM NothingLostAlways == Spec => []NoLineIsLost
<1>1. Written => NoLineIsLost
  <2> SUFFICES ASSUME Written PROVE NoLineIsLost
    OBVIOUS
  <2>1. DOMAIN file = 1..Len(file) /\ Len(file) \in Nat
    BY BlocksAre
  <2>2. \A i \in 1..Len(file) : Added(format, file, i) <=> ~Underline(i) /\ ~Bound(i) /\ ~Silent(i)
    BY MarkdownAdds, OtherAdds
  <2>3. BlockLines = {i \in DOMAIN file : ~Underline(i) /\ ~Bound(i) /\ ~Silent(i)}
    BY <2>1, <2>2, BlockLinesAre
  <2>4. BlockLines = DOMAIN file \ ({i \in DOMAIN file : Underline(i)} \cup {i \in Fences : ~InCode(i)}
                                    \cup {i \in DOMAIN file : Silent(i)})
    BY <2>3 DEF Bound
  <2>5. \A k \in 2..Len(blocks) : blocks[k - 1].line < blocks[k].line
    <3>1. PICK n \in Nat : n = Len(blocks)
      BY WrittenBlocks, LenProperties
    <3>2. \A k \in 2..n : k - 1 \in 1..n /\ k \in 1..n /\ k - 1 < k
      OBVIOUS
    <3> QED
      BY <3>1, <3>2, BlocksAre
  <2> QED
    BY <2>4, <2>5 DEF NoLineIsLost, Underline, Silent
<1> QED
  BY <1>1, AlwaysWritten, PTL
=============================================================================
