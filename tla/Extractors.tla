----------------------------- MODULE Extractors -----------------------------
(***************************************************************************)
(* extract_blocks and what chunk makes of it: from the lines of a file to  *)
(* the blocks with their heading paths, to the chunks.                     *)
(*                                                                         *)
(* A line is what the patterns of the extractors tell apart; a heading is  *)
(* named by the number of its line, so no two are alike.  In a PDF the     *)
(* bookmarks come first and "page" starts the next page.  The machine      *)
(* writes a file line by line, so that its states are the inputs.          *)
(***************************************************************************)
EXTENDS Chunker

CONSTANTS
  Formats,    \* SUBSET {"md", "docx", "pdf", "txt"}
  Sizes,      \* how many words a line of text can have
  MaxLevel,   \* bound: heading levels
  MaxPages,   \* bound: pages a bookmark can point to
  MaxLines    \* bound: lines of a file

ASSUME ExtractorsAssumption ==
  /\ Formats \subseteq {"md", "docx", "pdf", "txt"}
  /\ Sizes \subseteq Nat \ {0} /\ {MaxLevel, MaxPages, MaxLines} \subseteq Nat

VARIABLES
  format,   \* the file's suffix
  file      \* its lines

vars == <<format, file, blocks, chunks>>

Line(kind, level, size, mark) == [kind |-> kind, level |-> level, size |-> size, mark |-> mark]

Blank == Line("blank", 0, 0, 0)
Texts == {Line("text", 0, n, 0) : n \in Sizes}

\* level: of a heading, or how many marks a fence has; mark: which of the two.
Backtick == 1
Tilde == 2
MarkdownLines ==
  {Line("atx", n, 1, 0) : n \in 1..MaxLevel} \cup {Line("under", n, 1, 0) : n \in 1..2}
  \cup {Line("fence", 3, 1, Backtick), Line("fence", 4, 1, Backtick), Line("fence", 3, 1, Tilde)}

\* "Heading" without a number has level 0.
DocxLines ==
  {Line("title", 0, 1, 0)} \cup {Line("heading", n, 1, 0) : n \in 0..MaxLevel}

\* level: the nesting of a bookmark; mark: the page it points to.
Bookmarks == {Line("bookmark", n, 0, p) : n \in 1..MaxLevel, p \in 1..MaxPages}
NextPage == Line("page", 0, 0, 0)

-----------------------------------------------------------------------------

\* _push: del headings[level - 1:], and append.
Push(headings, level, name) ==
  Append(SubSeq(headings, 1, IF Len(headings) < level THEN Len(headings) ELSE level - 1), name)

Block(lines, i, path, isHeading, page) ==
  [path |-> path, size |-> lines[i].size, isHeading |-> isHeading, page |-> page, line |-> i]

\* Mutant: any fence closes a code block.
ClosesAny(line, fence) == line.kind = "fence"

\* text.startswith(fence): the same mark, at least as many.
Closes(line, fence) ==
  line.kind = "fence" /\ line.mark = fence.mark /\ line.level >= fence.level

\* The level of the heading that line i is, or 0.  An underline is seen from above.
MarkdownLevel(lines, i) ==
  IF lines[i].kind = "atx" THEN lines[i].level
  ELSE IF i < Len(lines) /\ lines[i + 1].kind = "under" THEN lines[i + 1].level ELSE 0

\* Mutant: the underline of a heading is read as text.
AddMarkdownLineTwice(lines, s, i) ==
  LET line == lines[i]
      level == IF s.fence # Blank THEN 0 ELSE MarkdownLevel(lines, i)
      path == IF level = 0 THEN s.path ELSE Push(s.path, level, i)
  IN IF line = Blank THEN s
     ELSE IF s.fence # Blank /\ Closes(line, s.fence) THEN [s EXCEPT !.fence = Blank]
     ELSE IF s.fence = Blank /\ line.kind = "fence" THEN [s EXCEPT !.fence = line]
     ELSE [s EXCEPT !.path = path,
                    !.blocks = Append(@, Block(lines, i, path, level # 0, 0))]

\* One turn of the loop of _extract_markdown.
AddMarkdownLine(lines, s, i) ==
  LET line == lines[i]
      level == IF s.fence # Blank THEN 0 ELSE MarkdownLevel(lines, i)
      path == IF level = 0 THEN s.path ELSE Push(s.path, level, i)
  IN IF s.skip THEN [s EXCEPT !.skip = FALSE]
     ELSE IF line = Blank THEN s
     ELSE IF s.fence # Blank /\ Closes(line, s.fence) THEN [s EXCEPT !.fence = Blank]
     ELSE IF s.fence = Blank /\ line.kind = "fence" THEN [s EXCEPT !.fence = line]
     ELSE [s EXCEPT !.path = path, !.skip = level # 0 /\ line.kind # "atx",
                    !.blocks = Append(@, Block(lines, i, path, level # 0, 0))]

\* _docx_heading_level, with 0 for None.
DocxLevel(line) ==
  CASE line.kind = "title" -> 1
    [] line.kind = "heading" -> IF line.level = 0 THEN 2 ELSE line.level + 1
    [] OTHER -> 0

AddDocxLine(lines, s, i) ==
  LET level == DocxLevel(lines[i])
      path == IF level = 0 THEN s.path ELSE Push(s.path, level, i)
  IN IF lines[i] = Blank THEN s
     ELSE [s EXCEPT !.path = path,
                    !.blocks = Append(@, Block(lines, i, path, level # 0, 0))]

PageOf(lines, i) == 1 + Cardinality({j \in 1..i : lines[j] = NextPage})
Pages(lines) == 1..PageOf(lines, Len(lines))

\* _pdf_outline: the entries that point to a page.
Outline(lines) ==
  {i \in DOMAIN lines : lines[i].kind = "bookmark" /\ lines[i].mark \in Pages(lines)}

\* The first loop of _pdf_headings_by_page: the last entry of a page stays.
AddBookmark(lines, s, i) ==
  LET path == Push(s.path, lines[i].level, i)
  IN IF i \in Outline(lines)
     THEN [path |-> path, pages |-> [s.pages EXCEPT ![lines[i].mark] = path]]
     ELSE s

BookmarkLoop(lines) ==
  LET after[k \in 0..Len(lines)] ==
        IF k = 0 THEN [path |-> <<>>, pages |-> [p \in Pages(lines) |-> <<>>]]
        ELSE AddBookmark(lines, after[k - 1], k)
  IN after
PerPage(lines) == BookmarkLoop(lines)[Len(lines)].pages

\* Mutant: a page without a bookmark of its own has no heading.
HeadingsOwn(lines) == PerPage(lines)

\* The second loop: a bookmark stays in effect until the next one.
HeadingsByPage(lines) ==
  LET own == PerPage(lines) IN
  [p \in DOMAIN own |->
     LET before == {b \in 1..p : own[b] # <<>>}
     IN IF before = {} THEN <<>> ELSE own[CHOOSE b \in before : \A c \in before : c <= b]]

AddPdfLine(lines, s, i) ==
  LET page == PageOf(lines, i) IN
  IF lines[i].kind # "text" THEN s
  ELSE [s EXCEPT !.blocks = Append(@, Block(lines, i, HeadingsByPage(lines)[page], FALSE, page))]

AddTextLine(lines, s, i) ==
  IF lines[i] = Blank THEN s
  ELSE [s EXCEPT !.blocks = Append(@, Block(lines, i, <<>>, FALSE, 0))]

AddLine(suffix, lines, s, i) ==
  CASE suffix = "md" -> AddMarkdownLine(lines, s, i)
    [] suffix = "docx" -> AddDocxLine(lines, s, i)
    [] suffix = "pdf" -> AddPdfLine(lines, s, i)
    [] suffix = "txt" -> AddTextLine(lines, s, i)

\* extract_blocks.
Start == [blocks |-> <<>>, path |-> <<>>, fence |-> Blank, skip |-> FALSE]
LineLoop(suffix, lines) ==
  LET after[k \in 0..Len(lines)] ==
        IF k = 0 THEN Start ELSE AddLine(suffix, lines, after[k - 1], k)
  IN after
Extract(suffix, lines) == LineLoop(suffix, lines)[Len(lines)].blocks

-----------------------------------------------------------------------------

Init ==
  /\ format \in Formats
  /\ file = <<>>
  /\ blocks = <<>>
  /\ chunks = Chunk(<<>>)

Write(line) ==
  /\ Len(file) < MaxLines
  /\ file' = Append(file, line)
  /\ blocks' = Extract(format, file')
  /\ chunks' = Chunk(blocks')
  /\ UNCHANGED format

\* pypdf nests an entry below the one before it, or leaves it beside or above.
WriteBookmark(line) ==
  /\ format = "pdf"
  /\ \A i \in DOMAIN file : file[i].kind = "bookmark"
  /\ line.level <= IF file = <<>> THEN 1 ELSE Last(file).level + 1
  /\ Write(line)

Next ==
  \/ \E line \in Texts : Write(line)
  \/ format # "pdf" /\ Write(Blank)
  \/ format = "md" /\ \E line \in MarkdownLines : Write(line)
  \/ format = "docx" /\ \E line \in DocxLines : Write(line)
  \/ format = "pdf" /\ Write(NextPage)
  \/ \E line \in Bookmarks : WriteBookmark(line)

Spec == Init /\ [][Next]_vars

-----------------------------------------------------------------------------
(***************************************************************************)
(* Properties, of every file that can be written.                          *)
(***************************************************************************)

\* The fences that open a code block: those that no earlier one is still open at.
\* A block ends at as many of the same marks, or more.
Fences == {i \in DOMAIN file : format = "md" /\ file[i].kind = "fence"}
Ends(c, o) == c \in Fences /\ file[c].mark = file[o].mark /\ file[c].level \in file[o].level..4
IsOpenAt(o, i) == o < i /\ \A c \in (o + 1)..(i - 1) : ~Ends(c, o)
Openers == CHOOSE open \in SUBSET Fences :
             \A i \in Fences : i \in open <=> ~\E o \in open : IsOpenAt(o, i)
InCode(i) == \E o \in Openers : IsOpenAt(o, i) /\ ~Ends(i, o)

BlockLines == {blocks[k].line : k \in DOMAIN blocks}
HeadingLines == {blocks[k].line : k \in {j \in DOMAIN blocks : blocks[j].isHeading}}

\* Code is text: every line between two fences is a block, and none is a heading,
\* however many fences of the other kind or of fewer marks are in between.
CodeIsText ==
  \A i \in DOMAIN file : InCode(i) /\ file[i] # Blank =>
    i \in BlockLines \ HeadingLines

\* No text is lost or doubled on the way: the blocks are all the lines in order but
\* empty ones, fences, bookmarks and the underline of a heading.
NoLineIsLost ==
  LET underlines == {i \in DOMAIN file : /\ file[i].kind = "under" /\ i - 1 \in HeadingLines
                                         /\ file[i - 1].kind # "atx"}
      fences == {i \in Fences : ~InCode(i)}
      silent == {i \in DOMAIN file : file[i].kind \in {"blank", "page", "bookmark"}}
  IN /\ BlockLines = DOMAIN file \ (underlines \cup fences \cup silent)
     /\ \A k \in 2..Len(blocks) : blocks[k - 1].line < blocks[k].line

\* The outline: the headings of a text, or the bookmarks, with their levels.
Headings == IF format = "pdf" THEN Outline(file) ELSE HeadingLines
LevelOf(i) ==
  CASE format = "md" -> MarkdownLevel(file, i)
    [] format = "docx" -> DocxLevel(file[i])
    [] format = "pdf" -> file[i].level

\* The headings that enclose what follows heading h: h, and back from it the ones
\* that are above all that came after them.
Enclosing(h) ==
  {j \in Headings : j <= h /\ \A k \in Headings : j < k /\ k <= h => LevelOf(j) < LevelOf(k)}

\* The heading a block is under: the last one before it, or on a page the last
\* bookmark at or before it.  0 if there is none.
HeadingOf(b) ==
  LET above == IF format = "pdf" THEN {j \in Headings : file[j].mark <= b.page}
               ELSE {j \in Headings : j <= b.line}
      closest == {j \in above : \A k \in above : IF format = "pdf" /\ file[j].mark # file[k].mark
                                                THEN file[k].mark < file[j].mark ELSE k <= j}
  IN IF above = {} THEN 0 ELSE CHOOSE j \in closest : TRUE

\* Where no level is skipped, every block is under the headings that enclose it,
\* nested by their levels, whatever marks them: hashes, an underline, a style or a
\* bookmark some pages earlier.
SectionsFollowTheOutline ==
  (\A h \in Headings : Cardinality(Enclosing(h)) = LevelOf(h)) =>
    \A k \in DOMAIN blocks :
      LET h == HeadingOf(blocks[k])
          path == blocks[k].path
      IN /\ ToSet(path) = IF h = 0 THEN {} ELSE Enclosing(h)
         /\ \A i \in 2..Len(path) : path[i - 1] < path[i]
=============================================================================
