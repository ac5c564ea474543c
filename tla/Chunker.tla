------------------------------- MODULE Chunker -------------------------------
(***************************************************************************)
(* SemanticChunker: a document's blocks become sections, thin sections are *)
(* merged into a neighbour, long ones are split into windows that overlap. *)
(*                                                                         *)
(* A word is <<block, position>>: what it says does not matter.  A section *)
(* is its heading path, its words, whether it has text of its own, and its *)
(* first and last page (0: none).  The blocks are what Extractors makes of *)
(* a document; its machine writes the documents.                           *)
(***************************************************************************)
EXTENDS Integers, Sequences, SequencesExt

CONSTANTS
  Target,     \* target_tokens
  Overlap,    \* overlap_tokens
  MinTokens   \* min_tokens

\* What __init__ refuses to do without.
ASSUME ChunkerAssumption ==
  /\ Target \in Nat \ {0} /\ Overlap \in Nat /\ Overlap < Target
  /\ MinTokens \in Nat /\ MinTokens < Target

VARIABLES
  blocks,   \* a sequence of [path, size, isHeading, page, line]
  chunks    \* what chunk returned for it

WordsOf(doc, i) == [j \in 1..doc[i].size |-> <<i, j>>]

-----------------------------------------------------------------------------

\* _sections: consecutive blocks with the same path; empty blocks do not count.
AddBlock(sections, b, words) ==
  IF words = <<>> THEN sections
  ELSE IF sections = <<>> \/ Last(sections).path # b.path
  THEN Append(sections, [path |-> b.path, words |-> words, body |-> ~b.isHeading,
                         from |-> b.page, to |-> b.page])
  ELSE Append(Front(sections), [Last(sections) EXCEPT
                                  !.words = @ \o words,
                                  !.body = @ \/ ~b.isHeading,
                                  !.to = IF b.page # 0 THEN b.page ELSE @])

SectionLoop(doc) ==
  LET after[k \in 0..Len(doc)] ==
        IF k = 0 THEN <<>> ELSE AddBlock(after[k - 1], doc[k], WordsOf(doc, k))
  IN after
HeadedSections(doc) == SectionLoop(doc)[Len(doc)]

\* common_heading_path.
CommonPath(p, q) == LongestCommonPrefix({p, q})

\* Mutant: the more specific of the two paths.
JoinedPathDeepest(first, second) ==
  IF Len(first.path) > Len(second.path) THEN first.path ELSE second.path

\* joined: a section without text of its own contributes only its heading.
JoinedPath(first, second) ==
  IF ~first.body THEN second.path
  ELSE IF ~second.body THEN first.path
  ELSE CommonPath(first.path, second.path)

\* Mutant: the pages stay those of the first section.
JoinedPages(first, second) ==
  [path |-> JoinedPath(first, second),
   words |-> first.words \o second.words,
   body |-> first.body \/ second.body,
   from |-> first.from,
   to |-> first.to]

\* joined.
Joined(first, second) ==
  [path |-> JoinedPath(first, second),
   words |-> first.words \o second.words,
   body |-> first.body \/ second.body,
   from |-> first.from,
   to |-> IF second.to # 0 THEN second.to ELSE first.to]

IsThin(s) == ~s.body \/ Len(s.words) < MinTokens

Fits(first, second) == Len(first.words) + Len(second.words) <= Target

MergeNext(merged, s) ==
  IF merged # <<>> /\ IsThin(Last(merged)) /\ Fits(Last(merged), s)
  THEN Append(Front(merged), Joined(Last(merged), s))
  ELSE Append(merged, s)

\* Mutant: a last section of headings alone is the only one to be folded.
FoldHeadings(merged) ==
  IF Len(merged) > 1 /\ ~Last(merged).body /\ Fits(merged[Len(merged) - 1], Last(merged))
  THEN Append(Front(Front(merged)), Joined(merged[Len(merged) - 1], Last(merged)))
  ELSE merged

\* Mutant: and what it has been folded into is folded on.
FoldTailOn(merged) ==
  LET n == Len(merged) IN
  IF n > 2 /\ IsThin(Last(merged)) /\ Fits(merged[n - 2], Joined(merged[n - 1], merged[n]))
  THEN Append(SubSeq(merged, 1, n - 3),
              Joined(merged[n - 2], Joined(merged[n - 1], merged[n])))
  ELSE IF n > 1 /\ IsThin(Last(merged)) /\ Fits(merged[n - 1], Last(merged))
  THEN Append(SubSeq(merged, 1, n - 2), Joined(merged[n - 1], Last(merged)))
  ELSE merged

\* The last section has nothing after it, so it folds backwards.
FoldTail(merged) ==
  IF Len(merged) > 1 /\ IsThin(Last(merged)) /\ Fits(merged[Len(merged) - 1], Last(merged))
  THEN Append(Front(Front(merged)), Joined(merged[Len(merged) - 1], Last(merged)))
  ELSE merged

\* _merge_thin.
MergeLoop(sections) ==
  LET after[k \in 0..Len(sections)] ==
        IF k = 0 THEN <<>> ELSE MergeNext(after[k - 1], sections[k])
  IN after
Merged(sections) == MergeLoop(sections)[Len(sections)]
Sections(doc) == FoldTail(Merged(HeadedSections(doc)))

Window(s, start, end) == [s EXCEPT !.words = SubSeq(s.words, start + 1, end)]

\* _emit cuts a full window while one is left; the next starts Overlap words before
\* its end.
CutNext(s, c) ==
  IF Len(s.words) - c.start >= Target
  THEN [start |-> c.start + (Target - Overlap),
        cut |-> Append(c.cut, Window(s, c.start, c.start + Target))]
  ELSE c

\* The loop ends before it has turned as often as there are words.
CutLoop(s) ==
  LET after[k \in 0..Len(s.words)] ==
        IF k = 0 THEN [start |-> 0, cut |-> <<>>] ELSE CutNext(s, after[k - 1])
  IN after
AllCut(s) == CutLoop(s)[Len(s.words)]

\* Mutant: the rest is dropped when there are full windows.
EmitFull(s) ==
  LET c == AllCut(s) IN
  IF c.cut = <<>> THEN Append(c.cut, Window(s, c.start, Len(s.words))) ELSE c.cut

\* _emit: the full windows, and what is left.
Emit(s) ==
  LET c == AllCut(s) IN
  IF c.start < Len(s.words) THEN Append(c.cut, Window(s, c.start, Len(s.words))) ELSE c.cut

\* chunk.
EmitLoop(sections) ==
  LET after[k \in 0..Len(sections)] ==
        IF k = 0 THEN <<>> ELSE after[k - 1] \o Emit(sections[k])
  IN after
Chunk(doc) == EmitLoop(Sections(doc))[Len(Sections(doc))]

-----------------------------------------------------------------------------
(***************************************************************************)
(* Properties, of every document that can be written.                      *)
(***************************************************************************)

Text(doc) ==
  LET after[k \in 0..Len(doc)] == IF k = 0 THEN <<>> ELSE after[k - 1] \o WordsOf(doc, k)
  IN after

\* Search misses no word and reads the document in order: the chunks are pieces of
\* it, no longer than the target, each of which starts after the one before and no
\* later than where that ends.
ChunksCoverTheDocument ==
  LET text == Text(blocks)[Len(blocks)]
      At(word) == CHOOSE i \in DOMAIN text : text[i] = word
      from == [k \in DOMAIN chunks |-> At(Head(chunks[k].words))]
      upto == [k \in DOMAIN chunks |-> At(Last(chunks[k].words))]
  IN /\ \A k \in DOMAIN chunks :
          /\ Len(chunks[k].words) \in 1..Target
          /\ chunks[k].words = SubSeq(text, from[k], upto[k])
          /\ k > 1 => from[k - 1] < from[k] /\ from[k] <= upto[k - 1] + 1
     /\ text # <<>> => from[1] = 1 /\ upto[Len(chunks)] = Len(text)

\* No chunk carries a heading that some of its text is not under, however many
\* sections have been merged into it.
HeadingsAreHonest ==
  \A k \in DOMAIN chunks : \A i \in DOMAIN chunks[k].words :
    LET b == blocks[chunks[k].words[i][1]] IN
    b.isHeading \/ IsPrefix(chunks[k].path, b.path)

\* A thin section is left alone only where merging it would not fit: with the next
\* one, or, at the end of the document, with the one before.
ThinOnlyWhereNothingFits ==
  LET ss == Sections(blocks)  n == Len(ss) IN
  \A k \in DOMAIN ss : IsThin(ss[k]) =>
    /\ k < n => ~Fits(ss[k], ss[k + 1])
    /\ k = n /\ k > 1 => ~Fits(ss[k - 1], ss[k])

\* A document that grows by blocks at its end is embedded again only there: a chunk
\* changes or goes only if it begins in the last section, although merging starts
\* over.  (Underlining the last line is no growth: it makes that line a heading.)
GrowthKeepsEarlierChunks ==
  [][IsPrefix(blocks, blocks') =>
     \A k \in DOMAIN chunks :
       k \notin DOMAIN chunks' \/ chunks'[k] # chunks[k] =>
         Head(chunks[k].words) \in ToSet(Last(Sections(blocks)).words)]_<<blocks, chunks>>

\* Section s is what chunk c was cut from: all of it, unless s is long enough to be cut,
\* and c names the page on which s begins and the one on which s ends.
CutFrom(doc, c, s) ==
  /\ ToSet(c.words) \subseteq ToSet(s.words)
  /\ c.words # s.words => Len(s.words) >= Target
  /\ c.from = doc[Head(s.words)[1]].page /\ c.to = doc[Last(s.words)[1]].page

\* The pages a result names are those of its first and its last word, however many
\* sections were merged into it.  Only a piece of a section of target_tokens or more
\* names the pages of all of that section, also those that none of its words is on.
PagesAreTheSections ==
  \A k \in DOMAIN chunks : \E s \in ToSet(Sections(blocks)) : CutFrom(blocks, chunks[k], s)
=============================================================================
