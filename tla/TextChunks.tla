------------------------------ MODULE TextChunks ------------------------------
(***************************************************************************)
(* How the text of a page becomes chunks (rag/chunking.service.ts), block  *)
(* by block as chunkByParagraph walks them, sentence by sentence, or at a  *)
(* fixed size.                                                             *)
(*                                                                         *)
(* The text is the environment's: each block that the Markdown lexer or    *)
(* the blank lines separate has a length and may be a heading.  A          *)
(* character is its block and its place in it; what the code puts between  *)
(* two blocks is a Gap.  Plain prose is a text without headings.           *)
(***************************************************************************)
EXTENDS Integers, Sequences

CONSTANTS
    ChunkSize,     \* CHUNK_SIZE
    ChunkOverlap,  \* CHUNK_OVERLAP
    MaxBlocks,     \* BOUND on the blocks of a text
    BlockLengths,  \* BOUND on their lengths
    Depths         \* BOUND on the depths of headings

ASSUME ChunkingAssumption ==
    /\ ChunkSize \in Nat /\ ChunkOverlap \in Nat /\ ChunkOverlap < ChunkSize
    /\ MaxBlocks \in Nat
    /\ BlockLengths \subseteq Nat \ {0}
    /\ Depths \subseteq Nat

VARIABLES
    strategy,        \* the workspace's chunkingStrategy
    headings,        \* headingStack
    cutIndex,        \* currentIndex
    gathered,        \* accumulatedText
    gatheredStart,   \* accumulatedStart
    gatheredLabel,   \* accumulatedClause and accumulatedHeading
    textChunks,      \* the chunks so far
    textEnded,       \* the chunks are returned
    textBlocks,      \* HISTORY: the blocks read, with the label that governs each
    tail             \* HISTORY: whether the last one followed the last full stop

gathering    == <<gathered, gatheredStart, gatheredLabel>>
chunkingVars == <<strategy, headings, cutIndex, gathering, textChunks, textEnded,
                  textBlocks, tail>>

\* semantic and agentic are cut as paragraph is (resolveStrategy).
Strategies == {"paragraph", "sentence", "fixed_size"}

Gap        == <<0, 0>>
Text(b, n) == [k \in 1 .. n |-> <<b, k>>]

\* trim() and slice(-CHUNK_OVERLAP)
Trimmed(t) ==
    LET kept == {i \in DOMAIN t : t[i] # Gap}
    IN IF kept = {} THEN <<>>
       ELSE SubSeq(t, CHOOSE i \in kept : \A j \in kept : i <= j,
                      CHOOSE i \in kept : \A j \in kept : j <= i)

Overlap(t) == SubSeq(t, IF Len(t) > ChunkOverlap THEN Len(t) - ChunkOverlap + 1 ELSE 1, Len(t))

\* What a chunk says of its place: the clause number and the heading path.
Label(stack) ==
    LET numbered == {i \in DOMAIN stack : stack[i].numbered}
    IN [clause |-> IF numbered = {} THEN 0
                   ELSE stack[CHOOSE i \in numbered : \A j \in numbered : j <= i].block,
        path   |-> [i \in DOMAIN stack |-> stack[i].block]]

NoLabel == Label(<<>>)

Piece(t, label, from, to) == [text |-> Trimmed(t), label |-> label, from |-> from, to |-> to]

-----------------------------------------------------------------------------
(* chunkByFixedSize *)

Stride == ChunkSize - ChunkOverlap

Pieces(n) == 1 .. (IF n <= ChunkSize THEN 1 ELSE 1 + (n - ChunkSize + Stride - 1) \div Stride)

Cuts(b, n, label, at) ==
    [i \in Pieces(n) |->
        LET from == (i - 1) * Stride
            to   == IF from + ChunkSize < n THEN from + ChunkSize ELSE n
        IN Piece(SubSeq(Text(b, n), from + 1, to), label, at + from, at + to)]

CutWhole(n) ==
    /\ strategy = "fixed_size" /\ ~textEnded
    /\ textBlocks' = <<[length |-> n, label |-> NoLabel]>>
    /\ textChunks' = Cuts(1, n, NoLabel, 0)
    /\ textEnded' = TRUE
    /\ UNCHANGED <<strategy, headings, cutIndex, gathering, tail>>

-----------------------------------------------------------------------------
(* chunkByParagraph *)

Block == Len(textBlocks) + 1

\* flush(): the text gathered so far becomes a chunk.
Flushed(to) ==
    IF Trimmed(gathered) = <<>> THEN textChunks
    ELSE Append(textChunks, Piece(gathered, gatheredLabel, gatheredStart, to))

Oversized(n) == 2 * n > 3 * ChunkSize
Exceeds(n)   == gathered # <<>> /\ Len(gathered) + n > ChunkSize

CutOversized(n, label) ==
    /\ Oversized(n)
    /\ textChunks' = Flushed(cutIndex) \o Cuts(Block, n, label, cutIndex)
    /\ gathered' = <<>>
    /\ gatheredStart' = cutIndex + n + 2
    /\ gatheredLabel' = label

\* flush() has emptied accumulatedText when its end is taken for the overlap.
StartNext(n, label) ==
    /\ ~Oversized(n) /\ Exceeds(n)
    /\ textChunks' = Flushed(cutIndex - n)
    /\ gathered' = Overlap(<<>>) \o <<Gap>> \o Text(Block, n)
    /\ gatheredStart' = cutIndex - ChunkOverlap
    /\ gatheredLabel' = label

\* Mutant: a chunk is labelled as its last block is.
MutantGather(n, label) ==
    /\ ~Oversized(n) /\ ~Exceeds(n)
    /\ gathered' = IF gathered = <<>> THEN Text(Block, n)
                   ELSE gathered \o <<Gap, Gap>> \o Text(Block, n)
    /\ gatheredLabel' = label
    /\ UNCHANGED <<gatheredStart, textChunks>>

Gather(n, label) ==
    /\ ~Oversized(n) /\ ~Exceeds(n)
    /\ gathered' = IF gathered = <<>> THEN Text(Block, n)
                   ELSE gathered \o <<Gap, Gap>> \o Text(Block, n)
    /\ gatheredLabel' = IF gathered = <<>> THEN label ELSE gatheredLabel
    /\ UNCHANGED <<gatheredStart, textChunks>>

Accumulate(n, label) ==
    /\ strategy = "paragraph" /\ ~textEnded /\ Len(textBlocks) < MaxBlocks
    /\ CutOversized(n, label) \/ StartNext(n, label) \/ Gather(n, label)
    /\ textBlocks' = Append(textBlocks, [length |-> n, label |-> label])
    /\ cutIndex' = cutIndex + n + 2
    /\ UNCHANGED <<strategy, textEnded, tail>>

\* A heading ends the sections as deep as itself, and deeper.
ReadHeading(n, depth, numbered) ==
    /\ headings' = Append(SelectSeq(headings, LAMBDA h : h.depth < depth),
                          [depth |-> depth, numbered |-> numbered, block |-> Block])
    /\ Accumulate(n, Label(headings'))

ReadBlock(n) == Accumulate(n, Label(headings)) /\ UNCHANGED headings

-----------------------------------------------------------------------------
(* chunkBySentences *)

ReadSentence(n) ==
    /\ strategy = "sentence" /\ ~textEnded /\ Len(textBlocks) < MaxBlocks
    /\ IF Len(gathered) + n > ChunkSize
       THEN /\ textChunks' = IF gathered = <<>> THEN textChunks
                             ELSE Append(textChunks, Piece(gathered, NoLabel, gatheredStart,
                                                           cutIndex - n))
            /\ gathered' = Overlap(gathered) \o <<Gap>> \o Text(Block, n)
            /\ gatheredStart' = cutIndex - ChunkOverlap
       ELSE /\ gathered' = gathered \o Text(Block, n)
            /\ UNCHANGED <<gatheredStart, textChunks>>
    /\ textBlocks' = Append(textBlocks, [length |-> n, label |-> NoLabel])
    /\ cutIndex' = cutIndex + n
    /\ UNCHANGED <<strategy, headings, gatheredLabel, textEnded, tail>>

\* The pattern of a sentence wants its full stop: what follows the last one is
\* not matched.  (A text with no full stop at all is read as one sentence.)
IgnoreTail(n) ==
    /\ strategy = "sentence" /\ ~textEnded /\ ~tail /\ textBlocks # <<>>
    /\ textBlocks' = Append(textBlocks, [length |-> n, label |-> NoLabel])
    /\ tail' = TRUE
    /\ textEnded' = TRUE
    /\ textChunks' = Flushed(cutIndex)
    /\ gathered' = <<>>
    /\ UNCHANGED <<strategy, headings, cutIndex, gatheredStart, gatheredLabel>>

\* The last chunk, of paragraphs or of sentences.
EndText ==
    /\ strategy # "fixed_size" /\ ~textEnded
    /\ textChunks' = Flushed(cutIndex)
    /\ gathered' = <<>>
    /\ textEnded' = TRUE
    /\ UNCHANGED <<strategy, headings, cutIndex, gatheredStart, gatheredLabel, textBlocks, tail>>

-----------------------------------------------------------------------------
ChunkingInit ==
    /\ strategy \in Strategies
    /\ headings = <<>> /\ cutIndex = 0
    /\ gathered = <<>> /\ gatheredStart = 0 /\ gatheredLabel = NoLabel
    /\ textChunks = <<>> /\ textEnded = FALSE
    /\ textBlocks = <<>> /\ tail = FALSE

ChunkingNext ==
    \/ \E n \in BlockLengths :
          \/ ReadBlock(n) \/ ReadSentence(n) \/ IgnoreTail(n) \/ CutWhole(n)
          \/ \E depth \in Depths, numbered \in BOOLEAN : ReadHeading(n, depth, numbered)
    \/ EndText

ChunkingSpec == ChunkingInit /\ [][ChunkingNext]_chunkingVars

-----------------------------------------------------------------------------
(* Properties. *)

ChunkingTypeOK ==
    /\ strategy \in Strategies
    /\ \A i \in DOMAIN headings :
          /\ headings[i].block \in DOMAIN textBlocks
          /\ \A j \in DOMAIN headings : i < j => headings[i].depth < headings[j].depth
    /\ cutIndex \in Nat /\ gatheredStart \in Int
    /\ Len(textBlocks) <= MaxBlocks + 1
    /\ textEnded \in BOOLEAN /\ tail \in BOOLEAN

Before(c, d) == c[1] < d[1] \/ (c[1] = d[1] /\ c[2] < d[2])

Characters == UNION {{<<b, k>> : k \in 1 .. textBlocks[b].length} : b \in DOMAIN textBlocks}

In(t) == {t[i] : i \in DOMAIN t} \ {Gap}

\* "so we never silently drop content" (chunkByParagraph): every character read
\* is in a chunk or gathered, each chunk ends after the one before it, and what it
\* holds is in the order of the text.  Not so for what follows the last full stop of a text that
\* is cut into sentences.
TextIsKept ==
    /\ Characters \ (In(gathered) \cup UNION {In(textChunks[i].text) : i \in DOMAIN textChunks})
          \subseteq IF tail THEN {c \in Characters : c[1] = Len(textBlocks)} ELSE {}
    /\ \A i \in 1 .. Len(textChunks) - 1 :
          LET t == textChunks[i].text
              u == textChunks[i + 1].text
          IN Before(t[Len(t)], u[Len(u)])
    /\ \A i \in DOMAIN textChunks :
          LET t == textChunks[i].text
          IN \A c, d \in DOMAIN t : c < d /\ Gap \notin {t[c], t[d]} => Before(t[c], t[d])

\* The clause number and the heading path that a citation of a chunk shows are
\* those of the section in which the chunk begins, whatever was flushed, cut or
\* gathered before it.
ChunkBeginsInItsClause ==
    \A i \in DOMAIN textChunks :
        textChunks[i].text # <<>> =>
            textChunks[i].label = textBlocks[textChunks[i].text[1][1]].label

\* A citation of a chunk shows text of the document under the clause it is from.
ChunksCiteTheText == TextIsKept /\ ChunkBeginsInItsClause

\* Why the second holds: so is what is gathered.
GatheredBeginsInItsClause ==
    Trimmed(gathered) # <<>> => gatheredLabel = textBlocks[Trimmed(gathered)[1][1]].label
=============================================================================
