----------------------------- MODULE ChunkIndex -----------------------------
(***************************************************************************)
(* What the chunks table of one document promises to those who search it,  *)
(* whatever jobs, processes and clients work on it: its content changes    *)
(* only by the replacement of everything by one fresh set without vectors, *)
(* by the removal of everything, or by the (re)appearance of one batch     *)
(* together with its vectors.                                              *)
(***************************************************************************)
EXTENDS Naturals

CONSTANT Batches      \* batches of chunks per replacement

VARIABLES
    chunks,           \* ids present: <<number of the replacement, batch>>
    embedded,         \* those with a vector of the active model
    replaced          \* replacements so far

index == <<chunks, embedded, replaced>>

Init == chunks = {} /\ embedded = {} /\ replaced = 0

Replace ==
    /\ replaced' = replaced + 1
    /\ chunks' = {replaced + 1} \X (1 .. Batches)
    /\ embedded' = {}

Clear == chunks' = {} /\ embedded' = {} /\ UNCHANGED replaced

Embed(c) ==
    /\ chunks' = chunks \cup {c}
    /\ embedded' = embedded \cup {c}
    /\ UNCHANGED replaced

Next ==
    \/ Replace
    \/ Clear
    \/ \E c \in (1 .. replaced) \X (1 .. Batches) : Embed(c)

Spec == Init /\ [][Next]_index
=============================================================================
