------------------------- MODULE MCDocumentPipeline -------------------------
(***************************************************************************)
(* Instances of DocumentPipeline for TLC.  A run gives workers only to the *)
(* queues it is about; jobs of the other queues wait.                      *)
(***************************************************************************)
EXTENDS DocumentPipeline

CONSTANTS f1, f2, p1, p2

AllText  == [f \in Files |-> "text"]
TextNone == [f \in Files |-> IF f = f1 THEN "text" ELSE "none"]

TwoAttempts == [q \in Queues |-> 2]

\* Two processes that only parse: the race for the document's status.
ParsingSlots == Procs \X {"parsing"}

\* One process that parses, two that index.
IndexSlots ==
    {<<p1, "parsing">>} \cup {p1, p2} \X {"chunking", "embeddings"}

\* Two processes that chunk, one that embeds: a client reindexes meanwhile.
ReindexSlots ==
    {<<p1, "parsing">>, <<p1, "chunking">>, <<p2, "chunking">>, <<p2, "embeddings">>}

\* Parsing in a process of its own, which may crash.
SplitSlots == {<<p1, "chunking">>, <<p1, "embeddings">>, <<p2, "parsing">>}

\* One process that does everything: the API alone, as in development.
OneProcess == {p1} \X Queues
=============================================================================
