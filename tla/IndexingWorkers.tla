--------------------------- MODULE IndexingWorkers ---------------------------
(***************************************************************************)
(* ChunkingProcessor.process: cut a text into chunks, replace the chunks of *)
(* the whole document by them inside one transaction that locks the        *)
(* document row, and enqueue their embedding; the wait for the transaction *)
(* is cut off by a timeout or an abort signal, the transaction is not.  And *)
(* EmbeddingsProcessor.process: load the chunks a job names, have the active *)
(* model embed those without a vector batch by batch, and save each batch; *)
(* nothing there locks the document, and a save() of TypeORM inserts a chunk *)
(* that was deleted since it was loaded.                                   *)
(***************************************************************************)
EXTENDS PipelineState

CSlot(s) == s[2] = "chunking"
ChunkingRest == <<doc, file, blobs, evaluation>>

\* updateJobStatus(10), reject a blank text, chunkText, updateJobStatus(50).
ChunkStart(s) ==
    /\ CSlot(s) /\ At(s, "start")
    /\ Progress(s, IF FileText[JobOf(s).file] = "blank" THEN "catch" ELSE "replace")
    /\ UNCHANGED <<chunks, embedded, txns, lateTx, faults, ChunkingRest>>

NewChunks == {Len(txns) + 1} \X (1 .. Batches)

\* Mutant: insert without deleting what is there.
MutantReplaceChunks(j, late) ==
    /\ chunks' = chunks \cup NewChunks
    /\ UNCHANGED embedded
    /\ txns' = Append(txns, [file |-> jobs[j].file, job |-> j, late |-> late])

\* The replacement: delete every chunk of the document, insert the new ones
\* with fresh ids and no vector.
ReplaceChunks(j, late) ==
    /\ chunks' = NewChunks
    /\ embedded' = {}
    /\ txns' = Append(txns, [file |-> jobs[j].file, job |-> j, late |-> late])

ChunkReplace(s) ==
    /\ CSlot(s) /\ At(s, "replace")
    /\ IF doc = "absent"
       THEN Throws(s) /\ UNCHANGED <<chunks, embedded, txns>>
       ELSE /\ ReplaceChunks(run[s].job, FALSE)
            /\ run' = [run EXCEPT ![s].pc = "create", ![s].held = NewChunks]
    /\ UNCHANGED <<jobs, lateTx, faults, ChunkingRest>>

\* The worker stops waiting (60 s timeout or abort) and fails the attempt.
ChunkTimeout(s) ==
    /\ CSlot(s) /\ At(s, "replace")
    /\ WorkerFault(s, "timeout")
    /\ lateTx' = lateTx \cup {<<s[1], run[s].job>>}
    /\ Throws(s)
    /\ UNCHANGED <<jobs, chunks, embedded, txns, ChunkingRest>>

\* The transaction nobody waits for any more commits, or finds no document.
LateCommit(t) ==
    /\ t \in lateTx
    /\ lateTx' = lateTx \ {t}
    /\ IF doc = "absent"
       THEN UNCHANGED <<chunks, embedded, txns>>
       ELSE ReplaceChunks(t[2], TRUE)
    /\ UNCHANGED <<jobs, run, faults, ChunkingRest>>

\* Mutant: a retry takes the embedding job for enqueued already.
MutantChunkCreate(s) ==
    /\ CSlot(s) /\ At(s, "create")
    /\ IF JobOf(s).tries > 0
       THEN Progress(s, "complete")
       ELSE CreateJob(s, "embeddings", run[s].held, "complete")
    /\ UNCHANGED <<chunks, embedded, txns, lateTx, faults, ChunkingRest>>

\* updateJobStatus(70, 80), then enqueue the embedding of the saved chunks.
ChunkCreate(s) ==
    /\ CSlot(s) /\ At(s, "create")
    /\ CreateJob(s, "embeddings", run[s].held, "complete")
    /\ UNCHANGED <<chunks, embedded, txns, lateTx, faults, ChunkingRest>>

ChunkAddThrows(s) ==
    /\ CSlot(s) /\ At(s, "create")
    /\ AddThrows(s, "embeddings")

ChunkComplete(s) ==
    /\ CSlot(s) /\ At(s, "complete")
    /\ Complete(s, "resolve")
    /\ UNCHANGED <<chunks, embedded, txns, lateTx, faults, ChunkingRest>>

ChunkingStep(s) ==
    ChunkStart(s) \/ ChunkReplace(s) \/ ChunkCreate(s) \/ ChunkComplete(s)

-----------------------------------------------------------------------------
ESlot(s) == s[2] = "embeddings"
EmbeddingRest == <<doc, file, blobs, txns, lateTx, evaluation, faults>>

\* updateJobStatus(0), findByIds, and the filter on needsReembed; it is an
\* error to find no chunk at all.
EmbedFind(s) ==
    /\ ESlot(s) /\ At(s, "start")
    /\ LET found == JobOf(s).chunks \cap chunks
           toDo  == found \ embedded
       IN  IF ~RowExists(s)
           THEN Throws(s) /\ UNCHANGED jobs
           ELSE /\ SetRow(s, "PROCESSING")
                /\ run' = [run EXCEPT ![s].pc = IF found = {} THEN "catch"
                                               ELSE IF toDo = {} THEN "complete"
                                               ELSE "embed",
                                      ![s].held = toDo]
    /\ UNCHANGED <<chunks, embedded, EmbeddingRest>>

\* Mutants: update the rows without inserting those that are gone; leave the
\* loop after its first turn.
MutantEmbedUpdate(s) ==
    /\ ESlot(s) /\ At(s, "embed") /\ RowExists(s) /\ doc # "absent"
    /\ embedded' = embedded \cup run[s].held
    /\ Goto(s, "complete")
    /\ SetRow(s, "PROCESSING")
    /\ UNCHANGED <<chunks, EmbeddingRest>>

MutantEmbedOneBatch(s) ==
    /\ ESlot(s) /\ At(s, "embed") /\ RowExists(s) /\ doc # "absent"
    /\ \E c \in run[s].held :
        /\ chunks' = chunks \cup {c}
        /\ embedded' = embedded \cup {c}
    /\ Goto(s, "complete")
    /\ SetRow(s, "PROCESSING")
    /\ UNCHANGED EmbeddingRest

\* One turn of the loop: report progress, embed the first remaining batch,
\* save it (insert or update; the foreign key fails without the document).
EmbedBatch(s) ==
    /\ ESlot(s) /\ At(s, "embed")
    /\ IF ~RowExists(s) \/ doc = "absent"
       THEN Throws(s) /\ UNCHANGED <<jobs, chunks, embedded>>
       ELSE \E c \in run[s].held :
              /\ \A d \in run[s].held : c[2] <= d[2]
              /\ chunks' = chunks \cup {c}
              /\ embedded' = embedded \cup {c}
              /\ run' = [run EXCEPT
                           ![s].pc = IF run[s].held = {c} THEN "complete" ELSE "embed",
                           ![s].held = @ \ {c}]
              /\ SetRow(s, "PROCESSING")
    /\ UNCHANGED EmbeddingRest

EmbedComplete(s) ==
    /\ ESlot(s) /\ At(s, "complete")
    /\ Complete(s, "invalidate")
    /\ UNCHANGED <<chunks, embedded, EmbeddingRest>>

\* ragCacheService.invalidateDocument (the cache is modelled by RagCache).
EmbedInvalidate(s) ==
    /\ ESlot(s) /\ At(s, "invalidate")
    /\ Goto(s, "resolve")
    /\ UNCHANGED <<jobs, chunks, embedded, EmbeddingRest>>

EmbeddingsStep(s) ==
    EmbedFind(s) \/ EmbedBatch(s) \/ EmbedComplete(s) \/ EmbedInvalidate(s)
=============================================================================
