-------------------------- MODULE DocumentPipeline --------------------------
(***************************************************************************)
(* The whole pipeline of one document: clients, queues, the three workers  *)
(* of every API process, and the faults they meet.                         *)
(***************************************************************************)
EXTENDS ParsingWorker, IndexingWorkers, DocumentsService

vars == <<shared, client>>

\* DocumentsService.create: the row starts out PROCESSING, with nothing in it.
Init ==
    /\ doc = "PROCESSING"
    /\ file = [f \in Files |-> "absent"]
    /\ blobs = {} /\ chunks = {} /\ embedded = {}
    /\ jobs = <<>> /\ txns = <<>> /\ lateTx = {}
    /\ run = [s \in Slots |-> IdleRun]
    /\ evaluation = FALSE /\ faults = 0
    /\ ClientInit

WorkerStep(s) ==
    \/ ParsingStep(s) \/ ChunkingStep(s) \/ EmbeddingsStep(s)
    \/ CatchError(s) \/ Deliver(s) \/ Resolve(s)

Faulty ==
    \/ \E s \in Slots :
        \/ StepThrows(s) \/ CatchThrows(s) \/ ParseAddThrows(s)
        \/ ChunkAddThrows(s) \/ ChunkTimeout(s)
    \/ \E p \in Procs : Crash(p)
    \/ \E j \in JobIds : LoseLock(j)

WorkerNext ==
    \/ \E s \in Slots : WorkerStep(s)
    \/ \E t \in lateTx : LateCommit(t)
    \/ \E j \in JobIds : Stall(j)
    \/ Faulty

ClientNext ==
    \/ \E f \in Files : UploadFile(f) \/ DeleteFile(f)
    \/ ReindexChunks
    \/ DeleteDocument

Next ==
    \/ WorkerNext /\ UNCHANGED client
    \/ ClientNext
    \/ ClientStops

Spec == Init /\ [][Next]_vars

(* The processes keep running, the stalled check is periodic, an open      *)
(* transaction ends, and a handler in progress goes on.                    *)
Fairness ==
    /\ \A s \in Slots : WF_vars(WorkerStep(s) /\ UNCHANGED client)
    /\ WF_vars((\E j \in JobIds : Stall(j)) /\ UNCHANGED client)
    /\ WF_vars((\E t \in lateTx : LateCommit(t)) /\ UNCHANGED client)
    /\ \A f \in Files : WF_vars(UploadSaveFile(f) \/ UploadSaveJob(f))
    /\ \A f \in Files : WF_vars(DeleteFileJobs(f) \/ DeleteFileRow(f))
    /\ WF_vars(ReindexDelete \/ ReindexCreate \/ ReindexReturn)

LiveSpec == Spec /\ Fairness

-----------------------------------------------------------------------------
(* The types of the variables. *)
TypeOK ==
    /\ doc \in {"absent", "PROCESSING", "AVAILABLE"}
    /\ file \in [Files -> {"absent", "PROCESSING", "AVAILABLE"}]
    /\ blobs \subseteq Files
    /\ jobs \in Seq(Job)
    /\ chunks \in SUBSET ChunkIds
    /\ embedded \in SUBSET chunks
    /\ txns \in Seq(Txn)
    /\ lateTx \in SUBSET (Procs \X JobIds)
    /\ run \in [Slots -> Run]
    /\ evaluation \in BOOLEAN
    /\ faults \in 0 .. MaxFaults
    /\ ClientTypeOK

\* The text of a file was added to the chunking queue, by whatever attempt.
Sent(f) ==
    \E j \in JobIds : /\ jobs[j].queue = "chunking"
                      /\ jobs[j].file = f
                      /\ jobs[j].state # "unqueued"

(* The parser hands a text over before it shows the file: a file that is    *)
(* AVAILABLE and has text was sent to the chunking queue, whatever attempt, *)
(* process or zombie marked it (parsing.processor.ts, steps 80 to 100).     *)
AvailableWasSentToChunking ==
    \A f \in Files :
        file[f] = "AVAILABLE" /\ FileText[f] # "none" => Sent(f)

(* No ready document is forgotten: when every file is AVAILABLE (and none   *)
(* was deleted: deleteFile does not recompute the status) the document is   *)
(* too, or some parsing job is not done yet, or ended as failed.  Two       *)
(* workers that each finish the last-but-one file must not both miss it.    *)
ReadinessPublished ==
    doc = "PROCESSING" /\ FilesReady /\ deletedFiles = {} =>
        \E j \in JobIds : jobs[j].queue = "parsing" /\ jobs[j].state # "completed"

(* Replacements do not leave parts of each other behind: a chunk without a  *)
(* vector belongs to the last committed replacement.  (A chunk with one may *)
(* be older: an embedding worker saved it after its deletion.)              *)
UnembeddedAreLatest ==
    \A c \in chunks \ embedded : c[1] = Len(txns)

(* An embedding job whose row reads COMPLETED left none of its chunks       *)
(* without a vector of the active model, even when another delivery of it,  *)
(* a replacement or a reindex worked on the same rows meanwhile.            *)
EmbeddedWhenCompleted ==
    \A j \in JobIds :
        jobs[j].queue = "embeddings" /\ jobs[j].row = "COMPLETED" =>
            jobs[j].chunks \cap chunks \subseteq embedded

(* A chunk that search cannot find yet is somebody's job: the chunking job  *)
(* that wrote it or an embedding job that names it is still going to run,   *)
(* or ended as failed.  Not so after a replacement that committed behind a  *)
(* timeout, or a chunking job that two workers ran.                         *)
UnembeddedHasOwner ==
    \A c \in chunks \ embedded :
        LET t == txns[c[1]]
        IN  \/ t.late
            \/ jobs[t.job].stalls > 0
            \/ \E j \in JobIds : /\ j = t.job \/ c \in jobs[j].chunks
                                 /\ jobs[j].state # "completed"

(* What the client reads agrees with what the queue did: a job the queue    *)
(* completed in one delivery has a COMPLETED row, or none any more.         *)
RowAgreesWithQueue ==
    \A j \in JobIds :
        jobs[j].state = "completed" /\ jobs[j].stalls = 0 =>
            jobs[j].row \in {"COMPLETED", "absent"}

(* What is not searchable yet is somebody's, and what its row says of a job *)
(* is what became of it.                                                    *)
NoWorkIsLost == UnembeddedHasOwner /\ RowAgreesWithQueue

(* The chunks table keeps the promises of ChunkIndex.                       *)
Index == INSTANCE ChunkIndex WITH replaced <- Len(txns)
IndexSpec == Index!Spec

-----------------------------------------------------------------------------
(* What the proofs need besides: how work in hand relates to the tables. *)

\* A worker that is not idle runs a job of its own queue.
RunsKnownJob(s, r) ==
    r.pc # "idle" => r.job \in JobIds /\ jobs[r.job].queue = s[2]

RunJobs == \A s \in Slots : RunsKnownJob(s, run[s])

\* Every chunk id in a table, a job or a worker's memory was once written.
Written == (1 .. Len(txns)) \X (1 .. Batches)

ChunksWritten ==
    /\ chunks \subseteq Written
    /\ \A j \in JobIds : jobs[j].chunks \subseteq Written
    /\ \A s \in Slots : run[s].held \subseteq Written

\* An embedding worker holds whatever its job still lacks a vector for.
Unembedded(cs) == (cs \cap chunks) \ embedded

EmbedsTheRest ==
    \A s \in Slots :
        s[2] = "embeddings" =>
            /\ At(s, "embed") => Unembedded(JobOf(s).chunks) \subseteq run[s].held
            /\ At(s, "complete") => Unembedded(JobOf(s).chunks) = {}

\* A parsing worker past step 80 has sent its text to the chunking queue.
ParsedIsSent ==
    \A s \in Slots :
        s[2] = "parsing" /\ run[s].pc \in {"complete", "save"} /\ FileText[PFile(s)] # "none" =>
            Sent(PFile(s))

(* What a worker holds in memory stays good enough for what it will write,  *)
(* whatever the other workers, zombies and clients did to the rows since it *)
(* loaded them: with TypeOK, the invariant the proofs rest on.              *)
WorkInHand == RunJobs /\ ChunksWritten /\ EmbedsTheRest /\ ParsedIsSent

-----------------------------------------------------------------------------
(* Liveness. *)

Quiet ==
    /\ \A s \in Slots : At(s, "idle")
    /\ \A j \in JobIds : jobs[j].state \notin {"waiting", "active"}

(* The pipeline comes to rest: retries, stalled jobs and follow-up jobs end.*)
WorkSettles == <>[]Quiet

(* A document that became AVAILABLE gets its jurisdiction evaluated, even   *)
(* if the worker dies between the two, unless a parsing job failed for good *)
(* or a file was deleted: the retry queues it only while a file is ready.   *)
AvailableIsEvaluated ==
    doc = "AVAILABLE" ~>
        \/ evaluation
        \/ deletedFiles # {}
        \/ \E j \in JobIds : jobs[j].queue = "parsing" /\ jobs[j].state = "failed"

(* A file whose upload returned does not stay PROCESSING, unless its        *)
(* parsing job failed for good (no code sets a file's status to ERROR).     *)
UploadedBecomesAvailable ==
    \A f \in Files :
        upload[f] = "done" /\ file[f] = "PROCESSING" ~>
            \/ file[f] # "PROCESSING"
            \/ \E j \in JobIds : jobs[j].file = f /\ jobs[j].state = "failed"

(* A file gets ready and a ready document is evaluated, whatever is retried *)
(* in between.                                                              *)
UploadsGetThrough == UploadedBecomesAvailable /\ AvailableIsEvaluated

-----------------------------------------------------------------------------
(* Stated by the repository, and not so. *)

(* document-job-lock.ts: the lock eliminates the race in which the chunks   *)
(* of one job overwrite those of another.  Then, when all is done and       *)
(* nothing failed, every file with text has chunks to be found.             *)
EveryFileIsIndexed ==
    Quiet /\ faults = 0 /\ deletedFiles = {} =>
        \A f \in Files :
            file[f] = "AVAILABLE" /\ FileText[f] = "text" =>
                \E c \in chunks : txns[c[1]].file = f

(* document-deletion.orchestrator.ts: deletes "a document and all           *)
(* associated data".  Then no object of it stays in the storage once the    *)
(* deletion returned and no upload is under way.                            *)
DeletionLeavesNoObject ==
    /\ removal.pc = "done"
    /\ \A f \in Files : upload[f] \in {"none", "done", "stopped"}
    => blobs = {}
=============================================================================
