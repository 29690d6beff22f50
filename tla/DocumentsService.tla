-------------------------- MODULE DocumentsService --------------------------
(***************************************************************************)
(* What clients do to the document through the API while the workers run:  *)
(* upload a file, delete a file, reindex the document, delete the          *)
(* document.  Each handler is a sequence of awaits with no lock and no     *)
(* transaction around it; a handler that stops half way leaves what it did.*)
(***************************************************************************)
EXTENDS PipelineState

CONSTANTS
    Deletable,      \* files that clients may delete
    DocDeletable,   \* may clients delete the document?
    MaxReindex      \* BOUND on reindex requests

ASSUME DeletableAssumption == Deletable \subseteq Files /\ DocDeletable \in BOOLEAN
ASSUME ReindexAssumption == MaxReindex \in Nat

VARIABLES
    upload,         \* progress of uploadFile, per file
    deletion,       \* progress of deleteFile, per file
    deletedFiles,   \* files that some deleteFile has started to remove
    reindex,        \* the reindexChunks handler
    removal         \* the DocumentDeletionOrchestrator

client == <<upload, deletion, deletedFiles, reindex, removal>>

UploadStep   == {"none", "blob", "file", "done", "stopped"}
DeletionStep == {"no", "jobs", "row"}
Reindex == [pc : {"idle", "delete", "create"}, todo : SUBSET Files,
            count : 0 .. MaxReindex]
Removal == [pc : {"idle", "chunks", "blobs", "remove", "done"}, files : SUBSET Files]

ClientTypeOK ==
    /\ upload \in [Files -> UploadStep]
    /\ deletion \in [Files -> DeletionStep]
    /\ deletedFiles \subseteq Files
    /\ reindex \in Reindex
    /\ removal \in Removal

ClientInit ==
    /\ upload = [f \in Files |-> "none"]
    /\ deletion = [f \in Files |-> "no"]
    /\ deletedFiles = {}
    /\ reindex = [pc |-> "idle", todo |-> {}, count |-> 0]
    /\ removal = [pc |-> "idle", files |-> {}]

DbRest == <<run, lateTx, txns, evaluation>>

\* storageService.deleteFile for each of them: some may throw, and are logged.
DeleteObjects(fs) ==
    \/ blobs' = blobs \ fs /\ UNCHANGED faults
    \/ /\ Fault("throw")
       /\ \E kept \in (SUBSET fs) \ {{}} : blobs' = (blobs \ fs) \cup (blobs \cap kept)

-----------------------------------------------------------------------------
(* uploadFile and createJob. *)

UploadAt(f, old, new) ==
    /\ upload[f] = old
    /\ upload' = [upload EXCEPT ![f] = new]
    /\ UNCHANGED <<deletion, deletedFiles, reindex, removal>>

\* findById, then store the object.
UploadBlob(f) ==
    /\ doc # "absent"
    /\ UploadAt(f, "none", "blob")
    /\ blobs' = blobs \cup {f}
    /\ UNCHANGED <<doc, file, jobs, chunks, embedded, faults, DbRest>>

\* Save the file row; the foreign key fails when the document is gone.
UploadSaveFile(f) ==
    /\ UploadAt(f, "blob", IF doc = "absent" THEN "stopped" ELSE "file")
    /\ file' = IF doc = "absent" THEN file ELSE [file EXCEPT ![f] = "PROCESSING"]
    /\ UNCHANGED <<doc, blobs, jobs, chunks, embedded, faults, DbRest>>

\* createJob: save the job row and add it to the queue.
UploadSaveJob(f) ==
    /\ UploadAt(f, "file", IF doc = "absent" THEN "stopped" ELSE "done")
    /\ jobs' = IF doc = "absent" THEN jobs
               ELSE Append(jobs, NewJob("parsing", f, {}, "waiting"))
    /\ UNCHANGED <<doc, file, blobs, chunks, embedded, faults, DbRest>>

\* The handler throws or its process dies: nothing takes back what it did.
UploadStops(f) ==
    /\ upload[f] \in {"blob", "file"}
    /\ UploadAt(f, upload[f], "stopped")
    /\ Fault("throw")
    /\ jobs' \in {jobs} \cup
          IF upload[f] = "file" /\ doc # "absent"
          THEN {Append(jobs, NewJob("parsing", f, {}, "unqueued"))} ELSE {}
    /\ UNCHANGED <<doc, file, blobs, chunks, embedded, DbRest>>

-----------------------------------------------------------------------------
(* deleteFile. *)

DeleteAt(f, old, new) ==
    /\ deletion[f] = old
    /\ deletion' = [deletion EXCEPT ![f] = new]
    /\ UNCHANGED <<upload, reindex, removal>>

\* Check document and file, then delete the object; a failure to is ignored.
DeleteFileBlob(f) ==
    /\ f \in Deletable /\ doc # "absent" /\ file[f] # "absent"
    /\ DeleteAt(f, "no", "jobs")
    /\ deletedFiles' = deletedFiles \cup {f}
    /\ DeleteObjects({f})
    /\ UNCHANGED <<doc, file, jobs, chunks, embedded, DbRest>>

\* Delete the job rows whose metadata name the file (embedding jobs do not).
\* A worker that loaded its row for updateJobStatus and has not saved it yet
\* inserts it again: its job keeps its row.
Reporting ==
    {run[s].job : s \in {t \in Slots :
        run[t].pc \in {"start", "text", "create", "complete", "catch"}}}

DeleteFileJobs(f) ==
    /\ DeleteAt(f, "jobs", "row")
    /\ \E kept \in SUBSET Reporting :
        jobs' = [j \in JobIds |->
                   IF jobs[j].file = f /\ jobs[j].queue # "embeddings" /\ j \notin kept
                   THEN [jobs[j] EXCEPT !.row = "absent"] ELSE jobs[j]]
    /\ UNCHANGED <<deletedFiles, doc, file, blobs, chunks, embedded, faults, DbRest>>

\* Remove the file row.  Its chunks stay.
DeleteFileRow(f) ==
    /\ DeleteAt(f, "row", "no")
    /\ file' = [file EXCEPT ![f] = "absent"]
    /\ UNCHANGED <<deletedFiles, doc, blobs, jobs, chunks, embedded, faults, DbRest>>

DeleteFileStops(f) ==
    /\ deletion[f] # "no"
    /\ DeleteAt(f, deletion[f], "no")
    /\ Fault("throw")
    /\ UNCHANGED <<deletedFiles, doc, file, blobs, jobs, chunks, embedded, DbRest>>

-----------------------------------------------------------------------------
(* reindexChunks. *)

ReindexRest == <<upload, deletion, deletedFiles, removal, doc, file, blobs, DbRest>>

\* Load the document with its files; files with text are worked on.
ReindexLoad ==
    /\ reindex.pc = "idle" /\ reindex.count < MaxReindex
    /\ doc # "absent"
    /\ LET withText == {f \in Files : file[f] = "AVAILABLE" /\ FileText[f] # "none"}
       IN  /\ withText # {}
           /\ reindex' = [reindex EXCEPT !.pc = "delete", !.todo = withText,
                                         !.count = @ + 1]
    /\ UNCHANGED <<jobs, chunks, embedded, faults, ReindexRest>>

\* Mutant: keep the chunks that have a vector.
MutantReindexDelete ==
    /\ reindex.pc = "delete"
    /\ chunks' = embedded /\ UNCHANGED embedded
    /\ reindex' = [reindex EXCEPT !.pc = "create"]
    /\ UNCHANGED <<jobs, faults, ReindexRest>>

\* deleteByDocumentId, outside the document lock.
ReindexDelete ==
    /\ reindex.pc = "delete"
    /\ chunks' = {} /\ embedded' = {}
    /\ reindex' = [reindex EXCEPT !.pc = "create"]
    /\ UNCHANGED <<jobs, faults, ReindexRest>>

\* Enqueue a chunking job for the next file; throws when the document is gone.
ReindexCreate ==
    /\ reindex.pc = "create"
    /\ \E f \in reindex.todo :
        IF doc = "absent"
        THEN reindex' = [reindex EXCEPT !.pc = "idle", !.todo = {}] /\ UNCHANGED jobs
        ELSE /\ jobs' = Append(jobs, NewJob("chunking", f, {}, "waiting"))
             /\ reindex' = [reindex EXCEPT !.todo = @ \ {f}]
    /\ UNCHANGED <<chunks, embedded, faults, ReindexRest>>

\* invalidateDocument, whose failure is ignored, then return.
ReindexReturn ==
    /\ reindex.pc = "create" /\ reindex.todo = {}
    /\ reindex' = [reindex EXCEPT !.pc = "idle"]
    /\ UNCHANGED <<jobs, chunks, embedded, faults, ReindexRest>>

ReindexStops ==
    /\ reindex.pc # "idle"
    /\ Fault("throw")
    /\ reindex' = [reindex EXCEPT !.pc = "idle", !.todo = {}]
    /\ jobs' \in {jobs} \cup
          IF reindex.pc = "create" /\ doc # "absent"
          THEN {Append(jobs, NewJob("chunking", f, {}, "unqueued")) : f \in reindex.todo}
          ELSE {}
    /\ UNCHANGED <<chunks, embedded, ReindexRest>>

-----------------------------------------------------------------------------
(* DocumentDeletionOrchestrator.deleteDocument. *)

RemovalRest == <<upload, deletion, deletedFiles, reindex, run, lateTx, txns, evaluation>>

\* Load the document with its files (and invalidate the cache).
RemovalLoad ==
    /\ DocDeletable /\ removal.pc = "idle" /\ doc # "absent"
    /\ removal' = [pc |-> "chunks", files |-> {f \in Files : file[f] # "absent"}]
    /\ UNCHANGED <<doc, file, blobs, jobs, chunks, embedded, faults, RemovalRest>>

\* Delete the chunks (and the memories).
RemovalChunks ==
    /\ removal.pc = "chunks"
    /\ removal' = [removal EXCEPT !.pc = "blobs"]
    /\ chunks' = {} /\ embedded' = {}
    /\ UNCHANGED <<doc, file, blobs, jobs, faults, RemovalRest>>

\* Delete the objects of the files it loaded, as far as the storage does.
RemovalBlobs ==
    /\ removal.pc = "blobs"
    /\ removal' = [removal EXCEPT !.pc = "remove"]
    /\ DeleteObjects(removal.files)
    /\ UNCHANGED <<doc, file, jobs, chunks, embedded, RemovalRest>>

\* Remove the document row; files, jobs and chunks cascade.
RemovalRow ==
    /\ removal.pc = "remove"
    /\ removal' = [pc |-> "done", files |-> {}]
    /\ doc' = "absent"
    /\ file' = [f \in Files |-> "absent"]
    /\ jobs' = [j \in JobIds |-> [jobs[j] EXCEPT !.row = "absent"]]
    /\ chunks' = {} /\ embedded' = {}
    /\ UNCHANGED <<blobs, faults, RemovalRest>>

RemovalStops ==
    /\ removal.pc \in {"chunks", "blobs", "remove"}
    /\ Fault("throw")
    /\ removal' = [pc |-> "idle", files |-> {}]
    /\ UNCHANGED <<doc, file, blobs, jobs, chunks, embedded, RemovalRest>>

-----------------------------------------------------------------------------
UploadFile(f) ==
    UploadBlob(f) \/ UploadSaveFile(f) \/ UploadSaveJob(f)
DeleteFile(f) == DeleteFileBlob(f) \/ DeleteFileJobs(f) \/ DeleteFileRow(f)
ReindexChunks ==
    ReindexLoad \/ ReindexDelete \/ ReindexCreate \/ ReindexReturn
DeleteDocument == RemovalLoad \/ RemovalChunks \/ RemovalBlobs \/ RemovalRow
ClientStops ==
    \/ \E f \in Files : UploadStops(f) \/ DeleteFileStops(f)
    \/ ReindexStops
    \/ RemovalStops
=============================================================================
