---------------------------- MODULE PipelineState ----------------------------
(***************************************************************************)
(* The state the document-processing pipeline of one document shares: the  *)
(* rows of the relational database (documents, document_files,             *)
(* document_jobs, chunks), the objects of the file storage, the BullMQ     *)
(* queues in Redis, and what each worker is doing.                         *)
(*                                                                         *)
(* The job queue is external code (BullMQ); it is modelled from how        *)
(* queue.module.ts and the @Processor decorators configure it: delivery is *)
(* at least once, a failed attempt is retried up to `attempts` times, a    *)
(* job whose worker lost its lock is delivered again at most               *)
(* maxStalledCount times, and every process runs one job per queue at a    *)
(* time.                                                                   *)
(***************************************************************************)
EXTENDS Naturals, Sequences

CONSTANTS
    Files,        \* file ids: the files clients may upload to the document
    FileText,     \* what parsing extracts from a file: "text", "blank" or "none"
    Batches,      \* batches of (up to 100) chunks that a text is cut into
    Procs,        \* processes: the API, which runs the workers too, and worker.ts
    Slots,        \* their workers <<p, q>>: process p runs one job of queue q
    NoSlot,       \* the owner of a job that no worker holds
    Attempts,     \* the attempts option of each queue
    MaxStalled,   \* maxStalledCount of the processors
    FaultKinds,   \* the faults considered: "throw", "crash", "timeout", "lock"
    FaultyProcs,  \* BOUND: the processes whose workers meet them
    MaxFaults     \* BOUND on the number of faults

Queues == {"parsing", "chunking", "embeddings"}
TextKinds == {"text", "blank", "none"}

ASSUME FileTextAssumption == FileText \in [Files -> TextKinds]
ASSUME BatchesAssumption  == Batches \in Nat \ {0}
ASSUME SlotsAssumption    == Slots \subseteq Procs \X Queues /\ NoSlot \notin Slots
ASSUME AttemptsAssumption == Attempts \in [Queues -> Nat \ {0}]
ASSUME BoundsAssumption   == MaxStalled \in Nat /\ MaxFaults \in Nat

VARIABLES
    doc,          \* documents.status, or "absent" when the row does not exist
    file,         \* document_files.status of each file, or "absent"
    blobs,        \* files whose object is in the storage
    jobs,         \* document_jobs rows, each with its BullMQ job, by creation
    chunks,       \* ids in the chunks table (one id stands for one batch)
    embedded,     \* those whose vector was written by the active model
    txns,         \* log of committed chunk replacements
    lateTx,       \* replacements still running after their worker gave up
    run,          \* what each worker slot is executing
    evaluation,   \* has the jurisdiction evaluation been queued?
    faults        \* faults so far

shared == <<doc, file, blobs, jobs, chunks, embedded, txns, lateTx, run,
            evaluation, faults>>

-----------------------------------------------------------------------------
(* Types. *)

RowStatus  == {"PENDING", "PROCESSING", "COMPLETED", "FAILED", "absent"}
QueueState == {"unqueued", "waiting", "active", "completed", "failed"}
ChunkIds   == (Nat \ {0}) \X (1 .. Batches)

Job == [queue  : Queues,
        file   : Files,
        chunks : SUBSET ChunkIds,           \* chunkIds of an embedding job
        row    : RowStatus,                 \* document_jobs.status
        state  : QueueState,                \* "unqueued": saved, not yet added
        tries  : Nat,                       \* attemptsMade
        stalls : Nat,                       \* stalledCounter
        owner  : Slots \cup {NoSlot}]       \* who holds the BullMQ lock

\* A row saved PENDING, whose job has been added to its queue or not yet.
NewJob(q, f, cs, state) ==
    [queue |-> q, file |-> f, chunks |-> cs, row |-> "PENDING",
     state |-> state, tries |-> 0, stalls |-> 0, owner |-> NoSlot]

Step == {"idle", "start", "text", "complete", "save", "ready", "publish",
         "evaluate", "replace", "create", "embed", "invalidate", "catch",
         "resolve"}

\* One execution of a processor's process(): where it stands and its locals.
Run == [pc    : Step,
        job   : Nat,                \* the delivered job (0 when idle)
        held  : SUBSET ChunkIds,    \* savedChunks, or chunksToEmbed not yet done
        files : SUBSET Files]       \* document.files as loaded with the document

IdleRun == [pc |-> "idle", job |-> 0, held |-> {}, files |-> {}]

Txn == [file : Files, job : Nat, late : BOOLEAN]

JobIds == 1 .. Len(jobs)

-----------------------------------------------------------------------------
(* Steps of a worker slot s.  An await that throws leads to the catch      *)
(* block of process(), which marks the job row FAILED and rethrows.        *)

JobOf(s) == jobs[run[s].job]
At(s, pc) == run[s].pc = pc

Goto(s, pc)    == run' = [run EXCEPT ![s].pc = pc]
Throws(s)      == Goto(s, "catch")

\* updateJobStatus: load the row and throw if it is gone, else save it.
RowExists(s)   == JobOf(s).row # "absent"
SetRow(s, st)  == jobs' = [jobs EXCEPT ![run[s].job].row = st]

\* The effect of a step that first reports progress: it throws when a
\* deletion removed the job row.
Progress(s, pc) ==
    IF RowExists(s)
    THEN SetRow(s, "PROCESSING") /\ Goto(s, pc)
    ELSE UNCHANGED jobs /\ Throws(s)

Complete(s, pc) ==
    IF RowExists(s)
    THEN SetRow(s, "COMPLETED") /\ Goto(s, pc)
    ELSE UNCHANGED jobs /\ Throws(s)

\* Report progress, save the row of a follow-up job and add it to its queue:
\* no other actor looks at the row before it is in the queue.
CreateJob(s, q, cs, pc) ==
    IF RowExists(s)
    THEN /\ jobs' = Append([jobs EXCEPT ![run[s].job].row = "PROCESSING"],
                           NewJob(q, JobOf(s).file, cs, "waiting"))
         /\ Goto(s, pc)
    ELSE UNCHANGED jobs /\ Throws(s)

-----------------------------------------------------------------------------
(* The queue around the processors. *)

\* A worker fetches a waiting job of its queue (backoff delays reorder them).
Deliver(s) ==
    /\ At(s, "idle")
    /\ \E j \in JobIds :
        /\ jobs[j].queue = s[2]
        /\ jobs[j].state = "waiting"
        /\ jobs' = [jobs EXCEPT ![j].state = "active", ![j].owner = s]
        /\ run' = [run EXCEPT ![s] = [IdleRun EXCEPT !.pc = "start", !.job = j]]
    /\ UNCHANGED <<doc, file, blobs, chunks, embedded, txns, lateTx,
                   evaluation, faults>>

\* process() returned: moveToCompleted, which a worker without the lock cannot.
Resolve(s) ==
    /\ At(s, "resolve")
    /\ jobs' = IF JobOf(s).owner = s
               THEN [jobs EXCEPT ![run[s].job].state = "completed",
                                 ![run[s].job].owner = NoSlot]
               ELSE jobs
    /\ run' = [run EXCEPT ![s] = IdleRun]
    /\ UNCHANGED <<doc, file, blobs, chunks, embedded, txns, lateTx,
                   evaluation, faults>>

\* Mutant: the attempts are not counted.
MutantRetryForever(js, j) ==
    [js EXCEPT ![j].state = "waiting", ![j].owner = NoSlot]

\* process() threw: moveToFailed retries until the attempts are used up.
RetryOrFail(js, j) ==
    [js EXCEPT ![j].tries = @ + 1,
               ![j].state = IF js[j].tries + 1 < Attempts[js[j].queue]
                            THEN "waiting" ELSE "failed",
               ![j].owner = NoSlot]

\* The catch block marks the row FAILED (this throws too when it is gone) and
\* rethrows to the queue, which a worker without the lock cannot tell.
Reject(s, js) ==
    /\ jobs' = IF JobOf(s).owner = s THEN RetryOrFail(js, run[s].job) ELSE js
    /\ run' = [run EXCEPT ![s] = IdleRun]
    /\ UNCHANGED <<doc, file, blobs, chunks, embedded, txns, lateTx, evaluation>>

CatchError(s) ==
    /\ At(s, "catch")
    /\ Reject(s, IF RowExists(s) THEN [jobs EXCEPT ![run[s].job].row = "FAILED"]
                 ELSE jobs)
    /\ UNCHANGED faults

\* The stalled check: an active job whose lock expired is moved back to
\* waiting, or failed once it stalled more than maxStalledCount times.
Stall(j) ==
    /\ jobs[j].state = "active"
    /\ jobs[j].owner = NoSlot
    /\ jobs' = [jobs EXCEPT ![j].stalls = @ + 1,
                            ![j].state = IF jobs[j].stalls + 1 > MaxStalled
                                         THEN "failed" ELSE "waiting"]
    /\ UNCHANGED <<doc, file, blobs, chunks, embedded, txns, lateTx, run,
                   evaluation, faults>>

-----------------------------------------------------------------------------
(* Faults, each counted against MaxFaults. *)

Fault(kind) ==
    /\ kind \in FaultKinds
    /\ faults < MaxFaults
    /\ faults' = faults + 1

WorkerFault(s, kind) == s[1] \in FaultyProcs /\ Fault(kind)

\* Any awaited call may throw instead of taking effect.
StepThrows(s) ==
    /\ run[s].pc \notin {"idle", "catch", "resolve"}
    /\ WorkerFault(s, "throw")
    /\ Throws(s)
    /\ UNCHANGED <<doc, file, blobs, jobs, chunks, embedded, txns, lateTx,
                   evaluation>>

\* In the catch block this leaves the row as it is.
CatchThrows(s) ==
    /\ At(s, "catch")
    /\ WorkerFault(s, "throw")
    /\ Reject(s, jobs)

\* queue.add() throws after the row of the follow-up job was saved.
AddThrows(s, q) ==
    /\ RowExists(s)
    /\ WorkerFault(s, "throw")
    /\ jobs' = Append([jobs EXCEPT ![run[s].job].row = "PROCESSING"],
                      NewJob(q, JobOf(s).file, run[s].held, "unqueued"))
    /\ Throws(s)
    /\ UNCHANGED <<doc, file, blobs, chunks, embedded, txns, lateTx, evaluation>>

\* A process dies: its runs end where they stand, its open transactions roll
\* back, and the locks of its jobs expire.
Crash(p) ==
    /\ \E s \in Slots : s[1] = p /\ run[s].pc # "idle"
    /\ p \in FaultyProcs /\ Fault("crash")
    /\ run' = [s \in Slots |-> IF s[1] = p THEN IdleRun ELSE run[s]]
    /\ jobs' = [j \in JobIds |->
                  [jobs[j] EXCEPT !.owner = IF @ \in {p} \X Queues THEN NoSlot ELSE @]]
    /\ lateTx' = {t \in lateTx : t[1] # p}
    /\ UNCHANGED <<doc, file, blobs, chunks, embedded, txns, evaluation>>

\* A worker that is still running fails to renew its lock in time (a blocked
\* event loop): the job can be delivered again while the run goes on.
LoseLock(j) ==
    /\ jobs[j].state = "active"
    /\ jobs[j].owner # NoSlot
    /\ WorkerFault(jobs[j].owner, "lock")
    /\ jobs' = [jobs EXCEPT ![j].owner = NoSlot]
    /\ UNCHANGED <<doc, file, blobs, chunks, embedded, txns, lateTx, run,
                   evaluation>>
=============================================================================
