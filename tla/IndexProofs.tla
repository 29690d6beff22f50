---------------------------- MODULE IndexProofs -----------------------------
(***************************************************************************)
(* Proofs about the chunks: the table (UnembeddedAreLatest, the refinement *)
(* of ChunkIndex, EmbeddedWhenCompleted) from what every step of the       *)
(* pipeline may do to a worker (NextMoves) and to the table (NextIndex);   *)
(* that a file is AVAILABLE only after its text was sent to the chunking   *)
(* queue; that a chunk without a vector is somebody's job; and what text   *)
(* the chunks hold.                                                        *)
(***************************************************************************)
EXTENDS PipelineProofs, TextChunks, WellFoundedInduction

\* The four ways the chunks table and the log of replacements may change.
IndexMoves ==
    \/ UNCHANGED <<chunks, embedded, txns>>
    \/ chunks' = {} /\ embedded' = {} /\ UNCHANGED txns
    \/ /\ chunks' = NewChunks
       /\ embedded' = {}
       /\ \E t \in Txn : txns' = Append(txns, t)
    \/ /\ \E s \in Slots : \E c \in run[s].held :
            chunks' = chunks \cup {c} /\ embedded' = embedded \cup {c}
       /\ UNCHANGED txns

\* A committed replacement is the third kind of change of the index.
LEMMA ReplaceMoves ==
    ASSUME jobs \in Seq(Job), NEW j \in JobIds, NEW late \in BOOLEAN, ReplaceChunks(j, late)
    PROVE  IndexMoves
  <1>1. jobs[j] \in Job /\ j \in Nat
    BY LenProperties, JobsInSeq DEF JobIds
  <1>2. [file |-> jobs[j].file, job |-> j, late |-> late] \in Txn
    BY <1>1 DEF Job, Txn
  <1> QED BY <1>2 DEF ReplaceChunks, IndexMoves

\* Every step of the pipeline changes the index in one of the four ways.
LEMMA NextIndex ==
    ASSUME TypeOK, RunJobs, [Next]_vars
    PROVE  IndexMoves
  <1> USE DEF TypeOK
  <1>1. ASSUME UNCHANGED <<chunks, embedded, txns>> PROVE IndexMoves
    BY <1>1 DEF IndexMoves
  <1>2. ASSUME NEW s \in Slots, WorkerStep(s) PROVE IndexMoves
    <2>1. CASE ChunkReplace(s)
      <3>1. run[s].job \in JobIds
        BY <2>1 DEF ChunkReplace, At, RunJobs, RunsKnownJob
      <3> QED BY <1>1, <2>1, <3>1, ReplaceMoves DEF ChunkReplace
    <2>2. CASE EmbedBatch(s)
      BY <1>1, <2>2 DEF EmbedBatch, EmbeddingRest, IndexMoves
    <2> QED BY <1>1, <1>2, <2>1, <2>2 DEF WorkerStep, ParsingStep, ParseStart, ParseText, ParseComplete,
         ParseSave, ParseReady, ParsePublish, ParseEvaluate, ParsingRest, ChunkingStep, ChunkStart,
         ChunkCreate, ChunkComplete, EmbeddingsStep, EmbedFind, EmbedComplete, EmbedInvalidate,
         EmbeddingRest, CatchError, Reject, Deliver, Resolve
  <1>3. ASSUME NEW t \in lateTx, LateCommit(t) PROVE IndexMoves
    BY <1>1, <1>3, ReplaceMoves DEF LateCommit
  <1>4. ASSUME Faulty \/ \E j \in JobIds : Stall(j) PROVE IndexMoves
    BY <1>1, <1>4 DEF Faulty, StepThrows, CatchThrows, ParseAddThrows, ChunkAddThrows, AddThrows,
                ChunkTimeout, Crash, LoseLock, Reject, Stall
  <1>5. ASSUME ClientNext \/ ClientStops PROVE IndexMoves
    <2>1. UNCHANGED txns
      BY <1>5, ClientTypes DEF DbRest
    <2>2. UNCHANGED <<chunks, embedded>> \/ (chunks' = {} /\ embedded' = {})
      BY <1>5 DEF ClientNext, ClientStops, UploadFile, UploadBlob, UploadSaveFile, UploadSaveJob,
         UploadStops, DeleteFile, DeleteFileBlob, DeleteFileJobs, DeleteFileRow, DeleteFileStops,
         ReindexChunks, ReindexLoad, ReindexDelete, ReindexCreate, ReindexReturn, ReindexStops,
         DeleteDocument, RemovalLoad, RemovalChunks, RemovalBlobs, RemovalRow, RemovalStops
    <2> QED BY <2>1, <2>2 DEF IndexMoves
  <1>6. ASSUME UNCHANGED vars PROVE IndexMoves
    BY <1>1, <1>6 DEF vars, shared
  <1> QED BY <1>2, <1>3, <1>4, <1>5, <1>6 DEF Next, WorkerNext

(* Chunks without a vector are those of the last replacement, for every     *)
(* instance: replaceChunks of chunking.processor.ts deletes what it did not *)
(* write, and embeddings.processor.ts brings rows back only with a vector.  *)
THEOREM UnembeddedLatest == Spec => []UnembeddedAreLatest
  <1>1. Init => UnembeddedAreLatest
    BY DEF Init, UnembeddedAreLatest
  <1>2. TypeOK /\ RunJobs /\ UnembeddedAreLatest /\ [Next]_vars => UnembeddedAreLatest'
    <2> SUFFICES ASSUME TypeOK, RunJobs, UnembeddedAreLatest, [Next]_vars
                 PROVE  UnembeddedAreLatest'
      OBVIOUS
    <2>1. \A t \in Txn : Len(Append(txns, t)) = Len(txns) + 1
      BY AppendProperties DEF TypeOK
    <2> QED BY NextIndex, <2>1 DEF IndexMoves, UnembeddedAreLatest, NewChunks
  <1> QED BY <1>1, <1>2, TypeInit, TypeNext, PTL DEF Spec

\* Written ids stay written, and a replacement uses ids nobody knows yet.
LEMMA WrittenGrows ==
    ASSUME TypeOK, IndexMoves
    PROVE  /\ Written \subseteq Written'
           /\ \A t \in Txn : txns' = Append(txns, t) => NewChunks \subseteq Written'
           /\ NewChunks \cap Written = {}
  <1>1. Len(txns) \in Nat
    BY LenProperties DEF TypeOK
  <1>2. \A t \in Txn : Len(Append(txns, t)) = Len(txns) + 1
    BY AppendProperties DEF TypeOK
  <1>3. NewChunks \cap Written = {}
    BY <1>1 DEF Written, NewChunks
  <1>4. ASSUME NEW t \in Txn, txns' = Append(txns, t)
        PROVE  Written \subseteq Written' /\ NewChunks \subseteq Written'
    <2>1. Len(txns') = Len(txns) + 1
      BY <1>2, <1>4
    <2> QED BY <1>1, <2>1 DEF Written, NewChunks
  <1>5. CASE UNCHANGED txns
    <2>1. Written \subseteq Written'
      BY <1>5 DEF Written
    <2> QED BY <1>3, <1>4, <2>1
  <1> QED BY <1>3, <1>4, <1>5 DEF IndexMoves

\* What a worker holds was written.
LEMMA HeldWritten ==
    ASSUME TypeOK, RunJobs, ChunksWritten, IndexMoves, NEW s \in Slots, SlotMoves(s)
    PROVE  run'[s].held \subseteq Written'
  <1> USE DEF TypeOK, At
  <1>1. Written \subseteq Written' /\ run[s].held \subseteq Written /\ run[s] \in Run
    BY WrittenGrows DEF ChunksWritten
  <1>2. ASSUME NEW pc, Goto(s, pc) PROVE run'[s].held \subseteq Written'
    <2>1. run'[s] = [run[s] EXCEPT !.pc = pc]
      BY <1>2 DEF Goto
    <2>2. run'[s].held = run[s].held
      BY <1>1, <2>1 DEF Run
    <2> QED BY <1>1, <2>2
  <1>3. ASSUME NEW pc, NEW cs, run' = [run EXCEPT ![s].pc = pc, ![s].held = cs], cs \subseteq Written'
        PROVE  run'[s].held \subseteq Written'
    <2>1. run'[s] = [run[s] EXCEPT !.pc = pc, !.held = cs]
      BY <1>3
    <2>2. run'[s].held = cs
      BY <1>1, <2>1 DEF Run
    <2> QED BY <1>3, <2>2
  <1>4. CASE ParsingStep(s)
    <2>1. CASE ParseReady(s) \/ ParsePublish(s)
      <3>1. \/ \E pc : Goto(s, pc)
            \/ \E pc \in Step, fs \in SUBSET Files : KeepFiles(s, pc, fs)
        BY <2>1 DEF ParseReady, ParsePublish, LoadFiles, Throws, Step, Present
      <3> QED BY <1>1, <1>2, <2>1, <3>1, KeepFilesGoesOn DEF ParseReady, ParsePublish
    <2> QED BY <1>2, <1>4, <2>1 DEF ParsingStep, ParseStart, ParseText, ParseComplete,
         ParseSave, ParseEvaluate, Progress, Complete, CreateJob, Throws
  <1>5. CASE ChunkingStep(s)
    <2>1. ASSUME ChunkReplace(s), ~Throws(s) PROVE run'[s].held \subseteq Written'
      <3>1. /\ ReplaceChunks(run[s].job, FALSE)
            /\ run' = [run EXCEPT ![s].pc = "create", ![s].held = NewChunks]
        BY <2>1 DEF ChunkReplace
      <3>2. run[s].job \in JobIds
        BY <2>1 DEF ChunkReplace, RunJobs, RunsKnownJob
      <3>3. jobs[run[s].job] \in Job /\ run[s].job \in Nat
        BY <3>2, LenProperties, JobsInSeq DEF JobIds
      <3>4. [file |-> jobs[run[s].job].file, job |-> run[s].job, late |-> FALSE] \in Txn
        BY <3>3 DEF Job, Txn
      <3>5. NewChunks \subseteq Written'
        BY <3>1, <3>4, WrittenGrows DEF ReplaceChunks
      <3> QED BY <1>3, <3>1, <3>5
    <2> QED BY <1>2, <1>5, <2>1 DEF ChunkingStep, ChunkStart, ChunkReplace, ChunkCreate, ChunkComplete,
         Progress, Complete, CreateJob, Throws
  <1>6. CASE EmbeddingsStep(s)
    <2>1. CASE EmbedFind(s)
      <3>1. ASSUME ~Throws(s)
            PROVE  \E pc : run' = [run EXCEPT ![s].pc = pc,
                             ![s].held = (JobOf(s).chunks \cap chunks) \ embedded]
        BY <2>1, <3>1 DEF EmbedFind
      <3>2. (JobOf(s).chunks \cap chunks) \ embedded \subseteq Written'
        BY <1>1 DEF ChunksWritten
      <3> QED BY <1>2, <1>3, <3>1, <3>2 DEF Throws
    <2>2. CASE EmbedBatch(s)
      <3>1. CASE Throws(s)
        BY <1>2, <3>1 DEF Throws
      <3>2. CASE ~Throws(s)
        <4>1. PICK pc, c : run' = [run EXCEPT ![s].pc = pc, ![s].held = run[s].held \ {c}]
          BY <2>2, <3>2 DEF EmbedBatch
        <4>2. run[s].held \ {c} \subseteq Written'
          BY <1>1
        <4> QED BY <1>3, <4>1, <4>2
      <3> QED BY <3>1, <3>2
    <2> QED BY <1>2, <1>6, <2>1, <2>2 DEF EmbeddingsStep, EmbedComplete, EmbedInvalidate,
         Complete, Throws
  <1>7. CASE run'[s] = run[s] \/ run'[s].held \subseteq run[s].held
    BY <1>1, <1>7
  <1> QED BY <1>4, <1>5, <1>6, <1>7 DEF SlotMoves

\* ChunksWritten is inductive.
LEMMA WrittenNext ==
    ASSUME TypeOK, RunJobs, ChunksWritten, [Next]_vars
    PROVE  ChunksWritten'
  <1>1. IndexMoves /\ WorkGoesOn /\ \A s \in Slots : SlotMoves(s)
    BY NextIndex, NextGoesOn, NextMoves
  <1>2. Written \subseteq Written'
    BY <1>1, WrittenGrows
  <1>3. \A s \in Slots : run'[s].held \subseteq Written'
    BY <1>1, HeldWritten
  <1>4. chunks' \subseteq Written'
    BY <1>1, <1>2, WrittenGrows DEF IndexMoves, ChunksWritten
  <1>5. ASSUME NEW j \in JobIds' PROVE jobs'[j].chunks \subseteq Written'
    <2>1. Len(jobs) \in Nat /\ Len(jobs') \in Nat /\ Evolves(jobs, jobs')
      BY <1>1, LenProperties DEF WorkGoesOn, Evolves, TypeOK
    <2>2. CASE j \in 1 .. Len(jobs)
      BY <1>2, <2>1, <2>2 DEF Evolves, KeepsJob, ChunksWritten, JobIds
    <2>3. CASE j \in (Len(jobs) + 1) .. Len(jobs')
      BY <1>2, <2>1, <2>3 DEF Evolves, ChunksWritten
    <2> QED BY <2>1, <2>2, <2>3 DEF JobIds
  <1> QED BY <1>3, <1>4, <1>5 DEF ChunksWritten

(* The pipeline implements ChunkIndex, for every instance: whatever workers *)
(* and clients do, the chunks table changes by a whole replacement, a whole *)
(* removal, or the appearance of one batch together with its vectors.       *)
THEOREM Refinement == Spec => IndexSpec
  <1>1. Init => Index!Init
    BY DEF Init, Index!Init
  <1>2. Init => ChunksWritten
    BY DEF Init, ChunksWritten, IdleRun, JobIds
  <1>3. TypeOK /\ RunJobs /\ ChunksWritten /\ [Next]_vars => [Index!Next]_(Index!index)
    <2> SUFFICES ASSUME TypeOK, RunJobs, ChunksWritten, [Next]_vars
                 PROVE  [Index!Next]_(Index!index)
      OBVIOUS
    <2>1. \A t \in Txn : Len(Append(txns, t)) = Len(txns) + 1
      BY AppendProperties DEF TypeOK
    <2>2. CASE UNCHANGED <<chunks, embedded, txns>>
      BY <2>2 DEF Index!index
    <2>3. CASE chunks' = {} /\ embedded' = {} /\ UNCHANGED txns
      BY <2>3 DEF Index!Next, Index!Clear
    <2>4. ASSUME NEW t \in Txn, txns' = Append(txns, t), chunks' = NewChunks, embedded' = {}
          PROVE  Index!Replace
      BY <2>1, <2>4 DEF Index!Replace, NewChunks
    <2>5. ASSUME NEW s \in Slots, NEW c \in run[s].held, chunks' = chunks \cup {c},
                 embedded' = embedded \cup {c}, UNCHANGED txns
          PROVE  Index!Next
      <3>1. c \in (1 .. Len(txns)) \X (1 .. Batches)
        BY <2>5 DEF ChunksWritten, Written
      <3> QED BY <2>5, <3>1 DEF Index!Next, Index!Embed
    <2> QED BY <2>2, <2>3, <2>4, <2>5, NextIndex DEF IndexMoves, Index!Next
  <1> QED BY <1>1, <1>2, <1>3, TypeInit, TypeNext, WrittenNext, PTL DEF Spec, IndexSpec, Index!Spec

\* No step takes the vector of a chunk away, or brings an old chunk back without one.
LEMMA IndexKeeps ==
    ASSUME TypeOK, IndexMoves, NEW cs, cs \subseteq Written
    PROVE  (cs \cap chunks') \ embedded' \subseteq (cs \cap chunks) \ embedded
  <1>1. cs \cap NewChunks = {}
    BY WrittenGrows
  <1> QED BY <1>1 DEF IndexMoves

\* EmbedsTheRest is inductive.
LEMMA EmbedsNext ==
    ASSUME TypeOK, RunJobs, ChunksWritten, EmbedsTheRest, [Next]_vars
    PROVE  EmbedsTheRest'
  <1> USE DEF TypeOK, At
  <1>0. IndexMoves /\ WorkGoesOn /\ \A s \in Slots : SlotMoves(s)
    BY NextIndex, NextGoesOn, NextMoves
  <1> SUFFICES ASSUME NEW s \in Slots, s[2] = "embeddings", run'[s].pc \in {"embed", "complete"}
               PROVE  LET todo == (jobs'[run'[s].job].chunks \cap chunks') \ embedded'
                      IN  /\ run'[s].pc = "embed" => todo \subseteq run'[s].held
                          /\ run'[s].pc = "complete" => todo = {}
    BY DEF EmbedsTheRest, JobOf, Unembedded
  <1> DEFINE cs == jobs[run[s].job].chunks
  <1>1. run'[s] = run[s] \/ EmbeddingsStep(s)
    BY <1>0 DEF SlotMoves, ParsingStep, ParseStart, ParseText, ParseComplete, ParseSave, ParseReady,
       ParsePublish, ParseEvaluate, PSlot, ChunkingStep, ChunkStart, ChunkReplace, ChunkCreate,
       ChunkComplete, CSlot
  <1>2. ASSUME run[s].pc # "idle"
        PROVE  /\ jobs'[run[s].job].chunks = cs
               /\ cs \subseteq Written
               /\ (cs \cap chunks') \ embedded' \subseteq (cs \cap chunks) \ embedded
    <2>1. run[s].job \in 1 .. Len(jobs)
      BY <1>2 DEF RunJobs, RunsKnownJob, JobIds
    <2>2. jobs'[run[s].job].chunks = cs
      BY <1>0, <2>1 DEF WorkGoesOn, Evolves, KeepsJob
    <2>3. cs \subseteq Written
      BY <2>1 DEF ChunksWritten, JobIds
    <2> HIDE DEF cs
    <2> QED BY <1>0, <2>2, <2>3, IndexKeeps
  <1>3. CASE run'[s] = run[s]
    BY <1>2, <1>3 DEF EmbedsTheRest, JobOf, Unembedded
  <1>4. CASE EmbedFind(s)
    <2>1. CASE Throws(s)
      BY <2>1, GotoRun DEF Throws
    <2>2. CASE ~Throws(s)
      <3> DEFINE todo == (cs \cap chunks) \ embedded
                 pc == IF cs \cap chunks = {} THEN "catch" ELSE IF todo = {} THEN "complete" ELSE "embed"
      <3>1. run' = [run EXCEPT ![s].pc = pc, ![s].held = todo] /\ UNCHANGED <<chunks, embedded>>
        BY <1>4, <2>2 DEF EmbedFind, JobOf
      <3>2. pc = "complete" => todo = {}
        OBVIOUS
      <3>3. run[s].pc # "idle"
        BY <1>4 DEF EmbedFind
      <3>4. (cs \cap chunks') \ embedded' \subseteq todo
        BY <1>2, <3>3
      <3> HIDE DEF pc, todo
      <3>5. run'[s].pc = pc /\ run'[s].job = run[s].job /\ run'[s].held = todo
        <4>1. run[s] \in Run /\ run'[s] = [run[s] EXCEPT !.pc = pc, !.held = todo]
          BY <3>1
        <4> QED BY ONLY <4>1 DEF Run
      <3> QED BY <1>2, <3>2, <3>3, <3>4, <3>5
    <2> QED BY <2>1, <2>2
  <1>5. CASE EmbedBatch(s)
    <2>1. CASE Throws(s)
      BY <2>1, GotoRun DEF Throws
    <2>2. CASE ~Throws(s)
      <3>1. PICK c \in run[s].held :
              /\ chunks' = chunks \cup {c} /\ embedded' = embedded \cup {c}
              /\ run' = [run EXCEPT
                           ![s].pc = IF run[s].held = {c} THEN "complete" ELSE "embed",
                           ![s].held = run[s].held \ {c}]
        BY <1>5, <2>2 DEF EmbedBatch
      <3> DEFINE rest == run[s].held \ {c}
                 pc   == IF run[s].held = {c} THEN "complete" ELSE "embed"
      <3>2. run' = [run EXCEPT ![s].pc = pc, ![s].held = rest]
        BY <3>1
      <3>3. pc = "complete" => rest = {}
        OBVIOUS
      <3>4. run[s].pc # "idle" /\ (cs \cap chunks) \ embedded \subseteq run[s].held
        BY <1>5 DEF EmbedBatch, EmbedsTheRest, JobOf, Unembedded
      <3>5. (cs \cap chunks') \ embedded' \subseteq rest
        BY <3>1, <3>4
      <3> HIDE DEF pc, rest
      <3>6. run'[s].pc = pc /\ run'[s].job = run[s].job /\ run'[s].held = rest
        <4>1. run[s] \in Run /\ run'[s] = [run[s] EXCEPT !.pc = pc, !.held = rest]
          BY <3>2
        <4> QED BY ONLY <4>1 DEF Run
      <3> QED BY <1>2, <3>3, <3>4, <3>5, <3>6
    <2> QED BY <2>1, <2>2
  <1>6. CASE EmbedComplete(s) \/ EmbedInvalidate(s)
    BY <1>6, GotoRun DEF EmbedComplete, EmbedInvalidate, Complete, Throws
  <1> QED BY <1>1, <1>3, <1>4, <1>5, <1>6 DEF EmbeddingsStep

\* A row turns COMPLETED only when its chunks are embedded, and they stay so.
LEMMA EmbeddedNext ==
    ASSUME TypeOK, RunJobs, ChunksWritten, EmbedsTheRest, EmbeddedWhenCompleted, [Next]_vars
    PROVE  EmbeddedWhenCompleted'
  <1>0. IndexMoves /\ Evolves(jobs, jobs')
    BY NextIndex, NextGoesOn DEF WorkGoesOn
  <1> SUFFICES ASSUME NEW j \in JobIds', jobs'[j].queue = "embeddings", jobs'[j].row = "COMPLETED"
               PROVE  jobs'[j].chunks \cap chunks' \subseteq embedded'
    BY DEF EmbeddedWhenCompleted
  <1>1. Finishing \subseteq JobIds
    BY DEF Finishing, RunJobs, RunsKnownJob
  <1>2. Len(jobs) \in Nat /\ Len(jobs') \in Nat
    BY <1>0, LenProperties DEF Evolves, TypeOK
  <1>3. j \in JobIds /\ (jobs[j].row = "COMPLETED" \/ j \in Finishing)
    BY <1>0, <1>1, <1>2 DEF Evolves, JobIds
  <1>4. jobs'[j].chunks = jobs[j].chunks /\ jobs[j].queue = "embeddings"
    BY <1>0, <1>3 DEF Evolves, KeepsJob, JobIds
  <1>5. jobs[j].chunks \cap chunks \subseteq embedded
    <2>1. CASE jobs[j].row = "COMPLETED"
      BY <1>3, <1>4, <2>1 DEF EmbeddedWhenCompleted
    <2>2. CASE j \in Finishing
      <3>1. PICK s \in Slots : run[s].pc = "complete" /\ run[s].job = j
        BY <2>2 DEF Finishing
      <3>2. s[2] = "embeddings"
        BY <1>4, <3>1 DEF RunJobs, RunsKnownJob
      <3> QED BY <3>1, <3>2 DEF EmbedsTheRest, At, JobOf, Unembedded
    <2> QED BY <1>3, <2>1, <2>2
  <1>6. jobs[j].chunks \subseteq Written
    BY <1>3 DEF ChunksWritten
  <1> QED BY <1>0, <1>4, <1>5, <1>6, IndexKeeps

(* An embedding job whose row reads COMPLETED left none of its chunks       *)
(* without a vector, for every instance, retries and zombies included: what *)
(* updateJobStatus(COMPLETED) in embeddings.processor.ts tells the client.  *)
THEOREM CompletedIsEmbedded == Spec => []EmbeddedWhenCompleted
  <1>1. Init => ChunksWritten /\ EmbedsTheRest /\ EmbeddedWhenCompleted
    BY DEF Init, ChunksWritten, EmbedsTheRest, EmbeddedWhenCompleted, IdleRun, At, JobIds
  <1> QED BY <1>1, TypeInit, TypeNext, WrittenNext, EmbedsNext, EmbeddedNext, PTL DEF Spec

-----------------------------------------------------------------------------
(* What was sent to the chunking queue. *)

\* A job that was added to a queue stays added.
LEMMA SentStays ==
    ASSUME TypeOK, WorkGoesOn, NEW f, Sent(f)
    PROVE  Sent(f)'
  <1>1. Len(jobs) \in Nat /\ Len(jobs') \in Nat /\ Evolves(jobs, jobs')
    BY LenProperties DEF WorkGoesOn, Evolves, TypeOK
  <1> QED BY <1>1 DEF Sent, Evolves, KeepsJob, JobIds

\* A follow-up job for chunking sends the text.
LEMMA CreateSends ==
    ASSUME TypeOK, NEW s \in Slots, run[s].job \in JobIds, RowExists(s), NEW pc, NEW f,
           f = PFile(s), CreateJob(s, "chunking", {}, pc)
    PROVE  Sent(f)'
  <1> DEFINE js == [jobs EXCEPT ![run[s].job].row = "PROCESSING"]
             new == NewJob("chunking", f, {}, "waiting")
  <1>1. jobs' = Append(js, new)
    BY DEF CreateJob, PFile
  <1>2. js \in Seq(Job) /\ Len(js) \in Nat
    BY RowEvolves, LenProperties DEF Evolves, TypeOK, JobIds, RowStatus
  <1>3. new \in Job /\ new.queue = "chunking" /\ new.file = f /\ new.state # "unqueued"
    <2>1. f \in Files
      BY JobsInSeq DEF Job, JobOf, PFile, TypeOK, JobIds
    <2> QED BY <2>1 DEF NewJob, Job, Queues, RowStatus, QueueState
  <1> HIDE DEF js, new
  <1>4. jobs'[Len(js) + 1] = new /\ Len(jobs') = Len(js) + 1
    BY <1>1, <1>2, <1>3, AppendProperties
  <1> QED BY <1>2, <1>3, <1>4 DEF Sent, JobIds

\* ParsedIsSent is inductive.
LEMMA ParsedNext ==
    ASSUME TypeOK, RunJobs, ParsedIsSent, [Next]_vars
    PROVE  ParsedIsSent'
  <1> USE DEF TypeOK, At
  <1>0. WorkGoesOn /\ \A s \in Slots : SlotMoves(s)
    BY NextGoesOn, NextMoves
  <1> SUFFICES ASSUME NEW s \in Slots, s[2] = "parsing", run'[s].pc \in {"complete", "save"},
                      NEW f, f = jobs'[run'[s].job].file, FileText[f] # "none"
               PROVE  Sent(f)'
    BY DEF ParsedIsSent, PFile, JobOf
  <1>1. run'[s] = run[s] \/ ParsingStep(s)
    BY <1>0 DEF SlotMoves, ChunkingStep, ChunkStart, ChunkReplace, ChunkCreate, ChunkComplete,
       CSlot, EmbeddingsStep, EmbedFind, EmbedBatch, EmbedComplete, EmbedInvalidate, ESlot
  <1>a. ASSUME ParseReady(s) \/ ParsePublish(s)
        PROVE  run'[s].job = run[s].job /\ run'[s].pc \notin {"complete", "save"}
    <2>1. \/ \E pc \in Step \ {"complete", "save"} : Goto(s, pc)
          \/ \E pc \in Step \ {"complete", "save"}, fs \in SUBSET Files : KeepFiles(s, pc, fs)
      BY <1>a DEF ParseReady, ParsePublish, LoadFiles, Throws, Step, Present
    <2> QED BY <1>a, <2>1, GotoRun, KeepFilesGoesOn DEF ParseReady, ParsePublish
  <1>2. run[s].pc # "idle" /\ run'[s].job = run[s].job
    <2>1. CASE ParseReady(s) \/ ParsePublish(s)
      BY <1>a, <2>1 DEF ParseReady, ParsePublish
    <2> QED BY <1>1, <2>1, GotoRun DEF ParsingStep, ParseStart, ParseText, ParseComplete,
       ParseSave, ParseEvaluate, Progress, Complete, CreateJob, Throws
  <1>3. run[s].job \in JobIds /\ f = PFile(s)
    BY <1>0, <1>2 DEF WorkGoesOn, Evolves, KeepsJob, RunJobs, RunsKnownJob, JobIds, PFile, JobOf
  <1>4. CASE run[s].pc \in {"complete", "save"}
    <2>1. Sent(f)
      BY <1>3, <1>4 DEF ParsedIsSent
    <2> QED BY <1>0, <2>1, SentStays
  <1>5. CASE ParseText(s)
    <2>1. run'[s].pc # "catch"
      OBVIOUS
    <2>2. ~Throws(s)
      BY <2>1, GotoRun DEF Throws
    <2>3. CreateJob(s, "chunking", {}, "complete") /\ RowExists(s)
      BY <1>3, <1>5, <2>2 DEF ParseText, CreateJob
    <2> QED BY <1>3, <2>3, CreateSends
  <1>6. CASE ParseStart(s) \/ ParseReady(s) \/ ParsePublish(s) \/ ParseEvaluate(s)
    BY <1>a, <1>6, GotoRun DEF ParseStart, ParseEvaluate, Progress, Throws
  <1> QED BY <1>1, <1>4, <1>5, <1>6 DEF ParsingStep, ParseComplete, ParseSave

\* Only the parser makes a file AVAILABLE.
LEMMA FilesMove ==
    ASSUME TypeOK, [Next]_vars, NEW f \in Files, file'[f] = "AVAILABLE"
    PROVE  file[f] = "AVAILABLE" \/ \E s \in Slots : ParseSave(s) /\ PFile(s) = f
  <1> USE DEF TypeOK
  <1>1. CASE file' = file
    BY <1>1
  <1>2. ASSUME NEW s \in Slots, WorkerStep(s)
        PROVE  file' = file \/ (ParseSave(s) /\ (PFile(s) = f \/ file'[f] = file[f]))
    <2>1. ASSUME ParseSave(s) PROVE PFile(s) = f \/ file'[f] = file[f]
      BY <2>1 DEF ParseSave
    <2> QED BY <1>2, <2>1 DEF WorkerStep, ParsingStep, ParseStart, ParseText, ParseComplete, ParseReady,
         ParsePublish, ParseEvaluate, ChunkingStep, ChunkStart, ChunkReplace,
         ChunkCreate, ChunkComplete, ChunkingRest, EmbeddingsStep, EmbedFind, EmbedBatch, EmbedComplete, EmbedInvalidate,
         EmbeddingRest, CatchError, Reject, Deliver, Resolve
  <1>3. ASSUME WorkerNext, \A s \in Slots : ~WorkerStep(s) PROVE file' = file
    BY <1>3 DEF WorkerNext, Faulty, StepThrows, CatchThrows, ParseAddThrows, ChunkAddThrows, AddThrows,
                ChunkTimeout, ChunkingRest, Crash, LoseLock, Reject, Stall, LateCommit
  <1>4. ASSUME ClientNext \/ ClientStops
        PROVE  file' = file \/ file'[f] = file[f] \/ file'[f] # "AVAILABLE"
    BY <1>4 DEF ClientNext, ClientStops, UploadFile, UploadBlob, UploadSaveFile, UploadSaveJob,
         UploadStops, DeleteFile, DeleteFileBlob, DeleteFileJobs, DeleteFileRow, DeleteFileStops,
         ReindexChunks, ReindexLoad, ReindexDelete, ReindexCreate, ReindexReturn, ReindexStops, ReindexRest,
         DeleteDocument, RemovalLoad, RemovalChunks, RemovalBlobs, RemovalRow, RemovalStops
  <1> QED BY <1>1, <1>2, <1>3, <1>4 DEF Next, vars, shared

(* A file that is AVAILABLE and has text was sent to the chunking queue,    *)
(* for every instance: the order of steps in parsing.processor.ts survives  *)
(* retries, deletions, zombies and crashes.                                 *)
THEOREM AvailableIsSent == Spec => []AvailableWasSentToChunking
  <1>1. Init => ParsedIsSent /\ AvailableWasSentToChunking
    BY DEF Init, ParsedIsSent, AvailableWasSentToChunking, IdleRun
  <1>2. TypeOK /\ RunJobs /\ ParsedIsSent /\ AvailableWasSentToChunking /\ [Next]_vars
        => AvailableWasSentToChunking'
    <2> SUFFICES ASSUME TypeOK, RunJobs, ParsedIsSent, AvailableWasSentToChunking, [Next]_vars,
                        NEW f \in Files, file'[f] = "AVAILABLE", FileText[f] # "none"
                 PROVE  Sent(f)'
      BY DEF AvailableWasSentToChunking, Sent
    <2>1. Sent(f)
      <3>1. CASE file[f] = "AVAILABLE"
        BY <3>1 DEF AvailableWasSentToChunking, Sent
      <3>2. ASSUME NEW s \in Slots, ParseSave(s), PFile(s) = f PROVE Sent(f)
        BY <3>2 DEF ParseSave, PSlot, At, ParsedIsSent
      <3> QED BY <3>1, <3>2, FilesMove
    <2> QED BY <2>1, NextGoesOn, SentStays
  <1> QED BY <1>1, <1>2, TypeInit, TypeNext, ParsedNext, PTL DEF Spec

(* What workers hold in memory stays good enough for what they will write   *)
(* (RunJobs, ChunksWritten, EmbedsTheRest, ParsedIsSent), for every         *)
(* instance: between their awaits the processors re-read nothing.           *)
THEOREM WorkStaysInHand == Spec => []WorkInHand
  <1>1. Init => ChunksWritten /\ EmbedsTheRest /\ ParsedIsSent
    BY DEF Init, ChunksWritten, EmbedsTheRest, ParsedIsSent, IdleRun, At, JobIds
  <1>2. Spec => [](RunJobs /\ ChunksWritten /\ EmbedsTheRest /\ ParsedIsSent)
    BY <1>1, TypeInit, TypeNext, WrittenNext, EmbedsNext, ParsedNext, PTL DEF Spec
  <1> QED BY <1>2, PTL DEF WorkInHand

-----------------------------------------------------------------------------
(* Who will embed a chunk.                                                 *)

\* Some embedding job names the chunk.
Named(c) == \E j \in JobIds : jobs[j].queue = "embeddings" /\ c \in jobs[j].chunks

\* What a job wrote, in time, and has no vector yet.
Own(k) == {c \in chunks \ embedded : txns[c[1]].job = k /\ ~txns[c[1]].late}

\* A worker or an embedding job that is done with its chunks left none without a vector.
EmbeddedOnceDone ==
    /\ \A s \in Slots : s[2] = "embeddings" /\ run[s].pc \in {"invalidate", "resolve"} =>
           Unembedded(JobOf(s).chunks) = {}
    /\ \A j \in JobIds : jobs[j].queue = "embeddings" /\ jobs[j].state = "completed" =>
           Unembedded(jobs[j].chunks) = {}

\* Replacements in time are of chunking jobs.
WrittenByChunking ==
    \A i \in 1 .. Len(txns) :
        ~txns[i].late => txns[i].job \in JobIds /\ jobs[txns[i].job].queue = "chunking"

(* A chunking job that never stalled hands over what it wrote: its worker   *)
(* holds it, then a job names it, and so it stays.                         *)
HandsOver ==
    /\ \A s \in Slots : s[2] = "chunking" /\ run[s].pc # "idle" /\ JobOf(s).stalls = 0 =>
           /\ At(s, "create") => Own(run[s].job) \subseteq run[s].held
           /\ run[s].pc \in {"complete", "resolve"} => \A c \in Own(run[s].job) : Named(c)
    /\ \A k \in JobIds : jobs[k].stalls = 0 /\ jobs[k].state = "completed" =>
           \A c \in Own(k) : Named(c)

\* Embedding workers.
LEMMA EmbeddedOnceDoneNext ==
    ASSUME TypeOK, RunJobs, ChunksWritten, EmbedsTheRest, EmbeddedOnceDone, [Next]_vars
    PROVE  EmbeddedOnceDone'
<1> USE DEF At
<1>0. IndexMoves /\ WorkGoesOn /\ \A s \in Slots : SlotMoves(s)
  BY NextIndex, NextGoesOn, NextMoves
<1>1. ASSUME NEW j \in JobIds, Unembedded(jobs[j].chunks) = {}
      PROVE  (jobs'[j].chunks \cap chunks') \ embedded' = {}
  <2>1. jobs[j].chunks \subseteq Written /\ jobs'[j].chunks = jobs[j].chunks
    BY <1>0, JobsKept DEF ChunksWritten
  <2> QED
    BY <1>0, <1>1, <2>1, IndexKeeps DEF Unembedded
<1>2. ASSUME NEW s \in Slots, s[2] = "embeddings", run'[s].pc \in {"invalidate", "resolve"}
      PROVE  (jobs'[run'[s].job].chunks \cap chunks') \ embedded' = {}
  <2>1. run'[s] = run[s] \/ EmbeddingsStep(s)
    BY <1>0, <1>2 DEF SlotMoves, ParsingStep, ParseStart, ParseText, ParseComplete, ParseSave, ParseReady,
       ParsePublish, ParseEvaluate, PSlot, ChunkingStep, ChunkStart, ChunkReplace, ChunkCreate,
       ChunkComplete, CSlot
  <2>2. ASSUME run'[s].job = run[s].job, run[s].pc \in {"complete", "invalidate", "resolve"}
        PROVE  (jobs'[run'[s].job].chunks \cap chunks') \ embedded' = {}
    <3>1. run[s].job \in JobIds
      BY <2>2 DEF RunJobs, RunsKnownJob
    <3>2. Unembedded(jobs[run[s].job].chunks) = {}
      BY <1>2, <2>2 DEF EmbeddedOnceDone, EmbedsTheRest, JobOf
    <3> QED
      BY <1>1, <2>2, <3>1, <3>2
  <2>3. CASE run'[s] = run[s]
    BY <1>2, <2>2, <2>3
  <2>4. CASE EmbedComplete(s) \/ EmbedInvalidate(s)
    BY <2>2, <2>4, GotoRun DEF EmbedComplete, EmbedInvalidate, Complete, Throws, TypeOK
  <2>5. CASE EmbedFind(s) \/ EmbedBatch(s)
    <3>1. \E cs : \E pc \in {"catch", "complete", "embed"} :
              Goto(s, pc) \/ run' = [run EXCEPT ![s].pc = pc, ![s].held = cs]
      <4>1. CASE EmbedFind(s)
        BY <4>1 DEF EmbedFind, Throws
      <4>2. CASE EmbedBatch(s) /\ ~Throws(s)
        <5>1. PICK c : run' = [run EXCEPT
                           ![s].pc = IF run[s].held = {c} THEN "complete" ELSE "embed",
                           ![s].held = run[s].held \ {c}]
          BY <4>2 DEF EmbedBatch
        <5> QED
          BY <5>1
      <4> QED
        BY <2>5, <4>1, <4>2 DEF Throws
    <3>2. run'[s].pc \in {"catch", "complete", "embed"}
      <4>1. run \in [Slots -> Run]
        BY DEF TypeOK
      <4> QED
        BY <3>1, <4>1 DEF Goto, Run
    <3> QED
      BY <1>2, <3>2
  <2> QED
    BY <2>1, <2>3, <2>4, <2>5 DEF EmbeddingsStep
<1>3. ASSUME NEW j \in JobIds', jobs'[j].queue = "embeddings", jobs'[j].state = "completed"
      PROVE  (jobs'[j].chunks \cap chunks') \ embedded' = {}
  <2>1. j \in JobIds /\ jobs[j].queue = "embeddings"
    BY <1>0, <1>3, JobsCome, JobsKept
  <2>2. CASE jobs[j].state = "completed"
    BY <1>1, <2>1, <2>2 DEF EmbeddedOnceDone
  <2>3. ASSUME NEW s \in Slots, run[s].pc = "resolve", run[s].job = j
        PROVE  (jobs'[j].chunks \cap chunks') \ embedded' = {}
    BY <1>1, <2>1, <2>3 DEF EmbeddedOnceDone, RunJobs, RunsKnownJob, JobOf
  <2> QED
    BY <1>3, <2>2, <2>3, JobsCome
<1> QED
  BY <1>2, <1>3 DEF EmbeddedOnceDone, Unembedded, JobOf

\* Only a worker at its replacement and a transaction nobody waits for write the log.
ReplacesInTime(s) ==
    /\ CSlot(s) /\ At(s, "replace") /\ ReplaceChunks(run[s].job, FALSE)
    /\ run'[s].pc = "create" /\ run'[s].held = NewChunks /\ run'[s].job = run[s].job

\* How a step changes the log.
LogMoves ==
    \/ UNCHANGED txns
    \/ \E s \in Slots : ReplacesInTime(s)
    \/ \E j \in JobIds : ReplaceChunks(j, TRUE)

\* Whatever step the pipeline takes, the log moves so.
LEMMA NextLog ==
    ASSUME TypeOK, RunJobs, [Next]_vars PROVE LogMoves
<1> USE DEF TypeOK
<1>1. ASSUME NEW s \in Slots, WorkerStep(s) PROVE LogMoves
  <2>1. CASE ChunkReplace(s) /\ ~UNCHANGED txns
    <3>1. /\ run' = [run EXCEPT ![s].pc = "create", ![s].held = NewChunks]
          /\ CSlot(s) /\ At(s, "replace") /\ ReplaceChunks(run[s].job, FALSE)
      BY <2>1 DEF ChunkReplace
    <3>2. PICK r : r = [run[s] EXCEPT !.pc = "create", !.held = NewChunks]
      OBVIOUS
    <3>3. run'[s] = r /\ run[s] \in Run
      BY <3>1, <3>2
    <3>4. r.pc = "create" /\ r.held = NewChunks /\ r.job = run[s].job
      BY <3>2, <3>3 DEF Run
    <3> QED
      BY <3>1, <3>3, <3>4 DEF LogMoves, ReplacesInTime
  <2>2. CASE ~ChunkReplace(s)
    <3>1. UNCHANGED txns
      BY <1>1, <2>2 DEF WorkerStep, ParsingStep, ParseStart, ParseText, ParseComplete,
         ParseSave, ParseReady, ParsePublish, ParseEvaluate, ParsingRest, ChunkingStep, ChunkStart,
         ChunkCreate, ChunkComplete, EmbeddingsStep, EmbedFind, EmbedBatch, EmbedComplete, EmbedInvalidate,
         EmbeddingRest, CatchError, Reject, Deliver, Resolve
    <3> QED
      BY <3>1 DEF LogMoves
  <2> QED
    BY <2>1, <2>2 DEF LogMoves
<1>2. ASSUME NEW t \in lateTx, LateCommit(t) PROVE LogMoves
  <2>1. t[2] \in JobIds
    OBVIOUS
  <2> QED
    BY <1>2, <2>1 DEF LateCommit, LogMoves
<1>3. ASSUME Faulty \/ \E j \in JobIds : Stall(j) PROVE UNCHANGED txns
  BY <1>3 DEF Faulty, StepThrows, CatchThrows, ParseAddThrows, ChunkAddThrows, AddThrows,
              ChunkTimeout, Crash, LoseLock, Reject, Stall
<1>4. ASSUME ClientNext \/ ClientStops PROVE UNCHANGED txns
  BY <1>4, ClientTypes DEF DbRest
<1>5. ASSUME UNCHANGED vars PROVE UNCHANGED txns
  BY <1>5 DEF vars, shared
<1> QED
  BY <1>1, <1>2, <1>3, <1>4, <1>5 DEF Next, WorkerNext, LogMoves

\* A replacement adds one entry to the log.
LEMMA LogGrows ==
    ASSUME TypeOK, NEW j \in JobIds, NEW late \in BOOLEAN, ReplaceChunks(j, late)
    PROVE  /\ Len(txns') = Len(txns) + 1 /\ Len(txns) \in Nat
           /\ \A i \in 1 .. Len(txns) : txns'[i] = txns[i]
           /\ txns'[Len(txns) + 1].job = j /\ txns'[Len(txns) + 1].late = late
<1>1. PICK t : t = [file |-> jobs[j].file, job |-> j, late |-> late]
  OBVIOUS
<1>2. t \in Txn /\ t.job = j /\ t.late = late
  <2>1. jobs[j] \in Job /\ j \in Nat
    BY JobsInSeq, LenProperties DEF JobIds, TypeOK
  <2> QED
    BY <1>1, <2>1 DEF Job, Txn
<1>3. txns' = Append(txns, t) /\ txns \in Seq(Txn)
  BY <1>1 DEF ReplaceChunks, TypeOK
<1>4. /\ Len(txns) \in Nat /\ Len(txns') = Len(txns) + 1 /\ txns'[Len(txns) + 1] = t
      /\ \A i \in 1 .. Len(txns) : txns'[i] = txns[i]
  BY ONLY <1>2, <1>3, AppendProperties, LenProperties
<1> QED
  BY <1>2, <1>4

\* What a job wrote in time grows only when its own worker replaces the chunks.
LEMMA OwnMoves ==
    ASSUME TypeOK, RunJobs, ChunksWritten, [Next]_vars, NEW k
    PROVE  \/ UNCHANGED txns /\ Own(k)' \subseteq Own(k)
           \/ ~UNCHANGED txns /\ Own(k)' = {}
           \/ \E s \in Slots : ReplacesInTime(s) /\ run[s].job = k /\ Own(k)' \subseteq NewChunks
<1>0. IndexMoves /\ LogMoves
  BY NextIndex, NextLog
<1>1. CASE UNCHANGED txns
  <2>1. \A t \in Txn : txns' # Append(txns, t)
    <3>1. txns \in Seq(Txn) /\ Len(txns) \in Nat
      BY LenProperties DEF TypeOK
    <3>2. \A t \in Txn : Len(Append(txns, t)) = Len(txns) + 1
      BY <3>1, AppendProperties
    <3>3. Len(txns) # Len(txns) + 1
      BY <3>1
    <3> QED
      BY <1>1, <3>2, <3>3
  <2>2. chunks' \ embedded' \subseteq chunks \ embedded
    BY <1>0, <2>1 DEF IndexMoves
  <2> QED
    BY <1>1, <2>2 DEF Own
<1>2. ASSUME NEW j \in JobIds, NEW late \in BOOLEAN, ReplaceChunks(j, late)
      PROVE  /\ ~UNCHANGED txns
             /\ Own(k)' \subseteq NewChunks
             /\ late \/ j # k => Own(k)' = {}
  <2>1. /\ Len(txns') = Len(txns) + 1 /\ Len(txns) \in Nat
        /\ txns'[Len(txns) + 1].job = j /\ txns'[Len(txns) + 1].late = late
    BY <1>2, LogGrows
  <2>2. chunks' = NewChunks /\ \A c \in NewChunks : c[1] = Len(txns) + 1
    BY <1>2 DEF ReplaceChunks, NewChunks
  <2>3. ~UNCHANGED txns
    BY <2>1
  <2> QED
    BY <2>1, <2>2, <2>3 DEF Own
<1>3. ASSUME NEW s \in Slots, ReplacesInTime(s)
      PROVE  \/ ~UNCHANGED txns /\ Own(k)' = {}
             \/ run[s].job = k /\ Own(k)' \subseteq NewChunks
  <2>1. run[s].job \in JobIds
    BY <1>3 DEF ReplacesInTime, At, RunJobs, RunsKnownJob
  <2>2. ReplaceChunks(run[s].job, FALSE)
    BY <1>3 DEF ReplacesInTime
  <2> QED
    BY <1>2, <2>1, <2>2
<1>4. ASSUME NEW j \in JobIds, ReplaceChunks(j, TRUE) PROVE ~UNCHANGED txns /\ Own(k)' = {}
  BY <1>2, <1>4
<1> QED
  BY <1>0, <1>1, <1>3, <1>4 DEF LogMoves

\* The log names chunking jobs.
LEMMA WrittenByChunkingNext ==
    ASSUME TypeOK, RunJobs, WrittenByChunking, [Next]_vars
    PROVE  WrittenByChunking'
<1>0. LogMoves /\ WorkGoesOn
  BY NextLog, NextGoesOn
<1>1. \A i \in 1 .. Len(txns) :
          ~txns[i].late => txns[i].job \in JobIds' /\ jobs'[txns[i].job].queue = "chunking"
  BY <1>0, JobsKept DEF WrittenByChunking
<1>2. CASE UNCHANGED txns
  BY <1>1, <1>2 DEF WrittenByChunking
<1>3. ASSUME NEW j \in JobIds, NEW late \in BOOLEAN, ReplaceChunks(j, late),
             ~late => jobs[j].queue = "chunking"
      PROVE  WrittenByChunking'
  <2>1. /\ Len(txns') = Len(txns) + 1 /\ Len(txns) \in Nat
        /\ \A i \in 1 .. Len(txns) : txns'[i] = txns[i]
        /\ txns'[Len(txns) + 1].job = j /\ txns'[Len(txns) + 1].late = late
    BY <1>3, LogGrows
  <2>2. j \in JobIds' /\ (~late => jobs'[j].queue = "chunking")
    BY <1>0, <1>3, JobsKept
  <2>3. \A i \in 1 .. Len(txns') : i \in 1 .. Len(txns) \/ i = Len(txns) + 1
    BY <2>1
  <2> QED
    BY <1>1, <2>1, <2>2, <2>3 DEF WrittenByChunking
<1>4. ASSUME NEW s \in Slots, ReplacesInTime(s) PROVE WrittenByChunking'
  <2>1. run[s].job \in JobIds /\ jobs[run[s].job].queue = "chunking" /\ ReplaceChunks(run[s].job, FALSE)
    BY <1>4 DEF ReplacesInTime, At, CSlot, RunJobs, RunsKnownJob
  <2> QED
    BY <1>3, <2>1
<1>5. ASSUME NEW j \in JobIds, ReplaceChunks(j, TRUE) PROVE WrittenByChunking'
  BY <1>3, <1>5
<1> QED
  BY <1>0, <1>2, <1>4, <1>5 DEF LogMoves

\* A chunk that a job names stays named.
LEMMA NamedStays ==
    ASSUME TypeOK, WorkGoesOn, NEW c, Named(c)
    PROVE  Named(c)'
BY JobsKept DEF Named

\* A follow-up job for embedding names the chunks.
LEMMA CreateNames ==
    ASSUME TypeOK, NEW s \in Slots, run[s].job \in JobIds, RowExists(s), NEW pc,
           CreateJob(s, "embeddings", run[s].held, pc), NEW c \in run[s].held
    PROVE  Named(c)'
<1> DEFINE js == [jobs EXCEPT ![run[s].job].row = "PROCESSING"]
           new == NewJob("embeddings", JobOf(s).file, run[s].held, "waiting")
<1>1. jobs' = Append(js, new)
  BY DEF CreateJob
<1>2. js \in Seq(Job) /\ Len(js) \in Nat
  BY RowEvolves, LenProperties DEF Evolves, TypeOK, JobIds, RowStatus
<1>3. new \in Job /\ new.queue = "embeddings" /\ c \in new.chunks
  <2>1. JobOf(s).file \in Files /\ run[s].held \in SUBSET ChunkIds
    BY JobsInSeq DEF Job, JobOf, TypeOK, JobIds, Run
  <2> QED
    BY <2>1 DEF NewJob, Job, Queues, RowStatus, QueueState
<1> HIDE DEF js, new
<1>4. jobs'[Len(js) + 1] = new /\ Len(jobs') = Len(js) + 1
  BY <1>1, <1>2, <1>3, AppendProperties
<1> QED
  BY <1>2, <1>3, <1>4 DEF Named, JobIds

\* Whoever writes for a job that never stalled is its one runner.
LEMMA WriterRuns ==
    ASSUME OneRunner, NEW s \in Slots, NEW k, run[s].job = k, ReplacesInTime(s), jobs[k].stalls = 0
    PROVE  jobs[k].state = "active" /\ \A t \in Slots : Runs(t, k) => t = s
BY DEF OneRunner, ReplacesInTime, At, JobOf

\* HandsOver is inductive: the worker, ...
LEMMA HandsOverOn ==
    ASSUME TypeOK, RunJobs, ChunksWritten, OneRunner, HandsOver, [Next]_vars,
           NEW s \in Slots, s[2] = "chunking", NEW k, k = run'[s].job, jobs'[k].stalls = 0
    PROVE  /\ run'[s].pc = "create" => Own(k)' \subseteq run'[s].held
           /\ run'[s].pc \in {"complete", "resolve"} => \A c \in Own(k)' : Named(c)'
<1> USE DEF At
<1>0. WorkGoesOn /\ SlotMoves(s) /\ run \in [Slots -> Run]
  BY NextGoesOn, NextMoves DEF TypeOK
<1> SUFFICES ASSUME run'[s].pc \in {"create", "complete", "resolve"}
             PROVE  /\ run'[s].pc = "create" => Own(k)' \subseteq run'[s].held
                    /\ run'[s].pc \in {"complete", "resolve"} => \A c \in Own(k)' : Named(c)'
  OBVIOUS
<1>1. run'[s] = run[s] \/ ChunkingStep(s)
  BY <1>0 DEF SlotMoves, ParsingStep, ParseStart, ParseText, ParseComplete, ParseSave, ParseReady,
     ParsePublish, ParseEvaluate, PSlot, EmbeddingsStep, EmbedFind, EmbedBatch, EmbedComplete,
     EmbedInvalidate, ESlot
<1>r. ASSUME ChunkReplace(s)
      PROVE  run'[s].job = run[s].job /\ (run'[s].pc = "catch" \/ ReplacesInTime(s))
  <2>1. CASE Throws(s)
    BY <1>0, <2>1, GotoRun DEF Throws
  <2>2. CASE ~Throws(s)
    <3>1. /\ run' = [run EXCEPT ![s].pc = "create", ![s].held = NewChunks]
          /\ CSlot(s) /\ At(s, "replace") /\ ReplaceChunks(run[s].job, FALSE)
      BY <1>r, <2>2 DEF ChunkReplace
    <3>2. PICK r : r = [run[s] EXCEPT !.pc = "create", !.held = NewChunks]
      OBVIOUS
    <3>3. run'[s] = r /\ run[s] \in Run
      BY <1>0, <3>1, <3>2
    <3>4. r.pc = "create" /\ r.held = NewChunks /\ r.job = run[s].job
      BY <3>2, <3>3 DEF Run
    <3> QED
      BY <3>1, <3>3, <3>4 DEF ReplacesInTime
  <2> QED
    BY <2>1, <2>2
<1>2. run[s].pc # "idle" /\ run'[s].job = run[s].job
  <2>1. CASE ChunkReplace(s)
    BY <1>r, <2>1 DEF ChunkReplace
  <2> QED
    BY <1>0, <1>1, <2>1, GotoRun DEF ChunkingStep, ChunkStart, ChunkCreate, ChunkComplete, Progress,
       Complete, CreateJob, Throws
<1>3. k \in JobIds /\ jobs[k].stalls = 0 /\ k = run[s].job
  <2>1. k \in JobIds /\ k = run[s].job
    BY <1>2 DEF RunJobs, RunsKnownJob
  <2>2. k \in JobIds'
    BY <1>0, <2>1, JobsKept
  <2> QED
    BY <2>1, <2>2, JobsCome
<1>4. /\ run[s].pc = "create" => Own(k) \subseteq run[s].held
      /\ run[s].pc \in {"complete", "resolve"} => \A c \in Own(k) : Named(c)
  BY <1>2, <1>3 DEF HandsOver, JobOf
<1>5. CASE ~UNCHANGED txns /\ Own(k)' = {}
  BY <1>5
<1>6. ASSUME NEW t \in Slots, ReplacesInTime(t), run[t].job = k, Own(k)' \subseteq NewChunks
      PROVE  run'[s].pc = "create" /\ Own(k)' \subseteq run'[s].held
  <2>1. t = s
    BY <1>2, <1>3, <1>6, WriterRuns DEF Runs
  <2> QED
    BY <1>6, <2>1 DEF ReplacesInTime
<1>7. CASE UNCHANGED txns /\ Own(k)' \subseteq Own(k)
  <2>1. CASE run'[s] = run[s]
    BY <1>0, <1>4, <1>7, <2>1, NamedStays
  <2>2. CASE ChunkStart(s)
    BY <1>0, <2>2, GotoRun DEF ChunkStart, Progress, Throws
  <2>3. CASE ChunkReplace(s)
    <3>1. ReplaceChunks(k, FALSE)
      BY <1>3, <1>r, <2>3 DEF ReplacesInTime
    <3>2. Len(txns') = Len(txns) + 1 /\ Len(txns) \in Nat
      BY <1>3, <3>1, LogGrows
    <3> QED
      BY <1>7, <3>2
  <2>4. CASE ChunkCreate(s)
    <3>1. run'[s].pc # "catch"
      OBVIOUS
    <3>2. ~Throws(s)
      BY <1>0, <3>1, GotoRun DEF Throws
    <3>3. RowExists(s) /\ CreateJob(s, "embeddings", run[s].held, "complete")
      BY <2>4, <3>2 DEF ChunkCreate, CreateJob
    <3>4. \A c \in run[s].held : Named(c)'
      BY <1>3, <3>3, CreateNames
    <3>5. run'[s].pc = "complete" /\ run[s].pc = "create"
      BY <1>0, <2>4, <3>3, GotoRun DEF CreateJob, ChunkCreate
    <3> QED
      BY <1>4, <1>7, <3>4, <3>5
  <2>5. CASE ChunkComplete(s)
    <3>1. run'[s].pc = "resolve" /\ run[s].pc = "complete"
      BY <1>0, <2>5, GotoRun DEF ChunkComplete, Complete, Throws
    <3> QED
      BY <1>0, <1>4, <1>7, <3>1, NamedStays
  <2> QED
    BY <1>1, <2>1, <2>2, <2>3, <2>4, <2>5 DEF ChunkingStep
<1>8. \/ UNCHANGED txns /\ Own(k)' \subseteq Own(k)
      \/ ~UNCHANGED txns /\ Own(k)' = {}
      \/ \E t \in Slots : ReplacesInTime(t) /\ run[t].job = k /\ Own(k)' \subseteq NewChunks
  BY OwnMoves
<1> QED
  BY <1>5, <1>6, <1>7, <1>8

\* ... and the job that is done.
LEMMA HandedOver ==
    ASSUME TypeOK, RunJobs, ChunksWritten, OneRunner, WrittenByChunking, HandsOver, [Next]_vars,
           NEW k \in JobIds', jobs'[k].stalls = 0, jobs'[k].state = "completed"
    PROVE  \A c \in Own(k)' : Named(c)'
<1>0. WorkGoesOn
  BY NextGoesOn
<1>1. /\ k \in JobIds /\ jobs[k].stalls = 0
      /\ jobs[k].state = "completed" \/ \E s \in Slots : run[s].pc = "resolve" /\ run[s].job = k
  BY JobsCome
<1>2. CASE UNCHANGED txns /\ Own(k)' \subseteq Own(k)
  <2>1. CASE jobs[k].state = "completed"
    BY <1>0, <1>1, <1>2, <2>1, NamedStays DEF HandsOver
  <2>2. ASSUME NEW s \in Slots, run[s].pc = "resolve", run[s].job = k, NEW c \in Own(k)
        PROVE  Named(c)
    <3>1. jobs[k].queue = s[2]
      BY <2>2 DEF RunJobs, RunsKnownJob
    <3>2. c[1] \in 1 .. Len(txns)
      BY DEF Own, ChunksWritten, Written
    <3>3. jobs[k].queue = "chunking"
      BY <3>2 DEF Own, WrittenByChunking
    <3> QED
      BY <1>1, <2>2, <3>1, <3>3 DEF HandsOver, JobOf
  <2> QED
    BY <1>0, <1>1, <1>2, <2>1, <2>2, NamedStays
<1>3. ASSUME NEW t \in Slots, ReplacesInTime(t), run[t].job = k PROVE FALSE
  <2>1. jobs[k].state = "active" /\ \A s \in Slots : Runs(s, k) => s = t
    BY <1>1, <1>3, WriterRuns
  <2>2. run[t].pc = "replace"
    BY <1>3 DEF ReplacesInTime, At
  <2> QED
    BY <1>1, <2>1, <2>2 DEF Runs
<1>4. \/ UNCHANGED txns /\ Own(k)' \subseteq Own(k)
      \/ ~UNCHANGED txns /\ Own(k)' = {}
      \/ \E t \in Slots : ReplacesInTime(t) /\ run[t].job = k /\ Own(k)' \subseteq NewChunks
  BY OwnMoves
<1> QED
  BY <1>2, <1>3, <1>4

\* Both.
LEMMA HandsOverNext ==
    ASSUME TypeOK, RunJobs, ChunksWritten, OneRunner, WrittenByChunking, HandsOver, [Next]_vars
    PROVE  HandsOver'
<1>1. ASSUME NEW s \in Slots, s[2] = "chunking", JobOf(s)'.stalls = 0
      PROVE  /\ At(s, "create")' => Own(run[s].job)' \subseteq run'[s].held
             /\ run'[s].pc \in {"complete", "resolve"} => \A c \in Own(run[s].job)' : Named(c)'
  <2>1. PICK k : k = run'[s].job
    OBVIOUS
  <2>2. jobs'[k].stalls = 0
    BY <1>1, <2>1 DEF JobOf
  <2>3. /\ run'[s].pc = "create" => Own(k)' \subseteq run'[s].held
        /\ run'[s].pc \in {"complete", "resolve"} => \A c \in Own(k)' : Named(c)'
    BY <1>1, <2>1, <2>2, HandsOverOn
  <2> QED
    BY ONLY <2>1, <2>3 DEF At, Own
<1>2. \A k \in JobIds' : jobs'[k].stalls = 0 /\ jobs'[k].state = "completed" => \A c \in Own(k)' : Named(c)'
  BY HandedOver
<1> QED
  BY <1>1, <1>2 DEF HandsOver

\* A chunk without a vector is owned.
LEMMA OwnersFound ==
    ASSUME TypeOK, ChunksWritten, WrittenByChunking, HandsOver, EmbeddedOnceDone
    PROVE  UnembeddedHasOwner
<1> SUFFICES ASSUME NEW c \in chunks \ embedded, ~txns[c[1]].late,
                    ~(jobs[txns[c[1]].job].stalls > 0)
             PROVE  \E j \in JobIds : /\ j = txns[c[1]].job \/ c \in jobs[j].chunks
                                      /\ jobs[j].state # "completed"
  BY DEF UnembeddedHasOwner
<1> DEFINE k == txns[c[1]].job
<1>1. c[1] \in 1 .. Len(txns)
  BY DEF ChunksWritten, Written
<1>2. k \in JobIds
  BY <1>1 DEF WrittenByChunking
<1>3. jobs[k] \in Job
  BY <1>2, JobsInSeq DEF TypeOK, JobIds
<1>4. jobs[k].stalls = 0
  <2>1. jobs[k].stalls \in Nat
    BY <1>3 DEF Job
  <2> QED
    BY <2>1
<1>5. CASE jobs[k].state = "completed"
  <2>1. Named(c)
    BY <1>2, <1>4, <1>5 DEF HandsOver, Own
  <2>2. PICK j \in JobIds : jobs[j].queue = "embeddings" /\ c \in jobs[j].chunks
    BY <2>1 DEF Named
  <2>3. jobs[j].state # "completed"
    BY <2>2 DEF EmbeddedOnceDone, Unembedded
  <2> QED
    BY <2>2, <2>3
<1> QED
  BY <1>2, <1>5

(* What is not searchable yet is somebody's job, and a row says what became *)
(* of a job (NoWorkIsLost), for every instance: a chunking job that never   *)
(* stalled hands all it wrote over to an embedding job before it completes, *)
(* and that one completes with none of it left, whatever replacements,      *)
(* zombies and reindexing do to the table meanwhile.                        *)
THEOREM NoWorkLost == Spec => []NoWorkIsLost
<1> DEFINE Inv == /\ ChunksWritten /\ EmbedsTheRest /\ EmbeddedOnceDone /\ OneRunner
                  /\ RowAgreesWithQueue /\ WrittenByChunking /\ HandsOver
<1>1. Init => Inv
  <2> SUFFICES ASSUME Init PROVE Inv
    OBVIOUS
  <2>1. JobIds = {} /\ Len(txns) = 0 /\ chunks = {} /\ \A s \in Slots : run[s] = IdleRun
    BY DEF Init, JobIds
  <2>2. IdleRun.pc = "idle" /\ IdleRun.held = {}
    BY DEF IdleRun
  <2> QED
    BY <2>1, <2>2 DEF ChunksWritten, EmbedsTheRest, EmbeddedOnceDone, OneRunner, RowAgreesWithQueue,
       WrittenByChunking, HandsOver, At, Own, Written
<1>2. TypeOK /\ RunJobs /\ Inv /\ [Next]_vars => Inv'
  BY WrittenNext, EmbedsNext, EmbeddedOnceDoneNext, OneRunnerNext, WrittenByChunkingNext, HandsOverNext
<1>3. TypeOK /\ Inv => NoWorkIsLost
  BY OwnersFound DEF NoWorkIsLost
<1> HIDE DEF Inv
<1> QED
  BY <1>1, <1>2, <1>3, TypeInit, TypeNext, PTL DEF Spec

-----------------------------------------------------------------------------
(* The text of the chunks. Sequences are cut at the first and the last of  *)
(* a set of places, which exist because the order of the naturals is well  *)
(* founded.                                                                *)

(* A set of numbers has a smallest one, which is what induction on numbers *)
(* needs: the order of the naturals is well founded.                       *)
LEMMA Smallest ==
    ASSUME NEW T \in SUBSET Nat, T # {}
    PROVE  \E x \in T : \A y \in T : x <= y
<1> DEFINE R == OpToRel(<, Nat)
<1>1. IsWellFoundedOn(R, Nat)
  BY NatLessThanWellFounded
<1> HIDE DEF R
<1>2. PICK x \in T : \A y \in T : ~(<<y, x>> \in R)
  BY <1>1, WFMin
<1>3. ASSUME NEW y \in T PROVE x <= y
  <2>1. <<y, x>> \in R <=> y < x
    BY DEF R, OpToRel
  <2> QED
    BY <1>2, <2>1
<1> QED
  BY <1>3

\* A set of numbers with a bound has a largest one.
LEMMA Largest ==
    ASSUME NEW n \in Nat, NEW T \in SUBSET (0 .. n), T # {}
    PROVE  \E x \in T : \A y \in T : y <= x
<1> DEFINE U == {n - x : x \in T}
<1>1. U \in SUBSET Nat /\ U # {}
  <2>1. \A x \in T : n - x \in Nat
    OBVIOUS
  <2>2. PICK x \in T : TRUE
    OBVIOUS
  <2> QED
    BY <2>1, <2>2
<1>2. PICK u \in U : \A v \in U : u <= v
  <2> HIDE DEF U
  <2> QED
    BY <1>1, Smallest
<1> QED
  BY <1>2

(* Characters and gaps, and texts in which the characters are in the order *)
(* of the blocks.                                                          *)
Marks == Nat \X Nat
Ordered(t) == \A c, d \in DOMAIN t : c < d /\ Gap \notin {t[c], t[d]} => Before(t[c], t[d])

\* A part of a text.
LEMMA SubText ==
    ASSUME NEW t \in Seq(Marks), NEW i \in 1 .. Len(t), NEW j \in i .. Len(t)
    PROVE  /\ SubSeq(t, i, j) \in Seq(Marks) /\ Len(SubSeq(t, i, j)) = j - i + 1
           /\ \A k \in 1 .. (j - i + 1) : SubSeq(t, i, j)[k] = t[i + k - 1]
BY SubSeqProperties, LenProperties

\* What is left when the gaps at both ends are dropped.
LEMMA TrimmedText ==
    ASSUME NEW t \in Seq(Marks), In(t) # {}
    PROVE  \E i \in 1 .. Len(t) : \E j \in i .. Len(t) :
               /\ Trimmed(t) = SubSeq(t, i, j) /\ t[i] # Gap /\ t[j] # Gap
               /\ \A k \in 1 .. Len(t) : t[k] # Gap => i <= k /\ k <= j
<1> DEFINE kept == {i \in DOMAIN t : t[i] # Gap}
<1>1. Len(t) \in Nat /\ DOMAIN t = 1 .. Len(t)
  BY LenProperties
<1>2. kept # {} /\ kept \in SUBSET (0 .. Len(t)) /\ kept \in SUBSET Nat
  BY <1>1 DEF In
<1>3. /\ \E i \in kept : \A j \in kept : i <= j
      /\ \E i \in kept : \A j \in kept : j <= i
  <2> HIDE DEF kept
  <2> QED
    BY <1>1, <1>2, Smallest, Largest
<1> DEFINE i == CHOOSE k \in kept : \A l \in kept : k <= l
           j == CHOOSE k \in kept : \A l \in kept : l <= k
<1>4. i \in kept /\ \A k \in kept : i <= k
  BY <1>3
<1>5. j \in kept /\ \A k \in kept : k <= j
  BY <1>3
<1>6. Trimmed(t) = SubSeq(t, i, j)
  BY <1>2 DEF Trimmed
<1> HIDE DEF i, j
<1>7. i \in 1 .. Len(t) /\ j \in i .. Len(t) /\ t[i] # Gap /\ t[j] # Gap
  BY <1>1, <1>4, <1>5
<1>8. \A k \in 1 .. Len(t) : t[k] # Gap => i <= k /\ k <= j
  BY <1>1, <1>4, <1>5
<1> QED
  BY <1>6, <1>7, <1>8

\* So it has the same characters in the same order, and begins and ends with one.
LEMMA TrimmedKeeps ==
    ASSUME NEW t \in Seq(Marks), In(t) # {}
    PROVE  LET u == Trimmed(t)
           IN  /\ u \in Seq(Marks) /\ u # <<>> /\ Len(u) \in Nat \ {0} /\ In(u) = In(t)
               /\ u[1] \in In(t) /\ u[Len(u)] \in In(t)
               /\ Ordered(t) => Ordered(u)
               /\ t[Len(t)] # Gap => u[Len(u)] = t[Len(t)]
               /\ \E i \in 1 .. Len(t) :
                      u[1] = t[i] /\ t[i] # Gap /\ \A k \in 1 .. Len(t) : t[k] # Gap => i <= k
<1> DEFINE u == Trimmed(t)
<1>0. PICK i \in 1 .. Len(t) : \E j \in i .. Len(t) :
          /\ u = SubSeq(t, i, j) /\ t[i] # Gap /\ t[j] # Gap
          /\ \A k \in 1 .. Len(t) : t[k] # Gap => i <= k /\ k <= j
  BY TrimmedText
<1>1. PICK j \in i .. Len(t) :
          /\ u = SubSeq(t, i, j) /\ t[i] # Gap /\ t[j] # Gap
          /\ \A k \in 1 .. Len(t) : t[k] # Gap => i <= k /\ k <= j
  BY <1>0
<1> HIDE DEF u
<1>2. Len(t) \in Nat /\ DOMAIN t = 1 .. Len(t)
  BY LenProperties
<1>3. /\ u \in Seq(Marks) /\ Len(u) = j - i + 1
      /\ \A k \in 1 .. (j - i + 1) : u[k] = t[i + k - 1]
  BY <1>1, SubText
<1>4. DOMAIN u = 1 .. (j - i + 1)
  BY <1>3, LenProperties
<1>5. u # <<>> /\ Len(u) \in Nat \ {0}
  BY <1>2, <1>3
<1>6. u[1] = t[i] /\ u[Len(u)] = t[j]
  BY <1>2, <1>3
<1>7. t[i] \in In(t) /\ t[j] \in In(t)
  <2>1. i \in DOMAIN t /\ j \in DOMAIN t
    BY <1>2
  <2> QED
    BY <1>1, <2>1 DEF In
<1>8. In(u) = In(t)
  <2>1. ASSUME NEW c \in In(u) PROVE c \in In(t)
    <3>1. PICK k \in 1 .. (j - i + 1) : c = u[k] /\ c # Gap
      BY <1>4 DEF In
    <3>2. i + k - 1 \in DOMAIN t /\ c = t[i + k - 1]
      BY <1>2, <1>3, <3>1
    <3> QED
      BY <3>1, <3>2 DEF In
  <2>2. ASSUME NEW c \in In(t) PROVE c \in In(u)
    <3>1. PICK k \in 1 .. Len(t) : c = t[k] /\ c # Gap
      BY <1>2 DEF In
    <3>2. k - i + 1 \in 1 .. (j - i + 1) /\ i + (k - i + 1) - 1 = k
      BY <1>1, <1>2, <3>1
    <3>3. u[k - i + 1] = t[k]
      BY <1>3, <3>2
    <3> QED
      BY <1>4, <3>1, <3>2, <3>3 DEF In
  <2> QED
    BY <2>1, <2>2
<1>9. ASSUME Ordered(t) PROVE Ordered(u)
  <2>1. SUFFICES ASSUME NEW c \in DOMAIN u, NEW d \in DOMAIN u, c < d, Gap \notin {u[c], u[d]}
                 PROVE  Before(u[c], u[d])
    BY DEF Ordered
  <2>2. /\ i + c - 1 \in DOMAIN t /\ i + d - 1 \in DOMAIN t /\ i + c - 1 < i + d - 1
        /\ u[c] = t[i + c - 1] /\ u[d] = t[i + d - 1]
    BY <1>2, <1>3, <1>4, <2>1
  <2> QED
    BY <1>9, <2>1, <2>2 DEF Ordered
<1>10. t[Len(t)] # Gap => u[Len(u)] = t[Len(t)]
  <2>1. SUFFICES ASSUME t[Len(t)] # Gap PROVE j = Len(t)
    BY <1>6
  <2>2. Len(t) \in 1 .. Len(t)
    BY <1>2
  <2>3. Len(t) <= j
    BY <1>1, <2>1, <2>2
  <2>4. j \in Int /\ Len(t) \in Int /\ j <= Len(t)
    BY <1>2
  <2> QED
    BY <2>3, <2>4
<1> QED
  BY <1>1, <1>3, <1>5, <1>6, <1>7, <1>8, <1>9, <1>10 DEF u

\* Sequences of any elements, as a longer one is made of them.
IsSeq(s) == \E S : s \in Seq(S)

\* One element more.
LEMMA Appended ==
    ASSUME NEW s, IsSeq(s), NEW e
    PROVE  /\ IsSeq(Append(s, e)) /\ Len(s) \in Nat /\ Len(Append(s, e)) = Len(s) + 1
           /\ DOMAIN s = 1 .. Len(s) /\ DOMAIN Append(s, e) = 1 .. Len(s) + 1
           /\ \A i \in 1 .. Len(s) : Append(s, e)[i] = s[i]
           /\ Append(s, e)[Len(s) + 1] = e
<1>1. PICK S : s \in Seq(S)
  BY DEF IsSeq
<1>2. s \in Seq(S \cup {e}) /\ e \in S \cup {e}
  BY <1>1
<1>3. Append(s, e) \in Seq(S \cup {e})
  BY <1>2
<1> QED
  BY <1>2, <1>3 DEF IsSeq

\* Two sequences in a row.
LEMMA Concatenated ==
    ASSUME NEW s, IsSeq(s), NEW t, IsSeq(t)
    PROVE  /\ IsSeq(s \o t) /\ Len(s) \in Nat /\ Len(t) \in Nat /\ Len(s \o t) = Len(s) + Len(t)
           /\ DOMAIN s = 1 .. Len(s) /\ DOMAIN t = 1 .. Len(t)
           /\ DOMAIN (s \o t) = 1 .. Len(s) + Len(t)
           /\ \A i \in 1 .. Len(s) : (s \o t)[i] = s[i]
           /\ \A i \in 1 .. Len(t) : (s \o t)[Len(s) + i] = t[i]
<1>1. PICK S : s \in Seq(S)
  BY DEF IsSeq
<1>2. PICK T : t \in Seq(T)
  BY DEF IsSeq
<1>3. s \in Seq(S \cup T) /\ t \in Seq(S \cup T)
  BY <1>1, <1>2
<1>4. s \o t \in Seq(S \cup T) /\ Len(s \o t) = Len(s) + Len(t)
  BY <1>3
<1>5. \A i \in 1 .. Len(s) : (s \o t)[i] = s[i]
  BY <1>3
<1>6. \A i \in 1 .. Len(t) : (s \o t)[Len(s) + i] = t[i]
  BY <1>3
<1> QED
  BY <1>3, <1>4, <1>5, <1>6 DEF IsSeq

\* A block, and its characters.
BlockChars(b, n) == {<<b, k>> : k \in 1 .. n}
CharactersOf(blocks) == UNION {{<<b, k>> : k \in 1 .. blocks[b].length} : b \in DOMAIN blocks}

\* The characters of a text are at its places.
LEMMA InText ==
    ASSUME NEW t \in Seq(Marks), NEW c
    PROVE  c \in In(t) <=> \E i \in 1 .. Len(t) : c = t[i] /\ t[i] # Gap
<1>1. DOMAIN t = 1 .. Len(t)
  BY LenProperties
<1> QED
  BY <1>1 DEF In

\* The text of a block.
LEMMA BlockText ==
    ASSUME NEW b \in Nat \ {0}, NEW n \in Nat
    PROVE  /\ Text(b, n) \in Seq(Marks) /\ Len(Text(b, n)) = n
           /\ \A k \in 1 .. n : Text(b, n)[k] = <<b, k>> /\ Text(b, n)[k] # Gap
<1>1. Text(b, n) = [k \in 1 .. n |-> <<b, k>>]
  BY DEF Text
<1>2. \A k \in 1 .. n : <<b, k>> \in Marks /\ <<b, k>> # Gap
  BY DEF Marks, Gap
<1> HIDE DEF Marks, Gap
<1>3. Text(b, n) \in Seq(Marks) /\ Len(Text(b, n)) = n
  BY <1>1, <1>2
<1> QED
  BY <1>1, <1>2, <1>3

\* A text goes on with a block that comes after all it has.
Precedes(t, b) == \A c \in In(t) : c[1] < b

\* What becomes of a text u that goes on with the block b where t ended.
Continues(u, t, b, n) ==
    /\ u \in Seq(Marks) /\ u # <<>> /\ Ordered(u) /\ In(u) = In(t) \cup BlockChars(b, n)
    /\ u[Len(u)] = <<b, n>>
    /\ Trimmed(u)[1][1] = IF In(t) # {} THEN Trimmed(t)[1][1] ELSE b

\* So it is whatever gap is between the two.
LEMMA JoinedText ==
    ASSUME NEW t \in Seq(Marks), Ordered(t), NEW g \in Seq({Gap}), NEW b \in Nat \ {0}, NEW n \in Nat \ {0},
           Precedes(t, b)
    PROVE  Continues(t \o g \o Text(b, n), t, b, n)
<1> DEFINE v == Text(b, n)
           u == t \o g \o v
           m == Len(t)
           l == m + Len(g)
<1>1. /\ v \in Seq(Marks) /\ Len(v) = n /\ \A k \in 1 .. n : v[k] = <<b, k>> /\ v[k] # Gap
  BY BlockText
<1> HIDE DEF v
<1>2. g \in Seq(Marks) /\ \A k \in 1 .. Len(g) : g[k] = Gap
  <2>1. Gap \in Marks
    BY DEF Marks, Gap
  <2>2. \A k \in 1 .. Len(g) : g[k] \in {Gap}
    OBVIOUS
  <2> QED
    BY <2>1, <2>2
<1>3. /\ u \in Seq(Marks) /\ m \in Nat /\ l \in Nat /\ m <= l /\ Len(u) = l + n
      /\ \A k \in 1 .. m : u[k] = t[k]
      /\ \A k \in m + 1 .. l : u[k] = Gap
      /\ \A k \in 1 .. n : u[l + k] = <<b, k>>
  <2>1. /\ t \o g \in Seq(Marks) /\ Len(t \o g) = l
        /\ \A k \in 1 .. m : (t \o g)[k] = t[k]
        /\ \A k \in m + 1 .. l : (t \o g)[k] = g[k - m]
    BY <1>2
  <2>2. \A k \in m + 1 .. l : (t \o g)[k] = Gap
    BY <1>2, <2>1
  <2> DEFINE s == t \o g
  <2> HIDE DEF s
  <2>3. /\ s \o v \in Seq(Marks) /\ Len(s \o v) = Len(s) + n
        /\ \A k \in 1 .. Len(s) : (s \o v)[k] = s[k]
        /\ \A k \in 1 .. n : (s \o v)[Len(s) + k] = v[k]
    <3>1. s \in Seq(Marks)
      BY <2>1 DEF s
    <3>2. /\ s \o v \in Seq(Marks) /\ Len(s \o v) = Len(s) + Len(v)
          /\ \A k \in 1 .. Len(s) + Len(v) : (s \o v)[k] = IF k <= Len(s) THEN s[k] ELSE v[k - Len(s)]
      BY <1>1, <3>1, ConcatProperties
    <3>3. Len(s) \in Nat
      BY <3>1, LenProperties
    <3>4. ASSUME NEW k \in 1 .. n PROVE (s \o v)[Len(s) + k] = v[k]
      <4>1. Len(s) + k \in 1 .. Len(s) + Len(v) /\ ~(Len(s) + k <= Len(s)) /\ Len(s) + k - Len(s) = k
        BY <1>1, <3>3
      <4> QED
        BY <3>2, <4>1
    <3>5. ASSUME NEW k \in 1 .. Len(s) PROVE (s \o v)[k] = s[k]
      <4>1. k \in 1 .. Len(s) + Len(v) /\ k <= Len(s)
        BY <1>1, <3>3
      <4> QED
        BY <3>2, <4>1
    <3> QED
      BY <1>1, <3>2, <3>4, <3>5
  <2>4. u = s \o v
    BY DEF s
  <2>5. Len(s) = l /\ m \in Nat /\ l \in Nat /\ m <= l
    BY <1>2, <2>1 DEF s
  <2> HIDE DEF u, m, l
  <2>6. u \in Seq(Marks) /\ Len(u) = l + n /\ \A k \in 1 .. l : u[k] = s[k]
    BY <1>1, <2>3, <2>4, <2>5
  <2>7. \A k \in 1 .. n : u[l + k] = <<b, k>>
    BY <1>1, <2>3, <2>4, <2>5
  <2>8. \A k \in 1 .. m : k \in 1 .. l
    BY <2>5
  <2>9. \A k \in m + 1 .. l : k \in 1 .. l
    BY <2>5
  <2> QED
    BY <2>1, <2>2, <2>5, <2>6, <2>7, <2>8, <2>9 DEF s
<1> HIDE DEF u, m, l
<1>4. DOMAIN u = 1 .. l + n /\ DOMAIN t = 1 .. m
  BY <1>3, LenProperties DEF m
<1>5. ASSUME NEW c \in DOMAIN u
      PROVE  \/ c \in 1 .. m /\ u[c] = t[c]
             \/ c \in m + 1 .. l /\ u[c] = Gap
             \/ c - l \in 1 .. n /\ c = l + (c - l) /\ u[c] = <<b, c - l>>
  <2>1. c \in Int /\ 1 <= c /\ c <= l + n
    BY <1>3, <1>4
  <2>2. CASE c <= l
    BY <1>3, <2>1, <2>2
  <2>3. CASE l < c
    <3>1. c - l \in 1 .. n /\ c = l + (c - l)
      BY <1>3, <2>1, <2>3
    <3> QED
      BY <1>3, <3>1
  <2> QED
    BY <1>3, <2>1, <2>2, <2>3
<1>6. u # <<>> /\ u[Len(u)] = <<b, n>>
  <2>1. Len(u) # 0 /\ n \in 1 .. n
    BY <1>3
  <2>2. u # <<>>
    BY <1>3, <2>1, EmptySeq
  <2>3. u[l + n] = <<b, n>>
    BY <1>3, <2>1
  <2> QED
    BY <1>3, <2>2, <2>3
<1>7. \A c \in 1 .. m : u[c] # Gap => u[c] \in In(t) /\ u[c][1] < b
  BY <1>3, InText DEF m, Precedes
<1>8. Ordered(u)
  <2>1. SUFFICES ASSUME NEW c \in DOMAIN u, NEW d \in DOMAIN u, c < d, Gap \notin {u[c], u[d]}
                 PROVE  Before(u[c], u[d])
    BY DEF Ordered
  <2>2. CASE c \in 1 .. m /\ d \in 1 .. m
    BY <1>3, <1>4, <2>1, <2>2 DEF Ordered
  <2>3. CASE c \in 1 .. m /\ d - l \in 1 .. n
    <3>1. u[c][1] < b
      BY <1>7, <2>1, <2>3
    <3>2. u[d] = <<b, d - l>>
      BY <1>3, <1>4, <1>5, <2>1, <2>3
    <3> QED
      BY <3>1, <3>2 DEF Before
  <2>4. CASE c - l \in 1 .. n /\ d - l \in 1 .. n
    <3>1. u[c] = <<b, c - l>> /\ u[d] = <<b, d - l>>
      BY <1>3, <1>4, <1>5, <2>4
    <3>2. c - l < d - l
      BY <1>3, <1>4, <2>1
    <3> QED
      BY <3>1, <3>2 DEF Before
  <2> QED
    BY <1>3, <1>4, <1>5, <2>1, <2>2, <2>3, <2>4
<1>9. In(u) = In(t) \cup BlockChars(b, n)
  <2>1. ASSUME NEW c \in In(u) PROVE c \in In(t) \cup BlockChars(b, n)
    <3>1. PICK k \in DOMAIN u : c = u[k] /\ u[k] # Gap
      BY <2>1 DEF In
    <3>2. CASE k \in 1 .. m
      BY <1>7, <3>1, <3>2
    <3>3. CASE k - l \in 1 .. n /\ u[k] = <<b, k - l>>
      BY <3>1, <3>3 DEF BlockChars
    <3> QED
      BY <1>5, <3>1, <3>2, <3>3
  <2>2. ASSUME NEW c \in In(t) PROVE c \in In(u)
    <3>1. PICK k \in 1 .. m : c = t[k] /\ t[k] # Gap
      BY <2>2, InText DEF m
    <3>2. k \in 1 .. Len(u) /\ u[k] = t[k]
      BY <1>3
    <3> QED
      BY <1>3, <3>1, <3>2, InText
  <2>3. ASSUME NEW c \in BlockChars(b, n) PROVE c \in In(u)
    <3>1. PICK k \in 1 .. n : c = <<b, k>>
      BY DEF BlockChars
    <3>2. l + k \in 1 .. Len(u) /\ u[l + k] = c /\ c # Gap
      BY <1>3, <3>1 DEF Gap
    <3> QED
      BY <1>3, <3>2, InText
  <2> QED
    BY <2>1, <2>2, <2>3
<1>10. PICK i \in 1 .. Len(u) :
           Trimmed(u)[1] = u[i] /\ u[i] # Gap /\ \A k \in 1 .. Len(u) : u[k] # Gap => i <= k
  <2>1. <<b, n>> \in In(u)
    BY <1>9 DEF BlockChars
  <2> QED
    BY <1>3, <2>1, TrimmedKeeps
<1>11. ASSUME In(t) # {} PROVE Trimmed(u)[1] = Trimmed(t)[1]
  <2>1. PICK j \in 1 .. m : Trimmed(t)[1] = t[j] /\ t[j] # Gap /\ \A k \in 1 .. m : t[k] # Gap => j <= k
    BY <1>11, TrimmedKeeps DEF m
  <2>2. j \in 1 .. Len(u) /\ u[j] = t[j]
    BY <1>3
  <2>3. i <= j
    BY <1>10, <2>1, <2>2
  <2>4. i \in 1 .. m /\ u[i] = t[i]
    BY <1>3, <2>3
  <2>5. j <= i
    BY <1>10, <2>1, <2>4
  <2>6. i \in Int /\ j \in Int
    BY <1>3
  <2> QED
    BY <1>10, <2>1, <2>3, <2>4, <2>5, <2>6
<1>12. ASSUME In(t) = {} PROVE Trimmed(u)[1][1] = b
  <2>1. u[i] \in BlockChars(b, n)
    BY <1>3, <1>9, <1>10, <1>12, InText
  <2> QED
    BY <1>10, <2>1 DEF BlockChars
<1>13. Trimmed(u)[1][1] = IF In(t) # {} THEN Trimmed(t)[1][1] ELSE b
  BY <1>11, <1>12
<1> QED
  BY <1>3, <1>6, <1>8, <1>9, <1>13 DEF u, v, Continues

\* The text u is t, a gap or none, and the block b.
Joins(u, t, b, n) == \E g \in Seq({Gap}) : u = t \o g \o Text(b, n)

\* So it is for what is gathered.
LEMMA Joined ==
    ASSUME NEW t \in Seq(Marks), Ordered(t), NEW b \in Nat \ {0}, NEW n \in Nat \ {0}, Precedes(t, b),
           NEW u, Joins(u, t, b, n)
    PROVE  Continues(u, t, b, n)
<1>1. PICK g \in Seq({Gap}) : u = t \o g \o Text(b, n)
  BY DEF Joins
<1>2. Continues(t \o g \o Text(b, n), t, b, n)
  BY JoinedText
<1> QED
  BY <1>1, <1>2

\* What the next text begins with is the end of the one before it.
LEMMA Overlapped ==
    ASSUME NEW t \in Seq(Marks), Ordered(t)
    PROVE  /\ Overlap(t) \in Seq(Marks) /\ Ordered(Overlap(t)) /\ In(Overlap(t)) \subseteq In(t)
           /\ t = <<>> => Overlap(t) = <<>>
<1> DEFINE i == IF Len(t) > ChunkOverlap THEN Len(t) - ChunkOverlap + 1 ELSE 1
           u == Overlap(t)
<1>1. Len(t) \in Nat /\ DOMAIN t = 1 .. Len(t) /\ i \in Nat /\ 1 <= i /\ i <= Len(t) + 1
  BY ChunkingAssumption, LenProperties
<1>2. u = SubSeq(t, i, Len(t))
  BY DEF Overlap
<1>3. t = <<>> => Len(t) < i
  BY <1>1, EmptySeq
<1> HIDE DEF i, u
<1>4. CASE Len(t) < i
  <2>1. u = <<>>
    BY <1>1, <1>2, <1>4, SubSeqEmpty
  <2>2. u \in Seq(Marks) /\ Len(u) = 0 /\ DOMAIN u = {}
    BY <2>1
  <2> QED
    BY <2>1, <2>2 DEF Ordered, In, u
<1>5. CASE i <= Len(t)
  <2>1. i \in 1 .. Len(t) /\ Len(t) \in i .. Len(t)
    BY <1>1, <1>5
  <2>2. /\ u \in Seq(Marks) /\ Len(u) = Len(t) - i + 1
        /\ \A k \in 1 .. (Len(t) - i + 1) : u[k] = t[i + k - 1]
    BY <1>2, <2>1, SubText
  <2>3. DOMAIN u = 1 .. (Len(t) - i + 1)
    BY <2>2, LenProperties
  <2>4. ASSUME NEW c \in DOMAIN u
        PROVE  i + c - 1 \in DOMAIN t /\ u[c] = t[i + c - 1] /\ c \in Int
    BY <1>1, <2>2, <2>3
  <2>5. In(u) \subseteq In(t)
    BY <2>4 DEF In
  <2>6. Ordered(u)
    <3>1. SUFFICES ASSUME NEW c \in DOMAIN u, NEW d \in DOMAIN u, c < d, Gap \notin {u[c], u[d]}
                   PROVE  Before(u[c], u[d])
      BY DEF Ordered
    <3>2. i + c - 1 < i + d - 1
      BY <1>1, <2>4, <3>1
    <3> QED
      BY <2>4, <3>1, <3>2 DEF Ordered
  <2> QED
    BY <1>1, <1>3, <2>2, <2>5, <2>6, <1>5 DEF u
<1> QED
  BY <1>1, <1>4, <1>5

-----------------------------------------------------------------------------
(* Chunks of a text.                                                       *)

\* The character with which a chunk ends, and all that chunks hold.
LastOf(c) == c.text[Len(c.text)]
Held(made) == UNION {In(made[i].text) : i \in DOMAIN made}

\* What ChunksCiteTheText says of one chunk.
Cites(c, blocks) ==
    /\ c.text \in Seq(Marks) /\ c.text # <<>> /\ In(c.text) \subseteq CharactersOf(blocks)
    /\ Ordered(c.text) /\ c.text[1] \in In(c.text) /\ LastOf(c) \in In(c.text)
    /\ c.label = blocks[c.text[1][1]].label

\* Chunks that cite, each of which ends after the one before it.
Follow(made, blocks) ==
    /\ IsSeq(made)
    /\ \A i \in 1 .. Len(made) : Cites(made[i], blocks)
    /\ \A i \in 1 .. Len(made) - 1 : Before(LastOf(made[i]), LastOf(made[i + 1]))

\* The last chunk ends before the block.
EndsBefore(made, b) == made # <<>> => LastOf(made[Len(made)])[1] < b

\* A chunk more that ends after them.
LEMMA ChunkAdded ==
    ASSUME NEW blocks, NEW made, Follow(made, blocks), NEW c, Cites(c, blocks),
           made # <<>> => Before(LastOf(made[Len(made)]), LastOf(c))
    PROVE  /\ Follow(Append(made, c), blocks) /\ Held(Append(made, c)) = Held(made) \cup In(c.text)
           /\ Append(made, c) # <<>> /\ Append(made, c)[Len(Append(made, c))] = c
<1> DEFINE s == Append(made, c)
<1>1. /\ IsSeq(s) /\ Len(made) \in Nat /\ Len(s) = Len(made) + 1
      /\ DOMAIN made = 1 .. Len(made) /\ DOMAIN s = 1 .. Len(made) + 1
      /\ \A i \in 1 .. Len(made) : s[i] = made[i]
      /\ s[Len(made) + 1] = c
  BY Appended DEF Follow
<1> HIDE DEF s
<1>2. \A i \in 1 .. Len(s) : Cites(s[i], blocks)
  <2>1. SUFFICES ASSUME NEW i \in 1 .. Len(s) PROVE Cites(s[i], blocks)
    OBVIOUS
  <2>2. CASE i = Len(made) + 1
    BY <1>1, <2>2
  <2>3. CASE i \in 1 .. Len(made)
    BY <1>1, <2>3 DEF Follow
  <2> QED
    BY <1>1, <2>2, <2>3
<1>3. \A i \in 1 .. Len(s) - 1 : Before(LastOf(s[i]), LastOf(s[i + 1]))
  <2>1. SUFFICES ASSUME NEW i \in 1 .. Len(s) - 1 PROVE Before(LastOf(s[i]), LastOf(s[i + 1]))
    OBVIOUS
  <2>2. i \in 1 .. Len(made) /\ s[i] = made[i]
    BY <1>1
  <2>3. CASE i = Len(made)
    <3>1. made # <<>>
      BY <1>1, <2>2, <2>3
    <3> QED
      BY <1>1, <2>2, <2>3, <3>1
  <2>4. CASE i \in 1 .. Len(made) - 1
    <3>1. i + 1 \in 1 .. Len(made) /\ s[i + 1] = made[i + 1]
      BY <1>1, <2>4
    <3> QED
      BY <2>2, <2>4, <3>1 DEF Follow
  <2>5. Len(made) \in Nat
    BY <1>1
  <2>6. i = Len(made) \/ i \in 1 .. Len(made) - 1
    BY <2>2, <2>5
  <2> QED
    BY <2>3, <2>4, <2>6
<1>4. Held(s) = Held(made) \cup In(c.text)
  <2>1. ASSUME NEW x \in Held(s) PROVE x \in Held(made) \cup In(c.text)
    <3>1. PICK i \in DOMAIN s : x \in In(s[i].text)
      BY DEF Held
    <3>2. CASE i = Len(made) + 1
      BY <1>1, <3>1, <3>2
    <3>3. CASE i \in 1 .. Len(made)
      BY <1>1, <3>1, <3>3 DEF Held
    <3> QED
      BY <1>1, <3>2, <3>3
  <2>2. ASSUME NEW x \in Held(made) PROVE x \in Held(s)
    <3>1. PICK i \in DOMAIN made : x \in In(made[i].text)
      BY DEF Held
    <3>2. i \in DOMAIN s /\ s[i] = made[i]
      BY <1>1
    <3> QED
      BY <3>1, <3>2 DEF Held
  <2>3. ASSUME NEW x \in In(c.text) PROVE x \in Held(s)
    <3>1. Len(made) + 1 \in DOMAIN s
      BY <1>1
    <3> QED
      BY <1>1, <2>3, <3>1 DEF Held
  <2> QED
    BY <2>1, <2>2, <2>3
<1>5. s # <<>> /\ s[Len(s)] = c
  BY <1>1, EmptySeq
<1> QED
  BY <1>1, <1>2, <1>3, <1>4, <1>5 DEF s, Follow

\* More chunks, the first of which ends after them.
LEMMA ChunksAdded ==
    ASSUME NEW blocks, NEW made, Follow(made, blocks), NEW more, Follow(more, blocks), more # <<>>,
           made # <<>> => Before(LastOf(made[Len(made)]), LastOf(more[1]))
    PROVE  LET s == made \o more
           IN  /\ Follow(s, blocks) /\ Held(s) = Held(made) \cup Held(more)
               /\ s # <<>> /\ s[Len(s)] = more[Len(more)]
<1> DEFINE s == made \o more
           m == Len(made)
           n == Len(more)
<1>1. /\ IsSeq(s) /\ m \in Nat /\ n \in Nat /\ Len(s) = m + n
      /\ DOMAIN made = 1 .. m /\ DOMAIN more = 1 .. n /\ DOMAIN s = 1 .. m + n
      /\ \A i \in 1 .. m : s[i] = made[i]
      /\ \A i \in 1 .. n : s[m + i] = more[i]
  BY Concatenated DEF Follow
<1>2. n # 0
  BY <1>1, EmptySeq DEF Follow, IsSeq
<1>3. made # <<>> <=> m # 0
  BY <1>1, EmptySeq DEF Follow, IsSeq
<1> HIDE DEF s, m, n
<1>4. ASSUME NEW i \in 1 .. m + n
      PROVE  \/ i \in 1 .. m /\ s[i] = made[i]
             \/ i - m \in 1 .. n /\ s[i] = more[i - m]
  <2>1. CASE i <= m
    <3>1. i \in 1 .. m
      BY <1>1, <2>1
    <3> QED
      BY <1>1, <3>1
  <2>2. CASE m < i
    <3>1. i - m \in 1 .. n /\ m + (i - m) = i
      BY <1>1, <2>2
    <3> QED
      BY <1>1, <3>1
  <2> QED
    BY <1>1, <2>1, <2>2
<1>5. \A i \in 1 .. Len(s) : Cites(s[i], blocks)
  BY <1>1, <1>4 DEF Follow, m, n
<1>6. \A i \in 1 .. Len(s) - 1 : Before(LastOf(s[i]), LastOf(s[i + 1]))
  <2>1. SUFFICES ASSUME NEW i \in 1 .. Len(s) - 1 PROVE Before(LastOf(s[i]), LastOf(s[i + 1]))
    OBVIOUS
  <2>2. CASE i \in 1 .. m - 1
    <3>1. i \in 1 .. m /\ i + 1 \in 1 .. m
      BY <1>1, <2>2
    <3>2. s[i] = made[i] /\ s[i + 1] = made[i + 1]
      BY <1>1, <3>1
    <3> QED
      BY <2>2, <3>2 DEF Follow, m
  <2>3. CASE i = m
    <3>1. m # 0 /\ i \in 1 .. m /\ 1 \in 1 .. n
      BY <1>1, <1>2, <2>3
    <3>2. s[i] = made[m] /\ s[i + 1] = more[1]
      BY <1>1, <2>3, <3>1
    <3> QED
      BY <1>3, <3>1, <3>2 DEF m
  <2>4. CASE i - m \in 1 .. n - 1
    <3>1. i - m \in 1 .. n /\ i - m + 1 \in 1 .. n /\ m + (i - m) = i /\ m + (i - m + 1) = i + 1
      BY <1>1, <2>4
    <3>2. s[m + (i - m)] = more[i - m] /\ s[m + (i - m + 1)] = more[i - m + 1]
      BY <1>1, <3>1
    <3>3. s[i] = more[i - m] /\ s[i + 1] = more[i - m + 1]
      BY <3>1, <3>2
    <3> QED
      BY <2>4, <3>3 DEF Follow, n
  <2>5. i \in 1 .. m - 1 \/ i = m \/ i - m \in 1 .. n - 1
    BY <1>1
  <2> QED
    BY <2>2, <2>3, <2>4, <2>5
<1>7. Held(s) = Held(made) \cup Held(more)
  <2>1. ASSUME NEW x \in Held(s) PROVE x \in Held(made) \cup Held(more)
    <3>1. PICK i \in DOMAIN s : x \in In(s[i].text)
      BY DEF Held
    <3> QED
      BY <1>1, <1>4, <3>1 DEF Held
  <2>2. ASSUME NEW x \in Held(made) PROVE x \in Held(s)
    <3>1. PICK i \in DOMAIN made : x \in In(made[i].text)
      BY DEF Held
    <3>2. i \in DOMAIN s /\ s[i] = made[i]
      BY <1>1
    <3> QED
      BY <3>1, <3>2 DEF Held
  <2>3. ASSUME NEW x \in Held(more) PROVE x \in Held(s)
    <3>1. PICK i \in DOMAIN more : x \in In(more[i].text)
      BY DEF Held
    <3>2. m + i \in DOMAIN s /\ s[m + i] = more[i]
      BY <1>1
    <3> QED
      BY <3>1, <3>2 DEF Held
  <2> QED
    BY <2>1, <2>2, <2>3
<1>8. s # <<>> /\ s[Len(s)] = more[n]
  <2>1. n \in 1 .. n /\ Len(s) # 0
    BY <1>1, <1>2
  <2> QED
    BY <1>1, <2>1, EmptySeq
<1> QED
  BY <1>1, <1>5, <1>6, <1>7, <1>8 DEF s, n, Follow

\* A block more leaves what was cited as it was.
LEMMA BlockRead ==
    ASSUME NEW blocks, IsSeq(blocks), NEW e
    PROVE  LET more == Append(blocks, e)
           IN  /\ CharactersOf(more) = CharactersOf(blocks) \cup BlockChars(Len(blocks) + 1, e.length)
               /\ \A c \in CharactersOf(blocks) : c[1] \in 1 .. Len(blocks) /\ more[c[1]] = blocks[c[1]]
               /\ \A c : Cites(c, blocks) => Cites(c, more)
               /\ \A made : Follow(made, blocks) => Follow(made, more)
<1> DEFINE more == Append(blocks, e)
           n == Len(blocks)
<1>1. /\ IsSeq(more) /\ n \in Nat /\ Len(more) = n + 1
      /\ DOMAIN blocks = 1 .. n /\ DOMAIN more = 1 .. n + 1
      /\ \A i \in 1 .. n : more[i] = blocks[i]
      /\ more[n + 1] = e
  BY Appended
<1> HIDE DEF more, n
<1>2. CharactersOf(more) = CharactersOf(blocks) \cup BlockChars(n + 1, e.length)
  <2>1. ASSUME NEW x \in CharactersOf(more) PROVE x \in CharactersOf(blocks) \cup BlockChars(n + 1, e.length)
    <3>1. PICK b \in DOMAIN more : x \in {<<b, k>> : k \in 1 .. more[b].length}
      BY DEF CharactersOf
    <3>2. CASE b = n + 1
      BY <1>1, <3>1, <3>2 DEF BlockChars
    <3>3. CASE b \in 1 .. n
      BY <1>1, <3>1, <3>3 DEF CharactersOf
    <3> QED
      BY <1>1, <3>2, <3>3
  <2>2. ASSUME NEW x \in CharactersOf(blocks) PROVE x \in CharactersOf(more)
    <3>1. PICK b \in DOMAIN blocks : x \in {<<b, k>> : k \in 1 .. blocks[b].length}
      BY DEF CharactersOf
    <3>2. b \in DOMAIN more /\ more[b] = blocks[b]
      BY <1>1
    <3> QED
      BY <3>1, <3>2 DEF CharactersOf
  <2>3. ASSUME NEW x \in BlockChars(n + 1, e.length) PROVE x \in CharactersOf(more)
    <3>1. n + 1 \in DOMAIN more
      BY <1>1
    <3> QED
      BY <1>1, <2>3, <3>1 DEF CharactersOf, BlockChars
  <2> QED
    BY <2>1, <2>2, <2>3
<1>3. \A c \in CharactersOf(blocks) : c[1] \in 1 .. n /\ more[c[1]] = blocks[c[1]]
  <2>1. SUFFICES ASSUME NEW c \in CharactersOf(blocks) PROVE c[1] \in 1 .. n
    BY <1>1
  <2>2. PICK b \in DOMAIN blocks : c \in {<<b, k>> : k \in 1 .. blocks[b].length}
    BY DEF CharactersOf
  <2> QED
    BY <1>1, <2>2
<1>4. ASSUME NEW c, Cites(c, blocks) PROVE Cites(c, more)
  <2>1. /\ c.text \in Seq(Marks) /\ c.text # <<>> /\ LastOf(c) \in In(c.text) /\ Ordered(c.text)
        /\ c.text[1] \in In(c.text) /\ In(c.text) \subseteq CharactersOf(blocks)
        /\ c.label = blocks[c.text[1][1]].label
    BY <1>4 DEF Cites
  <2>2. more[c.text[1][1]] = blocks[c.text[1][1]]
    BY <1>3, <2>1
  <2> QED
    BY <1>2, <2>1, <2>2 DEF Cites
<1> QED
  BY <1>2, <1>3, <1>4 DEF more, n, Follow

\* A text of the blocks that ends with a character, and the chunk that is made of it.
Fits(t, blocks) ==
    /\ t \in Seq(Marks) /\ Ordered(t) /\ In(t) # {} /\ In(t) \subseteq CharactersOf(blocks)
    /\ t[Len(t)] # Gap
IsPiece(c, t, blocks) == c.text = Trimmed(t) /\ c.label = blocks[Trimmed(t)[1][1]].label

LEMMA PieceCites ==
    ASSUME NEW blocks, NEW t, Fits(t, blocks), NEW c, IsPiece(c, t, blocks)
    PROVE  Cites(c, blocks) /\ In(c.text) = In(t) /\ LastOf(c) = t[Len(t)] /\ c.text # <<>>
<1> DEFINE u == Trimmed(t)
<1>1. /\ u \in Seq(Marks) /\ u # <<>> /\ In(u) = In(t)
      /\ u[1] \in In(t) /\ u[Len(u)] \in In(t) /\ Ordered(u) /\ u[Len(u)] = t[Len(t)]
  BY TrimmedKeeps DEF Fits
<1>2. c.text = u /\ c.label = blocks[u[1][1]].label
  BY DEF IsPiece
<1> HIDE DEF u
<1>3. LastOf(c) = u[Len(u)]
  BY <1>2 DEF LastOf
<1> QED
  BY <1>1, <1>2, <1>3 DEF Cites, Fits

\* A block cut at a fixed size is cut in pieces that follow each other and miss none of it.
LEMMA CutsCite ==
    ASSUME NEW blocks, NEW b \in Nat \ {0}, NEW n \in Nat \ {0}, b \in DOMAIN blocks,
           blocks[b].length = n, NEW label, blocks[b].label = label, NEW at
    PROVE  LET cuts == Cuts(b, n, label, at)
           IN  /\ Follow(cuts, blocks) /\ Held(cuts) = BlockChars(b, n) /\ cuts # <<>>
               /\ LastOf(cuts[1])[1] = b /\ LastOf(cuts[Len(cuts)])[1] = b
<1> DEFINE S == Stride
           m == IF n <= ChunkSize THEN 1 ELSE 1 + (n - ChunkSize + S - 1) \div S
           from(i) == (i - 1) * S
           to(i) == IF from(i) + ChunkSize < n THEN from(i) + ChunkSize ELSE n
           piece(i) == Piece(SubSeq(Text(b, n), from(i) + 1, to(i)), label, at + from(i), at + to(i))
           cuts == Cuts(b, n, label, at)
<1>1. ChunkSize \in Nat /\ S \in Nat /\ 1 <= S /\ S <= ChunkSize
  BY ChunkingAssumption DEF Stride
<1>2. cuts = [i \in 1 .. m |-> piece(i)]
  BY DEF Cuts, Pieces
<1> HIDE DEF S
<1>3. /\ m \in Nat /\ 1 <= m /\ (m - 1) * S < n /\ (m - 1) * S + ChunkSize >= n
      /\ m # 1 => (m - 2) * S + ChunkSize < n
  <2>1. CASE n <= ChunkSize
    BY <1>1, <2>1
  <2>2. CASE ~(n <= ChunkSize)
    <3> DEFINE x == n - ChunkSize
               q == (x + S - 1) \div S
    <3>1. x \in Nat /\ 1 <= x /\ x < n
      BY <1>1, <2>2
    <3>2. q \in Nat /\ q * S <= x + S - 1 /\ x + S - 1 < (q + 1) * S
      BY <1>1, <3>1
    <3>3. m = 1 + q
      BY <2>2
    <3> HIDE DEF x, q, m
    <3>4. (q + 1) * S = q * S + S /\ (q - 1) * S = q * S - S /\ q * S \in Int
      BY <1>1, <3>2
    <3>5. m - 1 = q /\ m - 2 = q - 1
      BY <3>2, <3>3
    <3>6. x <= q * S /\ q * S - S < x
      BY <1>1, <3>1, <3>2, <3>4
    <3>7. n = x + ChunkSize /\ S <= ChunkSize
      BY <1>1 DEF x
    <3>8. q * S < n
      BY <1>1, <3>1, <3>2, <3>4, <3>7
    <3> QED
      BY <1>1, <3>1, <3>2, <3>3, <3>4, <3>5, <3>6, <3>7, <3>8
  <2> QED
    BY <2>1, <2>2
<1> HIDE DEF m
<1>4. ASSUME NEW i \in 1 .. m
      PROVE  /\ from(i) \in Nat /\ from(i) < n
             /\ i < m => from(i + 1) = from(i) + S /\ from(i) + ChunkSize < n
             /\ i = 1 => from(i) = 0
             /\ i = m => from(i) + ChunkSize >= n
  <2>1. i \in Int /\ 1 <= i /\ i <= m /\ m \in Int
    BY <1>3
  <2>2. (i - 1) * S <= (m - 1) * S /\ (i - 1) * S \in Nat
    <3>1. i - 1 \in Nat /\ m - 1 \in Nat /\ i - 1 <= m - 1
      BY <2>1
    <3> DEFINE x == i - 1
               y == m - 1
    <3> HIDE DEF x, y
    <3>2. x * S <= y * S /\ x * S \in Nat
      BY <1>1, <3>1 DEF x, y
    <3> QED
      BY <3>2 DEF x, y
  <2>3. i < m => (i - 1) * S <= (m - 2) * S
    <3>1. SUFFICES ASSUME i < m PROVE (i - 1) * S <= (m - 2) * S
      OBVIOUS
    <3>2. i - 1 \in Nat /\ m - 2 \in Nat /\ i - 1 <= m - 2
      BY <2>1, <3>1
    <3> DEFINE x == i - 1
               y == m - 2
    <3> HIDE DEF x, y
    <3>3. x * S <= y * S
      BY <1>1, <3>2 DEF x, y
    <3> QED
      BY <3>3 DEF x, y
  <2>4. (i + 1 - 1) * S = (i - 1) * S + S
    BY <1>1, <2>1
  <2> QED
    BY <1>1, <1>3, <2>1, <2>2, <2>3, <2>4
<1>5. ASSUME NEW i \in 1 .. m
      PROVE  /\ to(i) \in Nat /\ from(i) < to(i) /\ to(i) <= n
             /\ i < m => to(i) = from(i) + ChunkSize /\ to(i) < n /\ from(i + 1) <= to(i)
             /\ i = m => to(i) = n
  <2>1. /\ from(i) \in Nat /\ from(i) < n
        /\ i < m => from(i + 1) = from(i) + S /\ from(i) + ChunkSize < n
        /\ i = m => from(i) + ChunkSize >= n
    BY <1>4
  <2> HIDE DEF from
  <2> QED
    BY <1>1, <2>1
<1>6. ASSUME NEW i \in 1 .. m, i < m PROVE to(i) < to(i + 1)
  <2>1. i + 1 \in 1 .. m
    BY <1>3, <1>6
  <2>2. /\ to(i + 1) = n \/ to(i + 1) = from(i + 1) + ChunkSize
        /\ from(i + 1) = from(i) + S
    BY <1>4, <1>6
  <2>3. to(i) < n /\ to(i) = from(i) + ChunkSize /\ from(i) \in Nat
    BY <1>4, <1>5, <1>6
  <2> HIDE DEF from, to
  <2> QED
    BY <1>1, <2>2, <2>3
<1>7. /\ 1 \in 1 .. m /\ m \in 1 .. m /\ from(1) = 0 /\ to(m) = n
      /\ \A i \in 1 .. m : from(i) \in Nat
  <2>1. 1 \in 1 .. m /\ m \in 1 .. m
    BY <1>3
  <2> HIDE DEF from, to
  <2> QED
    BY <1>4, <1>5, <2>1
<1> HIDE DEF from, to
<1>8. ASSUME NEW i \in 1 .. m
      PROVE  /\ Cites(piece(i), blocks) /\ LastOf(piece(i)) = <<b, to(i)>>
             /\ In(piece(i).text) = {<<b, k>> : k \in from(i) + 1 .. to(i)}
  <2> DEFINE t == SubSeq(Text(b, n), from(i) + 1, to(i))
             f == from(i)
             e == to(i)
  <2>1. f \in Nat /\ e \in Nat /\ f < e /\ e <= n
    BY <1>5, <1>7
  <2> HIDE DEF f, e
  <2>2. /\ Text(b, n) \in Seq(Marks) /\ Len(Text(b, n)) = n
        /\ \A k \in 1 .. n : Text(b, n)[k] = <<b, k>> /\ Text(b, n)[k] # Gap
    BY BlockText
  <2>3. f + 1 \in 1 .. n /\ e \in f + 1 .. n
    BY <2>1
  <2>4. t = SubSeq(Text(b, n), f + 1, e)
    BY DEF f, e
  <2> HIDE DEF t
  <2>5. /\ t \in Seq(Marks) /\ Len(t) = e - f /\ \A k \in 1 .. e - f : t[k] = Text(b, n)[f + k]
    <3>1. /\ t \in Seq(Marks) /\ Len(t) = e - (f + 1) + 1
          /\ \A k \in 1 .. (e - (f + 1) + 1) : t[k] = Text(b, n)[f + 1 + k - 1]
      BY <2>2, <2>3, <2>4, SubText
    <3>2. e - (f + 1) + 1 = e - f /\ \A k \in 1 .. e - f : f + 1 + k - 1 = f + k
      BY <2>1
    <3> QED
      BY <3>1, <3>2
  <2>6. ASSUME NEW k \in 1 .. e - f PROVE t[k] = <<b, f + k>> /\ t[k] # Gap /\ f + k \in f + 1 .. e
    <3>1. f + k \in 1 .. n /\ f + k \in f + 1 .. e
      BY <2>1
    <3> QED
      BY <2>2, <2>5, <3>1
  <2>7. DOMAIN t = 1 .. e - f
    BY <2>5, LenProperties
  <2>8. In(t) = {<<b, k>> : k \in f + 1 .. e}
    <3>1. ASSUME NEW x \in In(t) PROVE x \in {<<b, k>> : k \in f + 1 .. e}
      <4>1. PICK k \in 1 .. e - f : x = t[k]
        BY <2>7 DEF In
      <4> QED
        BY <2>6, <4>1
    <3>2. ASSUME NEW k \in f + 1 .. e PROVE <<b, k>> \in In(t)
      <4>1. k - f \in 1 .. e - f /\ f + (k - f) = k
        BY <2>1
      <4> QED
        BY <2>6, <2>7, <4>1 DEF In
    <3> QED
      BY <3>1, <3>2
  <2>9. Ordered(t)
    <3>1. SUFFICES ASSUME NEW c \in DOMAIN t, NEW d \in DOMAIN t, c < d PROVE Before(t[c], t[d])
      BY DEF Ordered
    <3>2. t[c] = <<b, f + c>> /\ t[d] = <<b, f + d>> /\ f + c < f + d
      BY <2>1, <2>6, <2>7, <3>1
    <3> QED
      BY <3>2 DEF Before
  <2>10. t[Len(t)] = <<b, e>> /\ t[Len(t)] # Gap /\ In(t) # {}
    <3>1. e - f \in 1 .. e - f /\ f + (e - f) = e /\ e \in f + 1 .. e
      BY <2>1
    <3>2. <<b, e>> \in In(t)
      BY <2>8, <3>1
    <3>3. t[Len(t)] = <<b, f + (e - f)>> /\ t[Len(t)] # Gap
      BY <2>5, <2>6, <3>1
    <3> QED
      BY <3>1, <3>2, <3>3
  <2>11. In(t) \subseteq CharactersOf(blocks)
    <3>1. ASSUME NEW k \in f + 1 .. e PROVE <<b, k>> \in CharactersOf(blocks)
      <4>1. k \in 1 .. blocks[b].length
        BY <2>1
      <4> QED
        BY <4>1 DEF CharactersOf
    <3> QED
      BY <2>8, <3>1
  <2>12. Trimmed(t)[1][1] = b
    <3>1. Trimmed(t)[1] \in In(t)
      BY <2>5, <2>10, TrimmedKeeps
    <3> QED
      BY <2>8, <3>1
  <2>13. Cites(piece(i), blocks) /\ In(piece(i).text) = In(t) /\ LastOf(piece(i)) = t[Len(t)]
    <3>1. piece(i) = Piece(t, label, at + from(i), at + to(i))
      BY DEF t
    <3> HIDE DEF piece
    <3>2. label = blocks[Trimmed(t)[1][1]].label
      BY <2>12
    <3>3. piece(i).text = Trimmed(t) /\ piece(i).label = label
      BY <3>1 DEF Piece
    <3>4. Fits(t, blocks)
      BY <2>5, <2>9, <2>10, <2>11 DEF Fits
    <3>5. IsPiece(piece(i), t, blocks)
      BY <3>2, <3>3 DEF IsPiece
    <3> QED
      BY <3>4, <3>5, PieceCites
  <2> QED
    BY <2>8, <2>10, <2>13 DEF f, e
<1> HIDE DEF piece, cuts
<1>9. /\ IsSeq(cuts) /\ Len(cuts) = m /\ DOMAIN cuts = 1 .. m /\ \A i \in 1 .. m : cuts[i] = piece(i)
  <2> DEFINE P == {piece(i) : i \in 1 .. m}
  <2>1. cuts \in [1 .. m -> P]
    BY <1>2
  <2> HIDE DEF P
  <2>2. cuts \in Seq(P)
    BY <1>3, <2>1
  <2>3. Len(cuts) = m /\ DOMAIN cuts = 1 .. m
    BY <1>2, <1>3
  <2> QED
    BY <1>2, <2>2, <2>3 DEF IsSeq
<1>10. Follow(cuts, blocks)
  <2>1. \A i \in 1 .. Len(cuts) : Cites(cuts[i], blocks)
    BY <1>8, <1>9
  <2>2. \A i \in 1 .. Len(cuts) - 1 : Before(LastOf(cuts[i]), LastOf(cuts[i + 1]))
    <3>1. SUFFICES ASSUME NEW i \in 1 .. m - 1 PROVE Before(LastOf(cuts[i]), LastOf(cuts[i + 1]))
      BY <1>9
    <3>2. i \in 1 .. m /\ i + 1 \in 1 .. m /\ i < m
      BY <1>3
    <3>3. LastOf(cuts[i]) = <<b, to(i)>> /\ LastOf(cuts[i + 1]) = <<b, to(i + 1)>>
      BY <1>8, <1>9, <3>2
    <3> QED
      BY <1>6, <3>2, <3>3 DEF Before
  <2> QED
    BY <1>9, <2>1, <2>2 DEF Follow
<1>11. Held(cuts) = BlockChars(b, n)
  <2>1. ASSUME NEW x \in Held(cuts) PROVE x \in BlockChars(b, n)
    <3>1. PICK i \in 1 .. m : x \in In(piece(i).text)
      BY <1>9 DEF Held
    <3>2. PICK k \in from(i) + 1 .. to(i) : x = <<b, k>>
      BY <1>8, <3>1
    <3>3. k \in 1 .. n
      BY <1>5, <1>7
    <3> QED
      BY <3>2, <3>3 DEF BlockChars
  <2>2. ASSUME NEW k \in 1 .. n PROVE <<b, k>> \in Held(cuts)
    <3> DEFINE reach == {i \in 1 .. m : k <= to(i)}
    <3>1. reach \in SUBSET Nat /\ reach # {}
      <4>1. m \in reach
        BY <1>7
      <4>2. \A i \in 1 .. m : i \in Nat
        BY <1>3
      <4> QED
        BY <4>1, <4>2
    <3>2. PICK i \in reach : \A j \in reach : i <= j
      <4> HIDE DEF reach
      <4> QED
        BY <3>1, Smallest
    <3>3. i \in 1 .. m /\ k <= to(i)
      OBVIOUS
    <3>4. from(i) + 1 <= k
      <4>1. CASE i = 1
        BY <1>7, <4>1
      <4>2. CASE i # 1
        <5>1. i - 1 \in 1 .. m /\ i - 1 < m /\ i - 1 + 1 = i /\ ~(i <= i - 1)
          BY <1>3, <3>3, <4>2
        <5>2. ~(k <= to(i - 1))
          BY <3>2, <5>1
        <5>3. from(i) <= to(i - 1) /\ to(i - 1) \in Nat
          BY <1>5, <5>1
        <5> QED
          BY <1>7, <3>3, <5>2, <5>3
      <4> QED
        BY <4>1, <4>2
    <3>5. k \in from(i) + 1 .. to(i)
      BY <1>5, <1>7, <3>3, <3>4
    <3> QED
      BY <1>8, <1>9, <3>3, <3>5 DEF Held
  <2> QED
    BY <2>1, <2>2 DEF BlockChars
<1>12. cuts # <<>> /\ LastOf(cuts[1])[1] = b /\ LastOf(cuts[Len(cuts)])[1] = b
  <2>1. cuts # <<>>
    BY <1>3, <1>9, EmptySeq
  <2> QED
    BY <1>7, <1>8, <1>9, <2>1
<1> QED
  BY <1>10, <1>11, <1>12 DEF cuts

-----------------------------------------------------------------------------
(* The inductive invariant: what is gathered ends with the last block read *)
(* and after the last chunk, and has the label of the block in which it    *)
(* begins.                                                                 *)

TextInv ==
    /\ strategy \in Strategies /\ textEnded \in BOOLEAN /\ tail \in BOOLEAN /\ (tail => textEnded)
    /\ IsSeq(textBlocks) /\ Follow(textChunks, textBlocks)
    /\ gathered # <<>> =>
           /\ Fits(gathered, textBlocks) /\ gathered[Len(gathered)][1] = Len(textBlocks)
           /\ EndsBefore(textChunks, Len(textBlocks)) /\ ~textEnded
           /\ gatheredLabel = textBlocks[Trimmed(gathered)[1][1]].label
    /\ \A c \in CharactersOf(textBlocks) :
           \/ c \in Held(textChunks) \cup In(gathered)
           \/ tail /\ c[1] = Len(textBlocks)
    /\ strategy = "sentence" =>
           gatheredLabel = NoLabel /\ \A b \in 1 .. Len(textBlocks) : textBlocks[b].label = NoLabel
    /\ strategy = "fixed_size" /\ ~textEnded => textBlocks = <<>> /\ textChunks = <<>> /\ gathered = <<>>

\* Nothing is cited before it is read.
LEMMA EndsRead ==
    ASSUME NEW blocks, IsSeq(blocks), NEW made, Follow(made, blocks)
    PROVE  EndsBefore(made, Len(blocks) + 1)
<1> SUFFICES ASSUME made # <<>> PROVE LastOf(made[Len(made)])[1] < Len(blocks) + 1
  BY DEF EndsBefore
<1>1. Len(made) \in 1 .. Len(made)
  BY EmptySeq DEF Follow, IsSeq
<1>2. LastOf(made[Len(made)]) \in CharactersOf(blocks)
  BY <1>1 DEF Follow, Cites
<1>3. \A c \in CharactersOf(blocks) : c[1] \in 1 .. Len(blocks)
  BY BlockRead
<1>4. Len(blocks) \in Nat
  BY DEF IsSeq
<1> QED
  BY <1>2, <1>3, <1>4

\* Nothing: no text, and no chunks.
LEMMA NoText ==
    /\ <<>> \in Seq(Marks) /\ Ordered(<<>>) /\ In(<<>>) = {} /\ IsSeq(<<>>)
    /\ Trimmed(<<>>) = <<>> /\ Held(<<>>) = {} /\ CharactersOf(<<>>) = {}
    /\ \A blocks : Follow(<<>>, blocks)
<1>1. <<>> \in Seq(Marks) /\ Len(<<>>) = 0 /\ DOMAIN <<>> = {}
  OBVIOUS
<1>2. IsSeq(<<>>)
  BY <1>1 DEF IsSeq
<1>3. Ordered(<<>>) /\ In(<<>>) = {} /\ Held(<<>>) = {} /\ CharactersOf(<<>>) = {}
  BY <1>1 DEF Ordered, In, Held, CharactersOf
<1>4. Trimmed(<<>>) = <<>>
  BY <1>1 DEF Trimmed
<1>5. \A blocks : Follow(<<>>, blocks)
  BY <1>1, <1>2 DEF Follow
<1> QED
  BY <1>1, <1>2, <1>3, <1>4, <1>5

\* flush() makes a chunk of all that was gathered.
LEMMA TextFlushed ==
    ASSUME TextInv, NEW to
    PROVE  /\ Follow(Flushed(to), textBlocks) /\ Held(Flushed(to)) = Held(textChunks) \cup In(gathered)
           /\ EndsBefore(Flushed(to), Len(textBlocks) + 1)
           /\ gathered # <<>> <=> Trimmed(gathered) # <<>>
<1>1. CASE gathered = <<>>
  <2>1. Flushed(to) = textChunks /\ In(gathered) = {} /\ Trimmed(gathered) = <<>>
    BY <1>1, NoText DEF Flushed
  <2>2. EndsBefore(textChunks, Len(textBlocks) + 1)
    BY EndsRead DEF TextInv
  <2> QED
    BY <1>1, <2>1, <2>2 DEF TextInv
<1>2. CASE gathered # <<>>
  <2> DEFINE c == Piece(gathered, gatheredLabel, gatheredStart, to)
  <2>1. /\ Fits(gathered, textBlocks) /\ gathered[Len(gathered)][1] = Len(textBlocks)
        /\ EndsBefore(textChunks, Len(textBlocks)) /\ Follow(textChunks, textBlocks)
        /\ gatheredLabel = textBlocks[Trimmed(gathered)[1][1]].label
    BY <1>2 DEF TextInv
  <2>2. c.text = Trimmed(gathered) /\ IsPiece(c, gathered, textBlocks)
    BY <2>1 DEF Piece, IsPiece
  <2> HIDE DEF c
  <2>3. Cites(c, textBlocks) /\ In(c.text) = In(gathered) /\ LastOf(c)[1] = Len(textBlocks) /\ c.text # <<>>
    BY <2>1, <2>2, PieceCites
  <2>4. Flushed(to) = Append(textChunks, c)
    BY <2>2, <2>3 DEF Flushed, c
  <2>5. textChunks # <<>> => Before(LastOf(textChunks[Len(textChunks)]), LastOf(c))
    BY <2>1, <2>3 DEF Before, EndsBefore
  <2>6. /\ Follow(Flushed(to), textBlocks) /\ Held(Flushed(to)) = Held(textChunks) \cup In(gathered)
    BY <2>1, <2>3, <2>4, <2>5, ChunkAdded
  <2>7. EndsBefore(Flushed(to), Len(textBlocks) + 1)
    BY <2>6, EndsRead DEF TextInv
  <2> QED
    BY <1>2, <2>2, <2>3, <2>6, <2>7
<1> QED
  BY <1>1, <1>2

\* A block is gathered, after what was left of the text before it.
LEMMA BlockGathered ==
    ASSUME TextInv, ~textEnded, NEW n \in Nat \ {0}, NEW label,
           textBlocks' = Append(textBlocks, [length |-> n, label |-> label]),
           Follow(textChunks', textBlocks), EndsBefore(textChunks', Block),
           NEW t \in Seq(Marks), Ordered(t), In(t) \subseteq CharactersOf(textBlocks),
           Held(textChunks) \cup In(gathered) \subseteq Held(textChunks') \cup In(t),
           Joins(gathered', t, Block, n),
           gatheredLabel' = IF In(t) # {} THEN textBlocks[Trimmed(t)[1][1]].label ELSE label,
           strategy # "fixed_size", strategy = "sentence" => label = NoLabel /\ gatheredLabel' = NoLabel,
           UNCHANGED <<strategy, textEnded, tail>>
    PROVE  TextInv'
<1> DEFINE N == Len(textBlocks)
           e == [length |-> n, label |-> label]
<1>1. /\ IsSeq(textBlocks) /\ ~tail
      /\ \A c \in CharactersOf(textBlocks) : c \in Held(textChunks) \cup In(gathered)
      /\ strategy \in Strategies /\ textEnded \in BOOLEAN /\ tail \in BOOLEAN
      /\ strategy = "sentence" => \A b \in 1 .. N : textBlocks[b].label = NoLabel
  BY DEF TextInv
<1>2. e.length = n /\ e.label = label
  OBVIOUS
<1> HIDE DEF e
<1>3. textBlocks' = Append(textBlocks, e)
  BY DEF e
<1>4. /\ IsSeq(textBlocks') /\ N \in Nat /\ Len(textBlocks') = N + 1
      /\ \A b \in 1 .. N : textBlocks'[b] = textBlocks[b]
      /\ textBlocks'[N + 1] = e
  BY <1>1, <1>3, Appended
<1>5. /\ CharactersOf(textBlocks') = CharactersOf(textBlocks) \cup BlockChars(N + 1, n)
      /\ \A c \in CharactersOf(textBlocks) : c[1] \in 1 .. N /\ textBlocks'[c[1]] = textBlocks[c[1]]
      /\ Follow(textChunks', textBlocks')
  BY <1>1, <1>2, <1>3, BlockRead
<1>6. Block = N + 1 /\ Block \in Nat \ {0}
  BY <1>4 DEF Block
<1>7. Precedes(t, Block)
  BY <1>4, <1>5, <1>6 DEF Precedes
<1>8. /\ gathered' \in Seq(Marks) /\ gathered' # <<>> /\ Ordered(gathered')
      /\ In(gathered') = In(t) \cup BlockChars(Block, n)
      /\ gathered'[Len(gathered')] = <<Block, n>>
      /\ Trimmed(gathered')[1][1] = IF In(t) # {} THEN Trimmed(t)[1][1] ELSE Block
  <2>1. Continues(gathered', t, Block, n)
    BY <1>6, <1>7, Joined
  <2> QED
    BY <2>1 DEF Continues
<1>9. Fits(gathered', textBlocks')
  <2>1. <<Block, n>> \in BlockChars(Block, n) /\ <<Block, n>> # Gap
    BY <1>6 DEF BlockChars, Gap
  <2> QED
    BY <1>5, <1>6, <1>8, <2>1 DEF Fits
<1>10. gatheredLabel' = textBlocks'[Trimmed(gathered')[1][1]].label
  <2>1. CASE In(t) # {}
    <3>1. Trimmed(t)[1] \in CharactersOf(textBlocks)
      BY <2>1, TrimmedKeeps
    <3> QED
      BY <1>5, <1>8, <2>1, <3>1
  <2>2. CASE In(t) = {}
    BY <1>2, <1>4, <1>6, <1>8, <2>2
  <2> QED
    BY <2>1, <2>2
<1>11. \A c \in CharactersOf(textBlocks') : c \in Held(textChunks') \cup In(gathered')
  BY <1>1, <1>5, <1>6, <1>8
<1>12. strategy = "sentence" =>
           gatheredLabel' = NoLabel /\ \A b \in 1 .. N + 1 : textBlocks'[b].label = NoLabel
  <2>1. SUFFICES ASSUME strategy = "sentence", NEW b \in 1 .. N + 1 PROVE textBlocks'[b].label = NoLabel
    OBVIOUS
  <2>2. b \in 1 .. N \/ b = N + 1
    BY <1>4
  <2> QED
    BY <1>1, <1>2, <1>4, <2>1, <2>2
<1>13. gathered'[Len(gathered')][1] = Len(textBlocks') /\ EndsBefore(textChunks', Len(textBlocks'))
  <2>1. Len(textBlocks') = Block
    BY <1>4, <1>6
  <2>2. gathered'[Len(gathered')][1] = Block
    BY <1>8
  <2> QED
    BY <2>1, <2>2
<1> QED
  BY <1>1, <1>4, <1>5, <1>9, <1>10, <1>11, <1>12, <1>13 DEF TextInv

\* What joins two blocks, and what does not.
LEMMA GapsJoin ==
    ASSUME NEW t \in Seq(Marks), NEW b \in Nat \ {0}, NEW n \in Nat \ {0}
    PROVE  /\ Joins(t \o Text(b, n), t, b, n)
           /\ Joins(t \o <<Gap>> \o Text(b, n), t, b, n)
           /\ Joins(t \o <<Gap, Gap>> \o Text(b, n), t, b, n)
           /\ t = <<>> => Joins(Text(b, n), t, b, n)
<1>1. <<>> \in Seq({Gap}) /\ <<Gap>> \in Seq({Gap}) /\ <<Gap, Gap>> \in Seq({Gap})
  OBVIOUS
<1>2. t \o <<>> = t
  BY ConcatEmptySeq
<1>3. Text(b, n) \in Seq(Marks)
  BY BlockText
<1>4. t = <<>> => Text(b, n) = t \o <<>> \o Text(b, n)
  BY <1>2, <1>3, ConcatEmptySeq
<1>5. Joins(t \o Text(b, n), t, b, n)
  BY <1>1, <1>2 DEF Joins
<1>6. Joins(t \o <<Gap>> \o Text(b, n), t, b, n)
  BY <1>1 DEF Joins
<1>7. Joins(t \o <<Gap, Gap>> \o Text(b, n), t, b, n)
  BY <1>1 DEF Joins
<1>8. t = <<>> => Joins(Text(b, n), t, b, n)
  BY <1>1, <1>4 DEF Joins
<1> QED
  BY <1>5, <1>6, <1>7, <1>8

\* The texts that are over: all that was read is in a chunk.
LEMMA TextIsOver ==
    ASSUME IsSeq(textBlocks'), Follow(textChunks', textBlocks'), gathered' = <<>>,
           CharactersOf(textBlocks') \subseteq Held(textChunks'),
           strategy' \in Strategies, textEnded' \in BOOLEAN, tail' = FALSE,
           strategy' = "sentence" =>
               gatheredLabel' = NoLabel /\ \A b \in 1 .. Len(textBlocks') : textBlocks'[b].label = NoLabel,
           strategy' = "fixed_size" => textEnded'
    PROVE  TextInv'
BY DEF TextInv

\* A text is cut at a fixed size.
LEMMA WholeCut ==
    ASSUME TextInv, NEW n \in Nat \ {0}, CutWhole(n)
    PROVE  TextInv'
<1> DEFINE e == [length |-> n, label |-> NoLabel]
<1>1. /\ strategy = "fixed_size" /\ textBlocks' = <<e>> /\ textChunks' = Cuts(1, n, NoLabel, 0)
      /\ textEnded' = TRUE /\ strategy' = strategy /\ tail' = tail /\ gathered' = gathered
      /\ gathered = <<>> /\ tail = FALSE
  BY DEF CutWhole, TextInv, gathering
<1>2. e.length = n /\ e.label = NoLabel
  OBVIOUS
<1> HIDE DEF e
<1>3. IsSeq(<<e>>) /\ DOMAIN <<e>> = {1} /\ <<e>>[1] = e
  <2>1. <<e>> \in Seq({e})
    OBVIOUS
  <2>2. IsSeq(<<e>>)
    BY <2>1 DEF IsSeq
  <2>3. Len(<<e>>) = 1 /\ <<e>>[1] = e
    OBVIOUS
  <2>4. DOMAIN <<e>> = 1 .. 1
    BY <2>1, <2>3, LenProperties
  <2> QED
    BY <2>2, <2>3, <2>4
<1>4. Follow(textChunks', textBlocks') /\ Held(textChunks') = BlockChars(1, n)
  BY <1>1, <1>2, <1>3, CutsCite
<1>5. CharactersOf(textBlocks') = BlockChars(1, n)
  BY <1>1, <1>2, <1>3 DEF CharactersOf, BlockChars
<1> QED
  BY <1>1, <1>3, <1>4, <1>5, TextIsOver DEF TextInv

\* The last chunk of a text is made.
LEMMA TextCompleted ==
    ASSUME TextInv, EndText
    PROVE  TextInv'
<1>1. /\ strategy # "fixed_size" /\ ~textEnded /\ textChunks' = Flushed(cutIndex)
      /\ gathered' = <<>> /\ textEnded' = TRUE
      /\ strategy' = strategy /\ gatheredLabel' = gatheredLabel /\ textBlocks' = textBlocks /\ tail' = tail
  BY DEF EndText
<1>2. Follow(textChunks', textBlocks) /\ Held(textChunks') = Held(textChunks) \cup In(gathered)
  BY <1>1, TextFlushed
<1> QED
  BY <1>1, <1>2, TextIsOver DEF TextInv

\* The last sentence has no full stop.
LEMMA TailIgnored ==
    ASSUME TextInv, NEW n \in Nat \ {0}, IgnoreTail(n)
    PROVE  TextInv'
<1> DEFINE e == [length |-> n, label |-> NoLabel]
           N == Len(textBlocks)
<1>1. /\ strategy = "sentence" /\ ~textEnded /\ textBlocks' = Append(textBlocks, e)
      /\ tail' = TRUE /\ textEnded' = TRUE /\ textChunks' = Flushed(cutIndex) /\ gathered' = <<>>
      /\ strategy' = strategy /\ gatheredLabel' = gatheredLabel
      /\ tail = FALSE /\ IsSeq(textBlocks)
  BY DEF IgnoreTail, TextInv
<1>2. e.length = n /\ e.label = NoLabel
  OBVIOUS
<1> HIDE DEF e
<1>3. Follow(textChunks', textBlocks) /\ Held(textChunks') = Held(textChunks) \cup In(gathered)
  BY <1>1, TextFlushed
<1>4. /\ IsSeq(textBlocks') /\ N \in Nat /\ Len(textBlocks') = N + 1
      /\ \A b \in 1 .. N : textBlocks'[b] = textBlocks[b]
      /\ textBlocks'[N + 1] = e
  BY <1>1, Appended
<1>5. /\ CharactersOf(textBlocks') = CharactersOf(textBlocks) \cup BlockChars(N + 1, n)
      /\ Follow(textChunks', textBlocks')
  BY <1>1, <1>2, <1>3, BlockRead
<1>6. \A c \in CharactersOf(textBlocks') :
          c \in Held(textChunks') \cup In(gathered') \/ c[1] = Len(textBlocks')
  <2>1. \A c \in CharactersOf(textBlocks) : c \in Held(textChunks')
    BY <1>1, <1>3 DEF TextInv
  <2>2. \A c \in BlockChars(N + 1, n) : c[1] = Len(textBlocks')
    BY <1>4 DEF BlockChars
  <2> QED
    BY <1>5, <2>1, <2>2
<1>7. gatheredLabel' = NoLabel /\ \A b \in 1 .. N + 1 : textBlocks'[b].label = NoLabel
  <2>1. gatheredLabel = NoLabel /\ \A b \in 1 .. N : textBlocks[b].label = NoLabel
    BY <1>1 DEF TextInv
  <2>2. \A b \in 1 .. N + 1 : b \in 1 .. N \/ b = N + 1
    BY <1>4
  <2> QED
    BY <1>1, <1>2, <1>4, <2>1, <2>2
<1> QED
  BY <1>1, <1>4, <1>5, <1>6, <1>7 DEF TextInv

\* A sentence begins where its text does: none has a label.
LEMMA SentenceLabel ==
    ASSUME TextInv, strategy = "sentence", NEW t \in Seq(Marks), In(t) \subseteq CharactersOf(textBlocks)
    PROVE  gatheredLabel = IF In(t) # {} THEN textBlocks[Trimmed(t)[1][1]].label ELSE NoLabel
<1>1. gatheredLabel = NoLabel /\ \A b \in 1 .. Len(textBlocks) : textBlocks[b].label = NoLabel
  BY DEF TextInv
<1>2. ASSUME In(t) # {} PROVE Trimmed(t)[1][1] \in 1 .. Len(textBlocks)
  <2>1. Trimmed(t)[1] \in CharactersOf(textBlocks)
    BY <1>2, TrimmedKeeps
  <2>2. IsSeq(textBlocks)
    BY DEF TextInv
  <2> QED
    BY <2>1, <2>2, BlockRead
<1> QED
  BY <1>1, <1>2

\* What is gathered, if anything.
LEMMA GatheredText ==
    ASSUME TextInv
    PROVE  /\ gathered \in Seq(Marks) /\ Ordered(gathered) /\ In(gathered) \subseteq CharactersOf(textBlocks)
           /\ gathered # <<>> => /\ In(gathered) # {}
                                 /\ gatheredLabel = textBlocks[Trimmed(gathered)[1][1]].label
           /\ gathered = <<>> => In(gathered) = {}
           /\ Block \in Nat \ {0} /\ Block = Len(textBlocks) + 1
           /\ IsSeq(textBlocks) /\ Follow(textChunks, textBlocks) /\ EndsBefore(textChunks, Block)
<1>1. IsSeq(textBlocks) /\ Follow(textChunks, textBlocks)
  BY DEF TextInv
<1>2. Block \in Nat \ {0} /\ Block = Len(textBlocks) + 1
  BY <1>1 DEF Block, IsSeq
<1>3. EndsBefore(textChunks, Block)
  BY <1>1, <1>2, EndsRead
<1>4. CASE gathered = <<>>
  BY <1>1, <1>2, <1>3, <1>4, NoText
<1>5. CASE gathered # <<>>
  BY <1>1, <1>2, <1>3, <1>5 DEF TextInv, Fits
<1> QED
  BY <1>4, <1>5

\* A sentence is gathered, perhaps after what the last chunk ended with.
LEMMA SentenceRead ==
    ASSUME TextInv, NEW n \in Nat \ {0}, ReadSentence(n)
    PROVE  TextInv'
<1>1. /\ strategy = "sentence" /\ ~textEnded
      /\ textBlocks' = Append(textBlocks, [length |-> n, label |-> NoLabel])
      /\ gatheredLabel' = gatheredLabel /\ UNCHANGED <<strategy, textEnded, tail>>
      /\ gatheredLabel = NoLabel
  BY DEF ReadSentence, TextInv
<1>2. CASE Len(gathered) + n > ChunkSize
  <2> DEFINE t == Overlap(gathered)
  <2>1. /\ textChunks' = IF gathered = <<>> THEN textChunks
                         ELSE Append(textChunks, Piece(gathered, NoLabel, gatheredStart, cutIndex - n))
        /\ gathered' = t \o <<Gap>> \o Text(Block, n)
    BY <1>2 DEF ReadSentence
  <2>2. /\ t \in Seq(Marks) /\ Ordered(t) /\ In(t) \subseteq CharactersOf(textBlocks)
        /\ In(t) \subseteq In(gathered)
    BY GatheredText, Overlapped
  <2> HIDE DEF t
  <2>3. textChunks' = Flushed(cutIndex - n)
    BY <1>1, <2>1, TextFlushed DEF Flushed
  <2>4. /\ Follow(textChunks', textBlocks) /\ EndsBefore(textChunks', Block)
        /\ Held(textChunks') = Held(textChunks) \cup In(gathered)
    BY <2>3, TextFlushed, GatheredText
  <2>5. Joins(gathered', t, Block, n)
    BY <2>1, <2>2, GatheredText, GapsJoin
  <2>6. gatheredLabel' = IF In(t) # {} THEN textBlocks[Trimmed(t)[1][1]].label ELSE NoLabel
    BY <1>1, <2>2, SentenceLabel
  <2>7. Held(textChunks) \cup In(gathered) \subseteq Held(textChunks') \cup In(t)
    BY <2>4
  <2> QED
    BY <1>1, <2>2, <2>4, <2>5, <2>6, <2>7, BlockGathered
<1>3. CASE ~(Len(gathered) + n > ChunkSize)
  <2>1. gathered' = gathered \o Text(Block, n) /\ textChunks' = textChunks
    BY <1>3 DEF ReadSentence
  <2>2. /\ gathered \in Seq(Marks) /\ Ordered(gathered) /\ In(gathered) \subseteq CharactersOf(textBlocks)
        /\ Follow(textChunks', textBlocks) /\ EndsBefore(textChunks', Block)
    BY <2>1, GatheredText
  <2>3. Joins(gathered', gathered, Block, n)
    BY <2>1, GatheredText, GapsJoin
  <2>4. gatheredLabel' = IF In(gathered) # {} THEN textBlocks[Trimmed(gathered)[1][1]].label ELSE NoLabel
    BY <1>1, <2>2, SentenceLabel
  <2>5. Held(textChunks) \cup In(gathered) \subseteq Held(textChunks') \cup In(gathered)
    BY <2>1
  <2> QED
    BY <1>1, <2>2, <2>3, <2>4, <2>5, BlockGathered
<1> QED
  BY <1>2, <1>3

\* A block is cut, begins the next text, or goes on with the one there is.
LEMMA BlockAccumulated ==
    ASSUME TextInv, NEW n \in Nat \ {0}, NEW label, Accumulate(n, label)
    PROVE  TextInv'
<1>1. /\ strategy = "paragraph" /\ ~textEnded /\ strategy' = strategy /\ textEnded' = textEnded
      /\ textBlocks' = Append(textBlocks, [length |-> n, label |-> label])
      /\ tail' = tail /\ tail = FALSE /\ IsSeq(textBlocks)
      /\ UNCHANGED <<strategy, textEnded, tail>>
  BY DEF Accumulate, TextInv
<1>2. CASE CutOversized(n, label)
  <2> DEFINE e == [length |-> n, label |-> label]
             F == Flushed(cutIndex)
             cuts == Cuts(Block, n, label, cutIndex)
  <2>1. /\ textChunks' = F \o cuts /\ gathered' = <<>>
        /\ textBlocks' = Append(textBlocks, e)
    BY <1>1, <1>2 DEF CutOversized
  <2>2. e.length = n /\ e.label = label
    OBVIOUS
  <2> HIDE DEF e
  <2>3. Block \in Nat \ {0} /\ Block = Len(textBlocks) + 1
    BY GatheredText
  <2>4. /\ IsSeq(textBlocks') /\ Block \in DOMAIN textBlocks' /\ textBlocks'[Block] = e
    BY <1>1, <2>1, <2>3, Appended
  <2>5. /\ Follow(F, textBlocks) /\ Held(F) = Held(textChunks) \cup In(gathered) /\ EndsBefore(F, Block)
    BY <2>3, TextFlushed
  <2>6. /\ CharactersOf(textBlocks') = CharactersOf(textBlocks) \cup BlockChars(Block, n)
        /\ Follow(F, textBlocks')
    BY <1>1, <2>1, <2>2, <2>3, <2>5, BlockRead
  <2>7. /\ Follow(cuts, textBlocks') /\ Held(cuts) = BlockChars(Block, n) /\ cuts # <<>>
        /\ LastOf(cuts[1])[1] = Block
    BY <2>2, <2>3, <2>4, CutsCite
  <2> HIDE DEF F, cuts
  <2>8. F # <<>> => Before(LastOf(F[Len(F)]), LastOf(cuts[1]))
    BY <2>5, <2>7 DEF EndsBefore, Before
  <2>9. Follow(textChunks', textBlocks') /\ Held(textChunks') = Held(F) \cup Held(cuts)
    BY <2>1, <2>6, <2>7, <2>8, ChunksAdded
  <2>10. CharactersOf(textBlocks) \subseteq Held(F)
    BY <1>1, <2>5 DEF TextInv
  <2>11. CharactersOf(textBlocks') \subseteq Held(textChunks')
    BY <2>6, <2>7, <2>9, <2>10
  <2> QED
    BY <1>1, <2>1, <2>4, <2>9, <2>11, TextIsOver DEF TextInv
<1>3. CASE StartNext(n, label)
  <2>1. /\ textChunks' = Flushed(cutIndex - n) /\ gathered' = Overlap(<<>>) \o <<Gap>> \o Text(Block, n)
        /\ gatheredLabel' = label
    BY <1>3 DEF StartNext
  <2>2. Overlap(<<>>) = <<>> /\ <<>> \in Seq(Marks) /\ Ordered(<<>>) /\ In(<<>>) = {}
    BY NoText, Overlapped
  <2>3. /\ Follow(textChunks', textBlocks) /\ EndsBefore(textChunks', Block)
        /\ Held(textChunks') = Held(textChunks) \cup In(gathered)
    BY <2>1, TextFlushed, GatheredText
  <2>4. Joins(gathered', <<>>, Block, n)
    BY <2>1, <2>2, GatheredText, GapsJoin
  <2> QED
    BY <1>1, <2>1, <2>2, <2>3, <2>4, BlockGathered
<1>4. CASE Gather(n, label)
  <2>1. /\ gathered' = IF gathered = <<>> THEN Text(Block, n)
                       ELSE gathered \o <<Gap, Gap>> \o Text(Block, n)
        /\ gatheredLabel' = IF gathered = <<>> THEN label ELSE gatheredLabel
        /\ textChunks' = textChunks
    BY <1>4 DEF Gather
  <2>2. /\ gathered \in Seq(Marks) /\ Ordered(gathered) /\ In(gathered) \subseteq CharactersOf(textBlocks)
        /\ Follow(textChunks', textBlocks) /\ EndsBefore(textChunks', Block)
    BY <2>1, GatheredText
  <2>3. Joins(gathered', gathered, Block, n)
    BY <2>1, <2>2, GatheredText, GapsJoin
  <2>4. gatheredLabel' = IF In(gathered) # {} THEN textBlocks[Trimmed(gathered)[1][1]].label ELSE label
    BY <2>1, GatheredText
  <2>5. Held(textChunks) \cup In(gathered) \subseteq Held(textChunks') \cup In(gathered)
    BY <2>1
  <2> QED
    BY <1>1, <2>2, <2>3, <2>4, <2>5, BlockGathered
<1> QED
  BY <1>2, <1>3, <1>4 DEF Accumulate

\* Nothing is read.
LEMMA TextBegins == ChunkingInit => TextInv
<1> SUFFICES ASSUME ChunkingInit PROVE TextInv
  OBVIOUS
<1>1. /\ strategy \in Strategies /\ gathered = <<>> /\ gatheredLabel = NoLabel /\ textChunks = <<>>
      /\ textEnded = FALSE /\ textBlocks = <<>> /\ tail = FALSE
  BY DEF ChunkingInit
<1>2. Len(textBlocks) = 0 /\ \A b \in 1 .. Len(textBlocks) : FALSE
  BY <1>1
<1>3. IsSeq(textBlocks) /\ Follow(textChunks, textBlocks) /\ CharactersOf(textBlocks) = {}
  BY <1>1, NoText
<1> QED
  BY <1>1, <1>2, <1>3 DEF TextInv

\* Every step keeps the invariant.
LEMMA TextStep == TextInv /\ [ChunkingNext]_chunkingVars => TextInv'
<1> SUFFICES ASSUME TextInv, [ChunkingNext]_chunkingVars PROVE TextInv'
  OBVIOUS
<1>1. \A n \in BlockLengths : n \in Nat \ {0}
  BY ChunkingAssumption
<1>2. ASSUME NEW n \in BlockLengths, ReadBlock(n) PROVE TextInv'
  <2>1. PICK label : label = Label(headings)
    OBVIOUS
  <2> QED
    BY <1>1, <1>2, <2>1, BlockAccumulated DEF ReadBlock
<1>3. ASSUME NEW n \in BlockLengths, NEW depth, NEW numbered, ReadHeading(n, depth, numbered)
      PROVE  TextInv'
  <2>1. PICK label : label = Label(headings')
    OBVIOUS
  <2>2. Accumulate(n, Label(headings'))
    BY <1>3 DEF ReadHeading
  <2>3. Accumulate(n, label)
    BY <2>1, <2>2 DEF Accumulate, CutOversized, StartNext, Gather
  <2> QED
    BY <1>1, <2>3, BlockAccumulated
<1>4. ASSUME NEW n \in BlockLengths, ReadSentence(n) \/ IgnoreTail(n) \/ CutWhole(n) PROVE TextInv'
  BY <1>1, <1>4, SentenceRead, TailIgnored, WholeCut
<1>5. CASE UNCHANGED chunkingVars
  BY <1>5 DEF TextInv, chunkingVars, gathering
<1> QED
  BY <1>2, <1>3, <1>4, <1>5, TextCompleted DEF ChunkingNext

\* The invariant is stronger than what is promised.
LEMMA TextCited == TextInv => ChunksCiteTheText
<1> SUFFICES ASSUME TextInv PROVE ChunksCiteTheText
  OBVIOUS
<1>1. /\ IsSeq(textChunks) /\ \A i \in 1 .. Len(textChunks) : Cites(textChunks[i], textBlocks)
      /\ \A i \in 1 .. Len(textChunks) - 1 : Before(LastOf(textChunks[i]), LastOf(textChunks[i + 1]))
  BY DEF TextInv, Follow
<1>2. DOMAIN textChunks = 1 .. Len(textChunks)
  BY <1>1 DEF IsSeq
<1>3. Characters = CharactersOf(textBlocks)
  BY DEF Characters, CharactersOf
<1>4. Characters \ (In(gathered) \cup UNION {In(textChunks[i].text) : i \in DOMAIN textChunks})
          \subseteq IF tail THEN {c \in Characters : c[1] = Len(textBlocks)} ELSE {}
  <2>1. \A c \in Characters :
            c \in Held(textChunks) \cup In(gathered) \/ (tail /\ c[1] = Len(textBlocks))
    BY <1>3 DEF TextInv
  <2> DEFINE H == UNION {In(textChunks[i].text) : i \in DOMAIN textChunks}
  <2>2. H = Held(textChunks)
    BY DEF Held
  <2>3. Characters \ (In(gathered) \cup H)
            \subseteq IF tail THEN {c \in Characters : c[1] = Len(textBlocks)} ELSE {}
    <3> HIDE DEF H
    <3>1. tail \in BOOLEAN
      BY DEF TextInv
    <3>2. ASSUME NEW c \in Characters \ (In(gathered) \cup H) PROVE tail /\ c[1] = Len(textBlocks)
      BY <2>1, <2>2
    <3> QED
      BY <3>1, <3>2
  <2> QED
    BY <2>3
<1>5. \A i \in 1 .. Len(textChunks) - 1 :
          LET t == textChunks[i].text
              u == textChunks[i + 1].text
          IN Before(t[Len(t)], u[Len(u)])
  BY <1>1 DEF LastOf
<1>6. \A i \in DOMAIN textChunks :
          LET t == textChunks[i].text
          IN \A c, d \in DOMAIN t : c < d /\ Gap \notin {t[c], t[d]} => Before(t[c], t[d])
  BY <1>1, <1>2 DEF Cites, Ordered
<1>7. ChunkBeginsInItsClause
  BY <1>1, <1>2 DEF ChunkBeginsInItsClause, Cites
<1> QED
  BY <1>4, <1>5, <1>6, <1>7 DEF ChunksCiteTheText, TextIsKept

(* For every text of any blocks, every size of chunk and overlap: no chunk *)
(* drops a character but those after the last full stop of a text cut in   *)
(* sentences, each chunk goes on after the one before it, and it has the   *)
(* label of the section in which it begins.                                *)
THEOREM TextsAreCited == ChunkingSpec => []ChunksCiteTheText
<1> QED
  BY TextBegins, TextStep, TextCited, PTL DEF ChunkingSpec
=============================================================================
