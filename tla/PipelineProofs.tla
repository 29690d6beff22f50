--------------------------- MODULE PipelineProofs ----------------------------
(***************************************************************************)
(* Proofs about the pipeline.  Types alone are not inductive: a worker     *)
(* reads the job it runs by its number, so the number must be known, and   *)
(* stays known because jobs are never removed from the log of jobs         *)
(* (RunJobs).  The work is in one fact, NextGoesOn: every step lets the    *)
(* jobs evolve (Evolves) and keeps every worker on a job of its own queue. *)
(* Then what the queue promises of a job that never stalled (OneRunner,    *)
(* RowAgreesWithQueue), and that a ready document is not forgotten         *)
(* (ReadinessPublished), whatever clients and faults do.                   *)
(***************************************************************************)
EXTENDS DocumentPipeline, SequenceTheorems, TLAPS

\* What no step changes about a job, and: a job that was queued is not unqueued.
KeepsJob(old, new) ==
    /\ new \in Job
    /\ new.queue = old.queue /\ new.file = old.file /\ new.chunks = old.chunks
    /\ new.state = "unqueued" => old.state = "unqueued"

\* The jobs whose workers are about to report COMPLETED.
Finishing == {run[s].job : s \in {t \in Slots : run[t].pc = "complete"}}

\* How the jobs table may change in a step from js to ks.
Evolves(js, ks) ==
    /\ ks \in Seq(Job)
    /\ Len(js) <= Len(ks)
    /\ \A j \in 1 .. Len(js) : KeepsJob(js[j], ks[j])
    /\ \A j \in 1 .. Len(js) : ks[j].row = "COMPLETED" =>
                                   js[j].row = "COMPLETED" \/ j \in Finishing
    /\ \A j \in (Len(js) + 1) .. Len(ks) :
          /\ ks[j].row = "COMPLETED" => j \in Finishing
          /\ ks[j].chunks = {} \/ \E s \in Slots : ks[j].chunks = run[s].held

\* A sequence of jobs has a length and holds jobs.
LEMMA JobsInSeq ==
    ASSUME NEW js \in Seq(Job)
    PROVE  Len(js) \in Nat /\ \A j \in 1 .. Len(js) : js[j] \in Job
  BY LenProperties, ElementOfSeq

\* A jobs table that did not change has evolved.
LEMMA UnchangedEvolves ==
    ASSUME NEW js \in Seq(Job) PROVE Evolves(js, js)
  BY JobsInSeq DEF Evolves, KeepsJob

\* Updating one job keeps the others: the table evolves when the job does.
LEMMA UpdateEvolves ==
    ASSUME NEW js \in Seq(Job), NEW j \in 1 .. Len(js), NEW v, KeepsJob(js[j], v),
           v.row = "COMPLETED" => js[j].row = "COMPLETED" \/ j \in Finishing
    PROVE  Evolves(js, [js EXCEPT ![j] = v])
  <1>1. v \in Job
    BY DEF KeepsJob
  <1>2. /\ [js EXCEPT ![j] = v] \in Seq(Job)
        /\ Len([js EXCEPT ![j] = v]) = Len(js)
        /\ \A i \in 1 .. Len(js) : [js EXCEPT ![j] = v][i] = IF i = j THEN v ELSE js[i]
    BY <1>1, ExceptSeq
  <1> QED BY <1>1, <1>2, JobsInSeq, UnchangedEvolves DEF Evolves

\* Updating every job at once, as a crash or a cascade does.
LEMMA MapEvolves ==
    ASSUME NEW js \in Seq(Job), NEW ks, ks = [j \in 1 .. Len(js) |-> ks[j]],
           \A j \in 1 .. Len(js) : /\ KeepsJob(js[j], ks[j])
                                   /\ ks[j].row \in {js[j].row, "absent"}
    PROVE  Evolves(js, ks)
  <1>1. ks \in [1 .. Len(js) -> Job]
    BY DEF KeepsJob
  <1>2. ks \in Seq(Job) /\ Len(ks) = Len(js)
    BY <1>1, LenProperties, SeqDef
  <1> QED BY <1>2, JobsInSeq DEF Evolves

\* Appending a job that is not COMPLETED and names what some worker holds.
LEMMA AppendEvolves ==
    ASSUME NEW js \in Seq(Job), NEW ks, Evolves(js, ks), NEW v \in Job,
           v.row # "COMPLETED", v.chunks = {} \/ \E s \in Slots : v.chunks = run[s].held
    PROVE  Evolves(js, Append(ks, v))
  <1>1. ks \in Seq(Job) /\ Len(js) \in Nat /\ Len(ks) \in Nat /\ Len(js) <= Len(ks)
    BY LenProperties DEF Evolves
  <1>2. /\ Append(ks, v) \in Seq(Job)
        /\ Len(Append(ks, v)) = Len(ks) + 1
        /\ \A j \in 1 .. Len(ks) : Append(ks, v)[j] = ks[j]
        /\ Append(ks, v)[Len(ks) + 1] = v
    BY <1>1, AppendProperties
  <1> DEFINE ls == Append(ks, v)
  <1> HIDE DEF ls
  <1>3. \A j \in 1 .. Len(js) : ls[j] = ks[j]
    BY <1>1, <1>2 DEF ls
  <1>4. \A j \in (Len(js) + 1) .. Len(ls) :
          (j \in (Len(js) + 1) .. Len(ks) /\ ls[j] = ks[j]) \/ ls[j] = v
    BY <1>1, <1>2 DEF ls
  <1> QED BY <1>1, <1>2, <1>3, <1>4 DEF Evolves, ls

\* Two updates in a row, as a catch block and the queue make them.
LEMMA EvolvesTransitive ==
    ASSUME NEW js \in Seq(Job), NEW ks, NEW ls, Evolves(js, ks), Evolves(ks, ls)
    PROVE  Evolves(js, ls)
  <1>1. ks \in Seq(Job) /\ ls \in Seq(Job)
    BY DEF Evolves
  <1>2. Len(js) \in Nat /\ Len(ks) \in Nat /\ Len(ls) \in Nat
    BY <1>1, LenProperties
  <1> QED BY <1>1, <1>2, SMTT(30) DEF Evolves, KeepsJob

\* updateJobStatus on one row; COMPLETED only from the step that completes.
LEMMA RowEvolves ==
    ASSUME NEW js \in Seq(Job), NEW j \in 1 .. Len(js), NEW st \in RowStatus,
           st = "COMPLETED" => j \in Finishing
    PROVE  Evolves(js, [js EXCEPT ![j].row = st])
  <1> DEFINE v == [js[j] EXCEPT !.row = st]
  <1>1. KeepsJob(js[j], v) /\ v.row = st
    BY JobsInSeq DEF KeepsJob, Job
  <1> HIDE DEF v
  <1>2. Evolves(js, [js EXCEPT ![j] = v])
    BY <1>1, UpdateEvolves
  <1> QED BY <1>2 DEF v

\* moveToFailed: another attempt or the end.
LEMMA RetryEvolves ==
    ASSUME NEW js \in Seq(Job), NEW j \in 1 .. Len(js)
    PROVE  Evolves(js, RetryOrFail(js, j))
  <1> DEFINE st == IF js[j].tries + 1 < Attempts[js[j].queue] THEN "waiting" ELSE "failed"
             v  == [js[j] EXCEPT !.tries = js[j].tries + 1, !.state = st, !.owner = NoSlot]
  <1>1. js[j] \in Job
    BY JobsInSeq
  <1>2. RetryOrFail(js, j) = [js EXCEPT ![j] = v]
    BY DEF RetryOrFail
  <1>3. st \in QueueState \ {"unqueued"}
    BY DEF QueueState
  <1>4. js[j].tries + 1 \in Nat
    BY <1>1 DEF Job
  <1> HIDE DEF st
  <1>5. KeepsJob(js[j], v) /\ v.row = js[j].row
    BY <1>1, <1>3, <1>4 DEF KeepsJob, Job
  <1> HIDE DEF v
  <1> QED BY <1>2, <1>5, UpdateEvolves

\* A step lets the jobs evolve and keeps every worker on a job of its queue.
WorkGoesOn ==
    /\ Evolves(jobs, jobs')
    /\ run' \in [Slots -> Run]
    /\ \A s \in Slots : RunsKnownJob(s, run'[s])

\* A worker that moves on keeps its job.
LEMMA GotoGoesOn ==
    ASSUME run \in [Slots -> Run], RunJobs, NEW s \in Slots, NEW pc \in Step,
           run[s].pc # "idle", Goto(s, pc)
    PROVE  /\ run' \in [Slots -> Run]
           /\ \A t \in Slots : RunsKnownJob(t, run'[t])
  <1>1. run[s] \in Run /\ run' = [run EXCEPT ![s] = [run[s] EXCEPT !.pc = pc]]
    BY DEF Goto
  <1>2. [run[s] EXCEPT !.pc = pc] \in Run
    BY <1>1 DEF Run
  <1>3. \A t \in Slots : run'[t] = IF t = s THEN [run[s] EXCEPT !.pc = pc] ELSE run[t]
    BY <1>1
  <1>4. run' \in [Slots -> Run]
    BY <1>1, <1>2
  <1>5. [run[s] EXCEPT !.pc = pc].job = run[s].job
    BY <1>1 DEF Run
  <1> QED BY <1>3, <1>4, <1>5 DEF RunJobs, RunsKnownJob

\* A worker that starts over or stops is given a run of its own queue.
LEMMA SetRunGoesOn ==
    ASSUME run \in [Slots -> Run], RunJobs, NEW s \in Slots, NEW r \in Run,
           RunsKnownJob(s, r), run' = [run EXCEPT ![s] = r]
    PROVE  /\ run' \in [Slots -> Run]
           /\ \A t \in Slots : RunsKnownJob(t, run'[t])
  BY DEF RunJobs

\* Remembering the files of the document changes nothing else.
LEMMA KeepFilesGoesOn ==
    ASSUME run \in [Slots -> Run], RunJobs, NEW s \in Slots, NEW pc \in Step,
           NEW fs \in SUBSET Files, run[s].pc # "idle", KeepFiles(s, pc, fs)
    PROVE  /\ run' \in [Slots -> Run]
           /\ \A t \in Slots : RunsKnownJob(t, run'[t])
           /\ run'[s].pc = pc /\ run'[s].job = run[s].job /\ run'[s].held = run[s].held
  <1> DEFINE r == [run[s] EXCEPT !.pc = pc, !.files = fs]
  <1>1. run[s] \in Run /\ run' = [run EXCEPT ![s] = r]
    BY DEF KeepFiles
  <1>2. r \in Run /\ r.pc = pc /\ r.job = run[s].job /\ r.held = run[s].held
    BY <1>1 DEF Run
  <1> HIDE DEF r
  <1>3. RunsKnownJob(s, r)
    BY <1>2 DEF RunJobs, RunsKnownJob
  <1> QED BY <1>1, <1>2, <1>3, SetRunGoesOn

\* Steps of clients and of the queue leave the workers alone.
LEMMA SameRunGoesOn ==
    ASSUME run \in [Slots -> Run], RunJobs, run' = run
    PROVE  /\ run' \in [Slots -> Run]
           /\ \A t \in Slots : RunsKnownJob(t, run'[t])
  BY DEF RunJobs

\* updateJobStatus, whether the row is there or gone.
LEMMA ProgressGoesOn ==
    ASSUME jobs \in Seq(Job), run \in [Slots -> Run], RunJobs,
           NEW s \in Slots, run[s].pc # "idle", NEW pc \in Step,
           Progress(s, pc) \/ (run[s].pc = "complete" /\ Complete(s, pc))
    PROVE  WorkGoesOn
  <1>1. run[s].job \in 1 .. Len(jobs)
    BY DEF RunJobs, RunsKnownJob, JobIds
  <1>2. Evolves(jobs, jobs')
    <2>1. Evolves(jobs, [jobs EXCEPT ![run[s].job].row = "PROCESSING"])
      BY <1>1, RowEvolves DEF RowStatus
    <2>2. run[s].pc = "complete" =>
             Evolves(jobs, [jobs EXCEPT ![run[s].job].row = "COMPLETED"])
      BY <1>1, RowEvolves DEF RowStatus, Finishing
    <2> QED BY <2>1, <2>2, UnchangedEvolves DEF Progress, Complete, SetRow
  <1>3. Goto(s, pc) \/ Goto(s, "catch")
    BY DEF Progress, Complete, Throws
  <1>4. "catch" \in Step
    BY DEF Step
  <1>5. /\ run' \in [Slots -> Run]
        /\ \A t \in Slots : RunsKnownJob(t, run'[t])
    BY <1>3, <1>4, GotoGoesOn
  <1> QED BY <1>2, <1>5 DEF WorkGoesOn

\* A new job is well formed, PENDING, and names the chunks it was given.
LEMMA NewJobIsJob ==
    ASSUME NEW q \in Queues, NEW f \in Files, NEW cs \in SUBSET ChunkIds,
           NEW st \in QueueState
    PROVE  /\ NewJob(q, f, cs, st) \in Job
           /\ NewJob(q, f, cs, st).row # "COMPLETED"
           /\ NewJob(q, f, cs, st).chunks = cs
  BY DEF NewJob, Job, RowStatus

\* Saving and queueing a follow-up job that names what the worker holds.
LEMMA CreateJobGoesOn ==
    ASSUME jobs \in Seq(Job), run \in [Slots -> Run], RunJobs,
           NEW s \in Slots, run[s].pc # "idle", NEW pc \in Step,
           NEW q \in Queues, NEW cs \in {{}, run[s].held},
           CreateJob(s, q, cs, pc)
    PROVE  WorkGoesOn
  <1>1. run[s].job \in 1 .. Len(jobs)
    BY DEF RunJobs, RunsKnownJob, JobIds
  <1>2. Evolves(jobs, jobs')
    <2> DEFINE js == [jobs EXCEPT ![run[s].job].row = "PROCESSING"]
               new == NewJob(q, JobOf(s).file, cs, "waiting")
    <2>1. Evolves(jobs, js)
      BY <1>1, RowEvolves DEF RowStatus
    <2>2. new \in Job /\ new.row # "COMPLETED" /\ new.chunks = cs
      <3>1. cs \in SUBSET ChunkIds
        BY DEF Run
      <3>2. JobOf(s).file \in Files
        BY <1>1, JobsInSeq DEF Job, JobOf
      <3> QED BY <3>1, <3>2, NewJobIsJob DEF QueueState
    <2>3. jobs' = jobs \/ jobs' = Append(js, new)
      BY DEF CreateJob
    <2> HIDE DEF js, new
    <2>4. Evolves(jobs, Append(js, new))
      BY <2>1, <2>2, AppendEvolves
    <2> QED BY <2>3, <2>4, UnchangedEvolves
  <1>3. Goto(s, pc) \/ Goto(s, "catch")
    BY DEF CreateJob, Throws
  <1>4. "catch" \in Step
    BY DEF Step
  <1>5. /\ run' \in [Slots -> Run]
        /\ \A t \in Slots : RunsKnownJob(t, run'[t])
    BY <1>3, <1>4, GotoGoesOn
  <1> QED BY <1>2, <1>5 DEF WorkGoesOn

\* The catch block and moveToFailed.
LEMMA RejectGoesOn ==
    ASSUME jobs \in Seq(Job), run \in [Slots -> Run], RunJobs,
           NEW s \in Slots, run[s].pc # "idle",
           CatchError(s) \/ CatchThrows(s)
    PROVE  WorkGoesOn
  <1>1. run[s].job \in 1 .. Len(jobs)
    BY DEF RunJobs, RunsKnownJob, JobIds
  <1> DEFINE j  == run[s].job
             js == [jobs EXCEPT ![j].row = "FAILED"]
  <1>2. Evolves(jobs, js)
    BY <1>1, RowEvolves DEF RowStatus
  <1>3. /\ jobs' \in {jobs, js, RetryOrFail(jobs, j), RetryOrFail(js, j)}
        /\ run' = [run EXCEPT ![s] = IdleRun]
    BY DEF CatchError, CatchThrows, Reject
  <1> HIDE DEF js
  <1>4. Evolves(jobs, jobs')
    <2>1. Evolves(jobs, RetryOrFail(jobs, j))
      BY <1>1, RetryEvolves
    <2>2. js \in Seq(Job) /\ j \in 1 .. Len(js)
      BY <1>1, <1>2, LenProperties DEF Evolves
    <2>3. Evolves(js, RetryOrFail(js, j))
      BY <2>2, RetryEvolves
    <2> QED BY <1>2, <1>3, <2>1, <2>2, <2>3, EvolvesTransitive, UnchangedEvolves
  <1>5. IdleRun \in Run /\ RunsKnownJob(s, IdleRun)
    BY DEF IdleRun, Run, Step, RunsKnownJob
  <1> QED BY <1>3, <1>4, <1>5, SetRunGoesOn DEF WorkGoesOn

\* Every step of the parsing processor.
LEMMA ParsingGoesOn ==
    ASSUME jobs \in Seq(Job), run \in [Slots -> Run], RunJobs,
           NEW s \in Slots, ParsingStep(s)
    PROVE  WorkGoesOn
  <1> USE DEF At, Step
  <1>1. CASE ParseStart(s)
    BY <1>1, ProgressGoesOn DEF ParseStart
  <1>2. CASE ParseText(s)
    <2>1. CASE Throws(s) /\ UNCHANGED jobs
      BY <1>2, <2>1, GotoGoesOn, UnchangedEvolves DEF ParseText, Throws, WorkGoesOn
    <2>2. CASE Progress(s, "complete")
      BY <1>2, <2>2, ProgressGoesOn DEF ParseText
    <2>3. CASE CreateJob(s, "chunking", {}, "complete")
      BY <1>2, <2>3, CreateJobGoesOn DEF ParseText, Queues
    <2> QED BY <1>2, <2>1, <2>2, <2>3 DEF ParseText
  <1>3. CASE ParseComplete(s)
    BY <1>3, ProgressGoesOn DEF ParseComplete
  <1>4. CASE ParseSave(s) \/ ParseReady(s) \/ ParsePublish(s) \/ ParseEvaluate(s)
    <2>1. UNCHANGED jobs
      BY <1>4 DEF ParseSave, ParseReady, ParsePublish, ParseEvaluate, ParsingRest
    <2>2. /\ run[s].pc # "idle"
          /\ \/ \E pc \in Step : Goto(s, pc)
             \/ \E pc \in Step, fs \in SUBSET Files : KeepFiles(s, pc, fs)
      BY <1>4 DEF ParseSave, ParseReady, ParsePublish, ParseEvaluate, Throws, LoadFiles, Present
    <2> QED BY <2>1, <2>2, GotoGoesOn, KeepFilesGoesOn, UnchangedEvolves DEF WorkGoesOn
  <1> QED BY <1>1, <1>2, <1>3, <1>4 DEF ParsingStep

\* The ids of a replacement are chunk ids.
LEMMA KnownChunks ==
    ASSUME txns \in Seq(Txn)
    PROVE  NewChunks \in SUBSET ChunkIds
  <1>1. Len(txns) + 1 \in Nat \ {0}
    BY LenProperties
  <1> QED BY <1>1 DEF NewChunks, ChunkIds

\* Every step of the chunking processor.
LEMMA ChunkingGoesOn ==
    ASSUME jobs \in Seq(Job), run \in [Slots -> Run], txns \in Seq(Txn), RunJobs,
           NEW s \in Slots, ChunkingStep(s)
    PROVE  WorkGoesOn
  <1> USE DEF At, Step
  <1>1. CASE ChunkStart(s)
    BY <1>1, ProgressGoesOn DEF ChunkStart
  <1>2. CASE ChunkReplace(s)
    <2>1. UNCHANGED jobs /\ run[s].pc # "idle"
      BY <1>2 DEF ChunkReplace
    <2>2. CASE Throws(s)
      BY <2>1, <2>2, GotoGoesOn, UnchangedEvolves DEF Throws, WorkGoesOn
    <2>3. CASE run' = [run EXCEPT ![s].pc = "create", ![s].held = NewChunks]
      <3> DEFINE r == [run[s] EXCEPT !.pc = "create", !.held = NewChunks]
      <3>1. r \in Run /\ r.job = run[s].job
        BY KnownChunks DEF Run
      <3>2. run' = [run EXCEPT ![s] = r]
        BY <2>3
      <3> HIDE DEF r
      <3>3. RunsKnownJob(s, r)
        BY <2>1, <3>1 DEF RunJobs, RunsKnownJob
      <3> QED BY <2>1, <3>1, <3>2, <3>3, SetRunGoesOn, UnchangedEvolves DEF WorkGoesOn
    <2> QED BY <1>2, <2>2, <2>3 DEF ChunkReplace
  <1>3. CASE ChunkCreate(s)
    <2>1. run[s].held \in SUBSET ChunkIds
      BY DEF Run
    <2> QED BY <1>3, <2>1, CreateJobGoesOn DEF ChunkCreate, Queues
  <1>4. CASE ChunkComplete(s)
    BY <1>4, ProgressGoesOn DEF ChunkComplete
  <1> QED BY <1>1, <1>2, <1>3, <1>4 DEF ChunkingStep

\* Every step of the embeddings processor.
LEMMA EmbeddingsGoesOn ==
    ASSUME jobs \in Seq(Job), run \in [Slots -> Run], RunJobs,
           NEW s \in Slots, EmbeddingsStep(s)
    PROVE  WorkGoesOn
  <1> USE DEF At, Step
  <1>a. run[s].pc # "idle"
    BY DEF EmbeddingsStep, EmbedFind, EmbedBatch, EmbedComplete, EmbedInvalidate
  <1>b. run[s].job \in 1 .. Len(jobs) /\ run[s] \in Run
    BY <1>a DEF RunJobs, RunsKnownJob, JobIds
  <1>c. ASSUME Throws(s), UNCHANGED jobs PROVE WorkGoesOn
    BY <1>a, <1>c, GotoGoesOn, UnchangedEvolves DEF Throws, WorkGoesOn
  <1>d. ASSUME SetRow(s, "PROCESSING"), NEW pc \in Step, NEW cs \in SUBSET ChunkIds,
               run' = [run EXCEPT ![s].pc = pc, ![s].held = cs]
        PROVE  WorkGoesOn
    <2> DEFINE r == [run[s] EXCEPT !.pc = pc, !.held = cs]
    <2>1. r \in Run /\ r.job = run[s].job /\ run' = [run EXCEPT ![s] = r]
      BY <1>b, <1>d DEF Run
    <2> HIDE DEF r
    <2>2. RunsKnownJob(s, r)
      BY <1>a, <2>1 DEF RunJobs, RunsKnownJob
    <2>3. Evolves(jobs, jobs')
      BY <1>b, <1>d, RowEvolves DEF SetRow, RowStatus
    <2> QED BY <2>1, <2>2, <2>3, SetRunGoesOn DEF WorkGoesOn
  <1>1. CASE EmbedFind(s)
    <2> DEFINE found == JobOf(s).chunks \cap chunks
               toDo  == found \ embedded
               pc    == IF found = {} THEN "catch" ELSE IF toDo = {} THEN "complete" ELSE "embed"
    <2>1. \/ Throws(s) /\ UNCHANGED jobs
          \/ /\ SetRow(s, "PROCESSING")
             /\ run' = [run EXCEPT ![s].pc = pc, ![s].held = toDo]
      BY <1>1 DEF EmbedFind
    <2>2. pc \in Step
      OBVIOUS
    <2>3. toDo \in SUBSET ChunkIds
      BY <1>b, JobsInSeq DEF Job, JobOf
    <2> HIDE DEF pc, toDo
    <2> QED BY <1>c, <1>d, <2>1, <2>2, <2>3
  <1>2. CASE EmbedBatch(s)
    <2>1. CASE Throws(s) /\ UNCHANGED jobs
      BY <1>c, <2>1
    <2>2. ASSUME NEW c \in run[s].held,
                 run' = [run EXCEPT ![s].pc = IF run[s].held = {c} THEN "complete" ELSE "embed",
                                    ![s].held = @ \ {c}],
                 SetRow(s, "PROCESSING")
          PROVE  WorkGoesOn
      <3> DEFINE pc == IF run[s].held = {c} THEN "complete" ELSE "embed"
                 cs == run[s].held \ {c}
      <3>1. pc \in Step /\ cs \in SUBSET ChunkIds
        BY <1>b DEF Run
      <3>2. run' = [run EXCEPT ![s].pc = pc, ![s].held = cs]
        BY <1>b, <2>2 DEF Run
      <3> HIDE DEF pc, cs
      <3> QED BY <1>d, <2>2, <3>1, <3>2
    <2> QED BY <1>2, <2>1, <2>2 DEF EmbedBatch
  <1>3. CASE EmbedComplete(s)
    BY <1>3, ProgressGoesOn DEF EmbedComplete
  <1>4. CASE EmbedInvalidate(s)
    BY <1>4, GotoGoesOn, UnchangedEvolves DEF EmbedInvalidate, WorkGoesOn
  <1> QED BY <1>1, <1>2, <1>3, <1>4 DEF EmbeddingsStep
\* Delivery, completion, stalled check and loss of a lock.
LEMMA QueueGoesOn ==
    ASSUME jobs \in Seq(Job), run \in [Slots -> Run], RunJobs,
           \/ \E s \in Slots : Deliver(s) \/ Resolve(s)
           \/ \E j \in JobIds : Stall(j) \/ LoseLock(j)
    PROVE  WorkGoesOn
  <1> USE DEF At
  <1>1. ASSUME NEW s \in Slots, Deliver(s) PROVE WorkGoesOn
    <2>1. PICK j \in JobIds :
            /\ jobs[j].queue = s[2]
            /\ jobs' = [jobs EXCEPT ![j].state = "active", ![j].owner = s]
            /\ run' = [run EXCEPT ![s] = [IdleRun EXCEPT !.pc = "start", !.job = j]]
      BY <1>1 DEF Deliver
    <2> DEFINE v == [jobs[j] EXCEPT !.state = "active", !.owner = s]
               r == [IdleRun EXCEPT !.pc = "start", !.job = j]
    <2>2. KeepsJob(jobs[j], v) /\ v.row = jobs[j].row
      BY JobsInSeq DEF KeepsJob, Job, JobIds, QueueState
    <2>3. jobs' = [jobs EXCEPT ![j] = v] /\ run' = [run EXCEPT ![s] = r]
      BY <2>1
    <2>4. r \in Run /\ RunsKnownJob(s, r)
      <3>1. j \in Nat
        BY LenProperties DEF JobIds
      <3>2. IdleRun \in Run
        BY DEF IdleRun, Run, Step
      <3>3. r \in Run /\ r.job = j
        BY ONLY <3>1, <3>2 DEF Run, Step
      <3> QED BY <2>1, <3>3 DEF RunsKnownJob
    <2> HIDE DEF v, r
    <2>5. Evolves(jobs, jobs')
      BY <2>2, <2>3, UpdateEvolves DEF JobIds
    <2> QED BY <2>3, <2>4, <2>5, SetRunGoesOn DEF WorkGoesOn
  <1>2. ASSUME NEW s \in Slots, Resolve(s) PROVE WorkGoesOn
    <2> DEFINE j == run[s].job
               v == [jobs[j] EXCEPT !.state = "completed", !.owner = NoSlot]
    <2>1. j \in 1 .. Len(jobs)
      BY <1>2 DEF Resolve, RunJobs, RunsKnownJob, JobIds
    <2>2. KeepsJob(jobs[j], v) /\ v.row = jobs[j].row
      <3>1. jobs[j] \in Job
        BY <2>1, JobsInSeq
      <3> QED BY ONLY <3>1 DEF KeepsJob, Job, QueueState
    <2>3. /\ jobs' = jobs \/ jobs' = [jobs EXCEPT ![j] = v]
          /\ run' = [run EXCEPT ![s] = IdleRun]
      BY <1>2 DEF Resolve
    <2> HIDE DEF v
    <2>4. Evolves(jobs, jobs')
      BY <2>1, <2>2, <2>3, UpdateEvolves, UnchangedEvolves
    <2>5. IdleRun \in Run /\ RunsKnownJob(s, IdleRun)
      BY DEF IdleRun, Run, Step, RunsKnownJob
    <2> QED BY <2>3, <2>4, <2>5, SetRunGoesOn DEF WorkGoesOn
  <1>3. ASSUME NEW j \in JobIds, Stall(j) \/ LoseLock(j) PROVE WorkGoesOn
    <2>1. run' = run
      BY <1>3 DEF Stall, LoseLock
    <2>2. Evolves(jobs, jobs')
      <3>1. CASE Stall(j)
        <4> DEFINE st == IF jobs[j].stalls + 1 > MaxStalled THEN "failed" ELSE "waiting"
                   v  == [jobs[j] EXCEPT !.stalls = jobs[j].stalls + 1, !.state = st]
        <4>1. jobs' = [jobs EXCEPT ![j] = v]
          BY <3>1 DEF Stall
        <4>2. st \in QueueState \ {"unqueued"} /\ jobs[j] \in Job
          BY JobsInSeq DEF JobIds, QueueState
        <4>a. jobs[j].stalls + 1 \in Nat
          BY <4>2 DEF Job
        <4> HIDE DEF st
        <4>3. KeepsJob(jobs[j], v) /\ v.row = jobs[j].row
          BY ONLY <4>2, <4>a DEF KeepsJob, Job
        <4> HIDE DEF v
        <4> QED BY <4>1, <4>3, UpdateEvolves DEF JobIds
      <3>2. CASE LoseLock(j)
        <4> DEFINE v == [jobs[j] EXCEPT !.owner = NoSlot]
        <4>1. jobs' = [jobs EXCEPT ![j] = v]
          BY <3>2 DEF LoseLock
        <4>2. KeepsJob(jobs[j], v) /\ v.row = jobs[j].row
          BY JobsInSeq DEF KeepsJob, Job, JobIds
        <4> HIDE DEF v
        <4> QED BY <4>1, <4>2, UpdateEvolves DEF JobIds
      <3> QED BY <1>3, <3>1, <3>2
    <2> QED BY <2>1, <2>2, SameRunGoesOn DEF WorkGoesOn
  <1> QED BY <1>1, <1>2, <1>3

\* Every fault.
LEMMA FaultGoesOn ==
    ASSUME jobs \in Seq(Job), run \in [Slots -> Run], RunJobs, Faulty
    PROVE  WorkGoesOn
  <1> USE DEF At
  <1>1. ASSUME NEW s \in Slots, StepThrows(s) \/ ChunkTimeout(s) PROVE WorkGoesOn
    <2>1. run[s].pc # "idle" /\ Goto(s, "catch") /\ UNCHANGED jobs /\ "catch" \in Step
      BY <1>1 DEF StepThrows, ChunkTimeout, Throws, Step
    <2> QED BY <2>1, GotoGoesOn, UnchangedEvolves DEF WorkGoesOn
  <1>2. ASSUME NEW s \in Slots, CatchThrows(s) PROVE WorkGoesOn
    BY <1>2, RejectGoesOn DEF CatchThrows
  <1>3. ASSUME NEW s \in Slots, NEW q \in Queues, AddThrows(s, q), run[s].pc # "idle"
        PROVE  WorkGoesOn
    <2> DEFINE js  == [jobs EXCEPT ![run[s].job].row = "PROCESSING"]
               new == NewJob(q, JobOf(s).file, run[s].held, "unqueued")
    <2>1. run[s].job \in 1 .. Len(jobs) /\ run[s] \in Run
      BY <1>3 DEF RunJobs, RunsKnownJob, JobIds
    <2>2. Evolves(jobs, js)
      BY <2>1, RowEvolves DEF RowStatus
    <2>3. new \in Job /\ new.row # "COMPLETED" /\ new.chunks = run[s].held
      <3>1. run[s].held \in SUBSET ChunkIds
        BY DEF Run
      <3>2. JobOf(s).file \in Files
        BY <2>1, JobsInSeq DEF Job, JobOf
      <3> QED BY <3>1, <3>2, NewJobIsJob DEF QueueState
    <2>4. jobs' = Append(js, new) /\ Goto(s, "catch") /\ "catch" \in Step
      BY <1>3 DEF AddThrows, Throws, Step
    <2> HIDE DEF js, new
    <2>5. Evolves(jobs, jobs')
      BY <2>2, <2>3, <2>4, AppendEvolves
    <2> QED BY <1>3, <2>4, <2>5, GotoGoesOn DEF WorkGoesOn
  <1>4. ASSUME NEW s \in Slots, ParseAddThrows(s) \/ ChunkAddThrows(s) PROVE WorkGoesOn
    BY <1>3, <1>4 DEF ParseAddThrows, ChunkAddThrows, Queues
  <1>5. ASSUME NEW p \in Procs, Crash(p) PROVE WorkGoesOn
    <2>1. /\ run' \in [Slots -> Run]
          /\ \A s \in Slots : RunsKnownJob(s, run'[s])
      BY <1>5 DEF Crash, IdleRun, Run, Step, RunJobs, RunsKnownJob
    <2>2. jobs' = [j \in 1 .. Len(jobs) |-> jobs'[j]]
      BY <1>5 DEF Crash, JobIds
    <2>3. ASSUME NEW j \in 1 .. Len(jobs)
          PROVE  KeepsJob(jobs[j], jobs'[j]) /\ jobs'[j].row = jobs[j].row
      <3> DEFINE o == IF jobs[j].owner \in {p} \X Queues THEN NoSlot ELSE jobs[j].owner
      <3>1. jobs[j] \in Job
        BY JobsInSeq
      <3>2. o \in Slots \cup {NoSlot}
        BY <3>1 DEF Job
      <3>3. jobs'[j] = [jobs[j] EXCEPT !.owner = o]
        BY <1>5 DEF Crash, JobIds
      <3> HIDE DEF o
      <3> QED BY <3>1, <3>2, <3>3 DEF KeepsJob, Job
    <2>4. Evolves(jobs, jobs')
      BY <2>2, <2>3, MapEvolves
    <2> QED BY <2>1, <2>4 DEF WorkGoesOn
  <1> QED BY <1>1, <1>2, <1>4, <1>5, QueueGoesOn DEF Faulty

\* Every step of a client handler, completed or cut short.
LEMMA ClientGoesOn ==
    ASSUME jobs \in Seq(Job), run \in [Slots -> Run], RunJobs, reindex \in Reindex,
           ClientNext \/ ClientStops
    PROVE  WorkGoesOn
  <1> USE DEF DbRest, ReindexRest, RemovalRest
  <1>a. \A q \in Queues, f \in Files, st \in QueueState :
           Evolves(jobs, Append(jobs, NewJob(q, f, {}, st)))
    BY NewJobIsJob, AppendEvolves, UnchangedEvolves
  <1>b. ASSUME NEW F, F = [j \in JobIds |-> F[j]],
               \A j \in JobIds : F[j] = jobs[j] \/ F[j] = [jobs[j] EXCEPT !.row = "absent"]
        PROVE  Evolves(jobs, F)
    <2>1. ASSUME NEW j \in 1 .. Len(jobs)
          PROVE  KeepsJob(jobs[j], F[j]) /\ F[j].row \in {jobs[j].row, "absent"}
      <3> DEFINE v == [jobs[j] EXCEPT !.row = "absent"]
      <3>1. jobs[j] \in Job
        BY JobsInSeq
      <3>2. KeepsJob(jobs[j], jobs[j]) /\ KeepsJob(jobs[j], v) /\ v.row = "absent"
        BY ONLY <3>1 DEF KeepsJob, Job, RowStatus
      <3> HIDE DEF v
      <3>3. F[j] = jobs[j] \/ F[j] = v
        BY <1>b DEF JobIds, v
      <3> QED BY <3>2, <3>3
    <2> QED BY <1>b, <2>1, MapEvolves DEF JobIds
  <1>1. ASSUME NEW f \in Files,
               UploadBlob(f) \/ UploadSaveFile(f) \/ UploadSaveJob(f) \/ UploadStops(f)
        PROVE  Evolves(jobs, jobs') /\ run' = run
    BY <1>1, <1>a, UnchangedEvolves
       DEF UploadBlob, UploadSaveFile, UploadSaveJob, UploadStops, Queues, QueueState
  <1>2. ASSUME NEW f \in Files,
               DeleteFileBlob(f) \/ DeleteFileJobs(f) \/ DeleteFileRow(f) \/ DeleteFileStops(f)
        PROVE  Evolves(jobs, jobs') /\ run' = run
    <2>1. CASE DeleteFileJobs(f)
      <3>1. \A j \in JobIds :
              jobs'[j] = jobs[j] \/ jobs'[j] = [jobs[j] EXCEPT !.row = "absent"]
        BY <2>1 DEF DeleteFileJobs
      <3>2. jobs' = [j \in JobIds |-> jobs'[j]]
        BY <2>1 DEF DeleteFileJobs
      <3> QED BY <1>b, <2>1, <3>1, <3>2 DEF DeleteFileJobs
    <2> QED BY <1>2, <2>1, UnchangedEvolves DEF DeleteFileBlob, DeleteFileRow, DeleteFileStops
  <1>3. ASSUME ReindexChunks \/ ReindexStops
        PROVE  Evolves(jobs, jobs') /\ run' = run
    <2>1. reindex.todo \subseteq Files
      BY DEF Reindex
    <2> QED BY <1>3, <1>a, <2>1, UnchangedEvolves
            DEF ReindexChunks, ReindexLoad, ReindexDelete, ReindexCreate, ReindexReturn,
                ReindexStops, Queues, QueueState
  <1>4. ASSUME DeleteDocument \/ RemovalStops
        PROVE  Evolves(jobs, jobs') /\ run' = run
    <2>1. CASE RemovalRow
      <3>1. \A j \in JobIds :
              jobs'[j] = jobs[j] \/ jobs'[j] = [jobs[j] EXCEPT !.row = "absent"]
        BY <2>1 DEF RemovalRow
      <3>2. jobs' = [j \in JobIds |-> jobs'[j]]
        BY <2>1 DEF RemovalRow
      <3> QED BY <1>b, <2>1, <3>1, <3>2 DEF RemovalRow
    <2> QED BY <1>4, <2>1, UnchangedEvolves
            DEF DeleteDocument, RemovalLoad, RemovalChunks, RemovalBlobs, RemovalStops
  <1>5. Evolves(jobs, jobs') /\ run' = run
    BY <1>1, <1>2, <1>3, <1>4 DEF ClientNext, ClientStops, UploadFile, DeleteFile
  <1> QED BY <1>5, SameRunGoesOn DEF WorkGoesOn

\* Every step of the pipeline lets jobs evolve and keeps workers on their jobs.
LEMMA NextGoesOn ==
    ASSUME TypeOK, RunJobs, [Next]_vars
    PROVE  WorkGoesOn
  <1> USE DEF TypeOK, ClientTypeOK
  <1>1. ASSUME NEW s \in Slots, WorkerStep(s) PROVE WorkGoesOn
    <2>1. CASE CatchError(s)
      BY <2>1, RejectGoesOn DEF CatchError, At
    <2> QED BY <1>1, <2>1, ParsingGoesOn, ChunkingGoesOn, EmbeddingsGoesOn, QueueGoesOn
            DEF WorkerStep
  <1>2. CASE \E t \in lateTx : LateCommit(t)
    BY <1>2, UnchangedEvolves, SameRunGoesOn DEF LateCommit, WorkGoesOn
  <1>3. CASE UNCHANGED vars
    BY <1>3, UnchangedEvolves, SameRunGoesOn DEF vars, shared, WorkGoesOn
  <1> QED BY <1>1, <1>2, <1>3, QueueGoesOn, FaultGoesOn, ClientGoesOn DEF Next, WorkerNext

\* Types of the tables after a step of a worker, the queue or a fault.
LEMMA WorkerTypes ==
    ASSUME TypeOK, RunJobs, WorkerNext
    PROVE  /\ doc' \in {"absent", "PROCESSING", "AVAILABLE"}
           /\ file' \in [Files -> {"absent", "PROCESSING", "AVAILABLE"}]
           /\ blobs' \subseteq Files
           /\ chunks' \in SUBSET ChunkIds
           /\ embedded' \in SUBSET chunks'
           /\ txns' \in Seq(Txn)
           /\ lateTx' \in SUBSET (Procs \X JobIds)
           /\ evaluation' \in BOOLEAN
           /\ faults' \in 0 .. MaxFaults
  <1> USE DEF TypeOK, At
  <1>1. ASSUME NEW s \in Slots, ParsingStep(s)
        PROVE  /\ doc' \in {"absent", "PROCESSING", "AVAILABLE"}
               /\ file' \in [Files -> {"absent", "PROCESSING", "AVAILABLE"}]
               /\ evaluation' \in BOOLEAN
               /\ UNCHANGED ParsingRest
    <2>1. CASE ParseSave(s)
      <3>1. run[s].job \in JobIds
        BY <2>1 DEF ParseSave, RunJobs, RunsKnownJob
      <3> QED BY <2>1, <3>1 DEF ParseSave
    <2> QED BY <1>1, <2>1 DEF ParsingStep, ParseStart, ParseText, ParseComplete,
               ParseReady, ParsePublish, ParseEvaluate
  <1>2. ASSUME NEW j \in JobIds, NEW late \in BOOLEAN, ReplaceChunks(j, late)
        PROVE  /\ chunks' \in SUBSET ChunkIds
               /\ embedded' \in SUBSET chunks'
               /\ txns' \in Seq(Txn)
    <2>1. jobs[j] \in Job /\ j \in Nat
      BY LenProperties, JobsInSeq DEF JobIds
    <2>2. [file |-> jobs[j].file, job |-> j, late |-> late] \in Txn
      BY <2>1 DEF Job, Txn
    <2> QED BY <1>2, <2>2, KnownChunks, AppendProperties DEF ReplaceChunks
  <1>3. ASSUME NEW s \in Slots, ChunkingStep(s)
        PROVE  /\ chunks' \in SUBSET ChunkIds
               /\ embedded' \in SUBSET chunks'
               /\ txns' \in Seq(Txn)
               /\ UNCHANGED <<ChunkingRest, lateTx, faults>>
    <2>1. CASE ChunkReplace(s)
      <3>1. run[s].job \in JobIds
        BY <2>1 DEF ChunkReplace, RunJobs, RunsKnownJob
      <3> QED BY <2>1, <3>1, <1>2 DEF ChunkReplace
    <2> QED BY <1>3, <2>1 DEF ChunkingStep, ChunkStart, ChunkCreate, ChunkComplete
  <1>4. ASSUME NEW s \in Slots, EmbeddingsStep(s)
        PROVE  /\ chunks' \in SUBSET ChunkIds
               /\ embedded' \in SUBSET chunks'
               /\ UNCHANGED EmbeddingRest
    <2>1. run[s].held \subseteq ChunkIds
      BY DEF Run
    <2> QED BY <1>4, <2>1 DEF EmbeddingsStep, EmbedFind, EmbedBatch, EmbedComplete,
               EmbedInvalidate
  <1>5. ASSUME NEW s \in Slots, CatchError(s) \/ Deliver(s) \/ Resolve(s)
        PROVE  UNCHANGED <<doc, file, blobs, chunks, embedded, txns, lateTx, evaluation, faults>>
    BY <1>5 DEF CatchError, Reject, Deliver, Resolve
  <1>6. ASSUME NEW t \in lateTx, LateCommit(t)
        PROVE  /\ chunks' \in SUBSET ChunkIds
               /\ embedded' \in SUBSET chunks'
               /\ txns' \in Seq(Txn)
               /\ lateTx' \subseteq lateTx
               /\ UNCHANGED <<ChunkingRest, faults>>
    BY <1>2, <1>6 DEF LateCommit
  <1>7. ASSUME NEW j \in JobIds, Stall(j)
        PROVE  UNCHANGED <<doc, file, blobs, chunks, embedded, txns, lateTx, evaluation, faults>>
    BY <1>7 DEF Stall
  <1>8. ASSUME Faulty
        PROVE  /\ UNCHANGED <<doc, file, blobs, chunks, embedded, txns, evaluation>>
               /\ lateTx' \in SUBSET (Procs \X JobIds)
               /\ faults' \in 0 .. MaxFaults
    <2>1. ASSUME NEW kind, Fault(kind) PROVE faults' \in 0 .. MaxFaults
      BY <2>1, BoundsAssumption DEF Fault
    <2>2. ASSUME NEW s \in Slots, ChunkTimeout(s) PROVE lateTx' \in SUBSET (Procs \X JobIds)
      <3>1. run[s].job \in JobIds /\ s[1] \in Procs
        BY <2>2, SlotsAssumption DEF ChunkTimeout, RunJobs, RunsKnownJob
      <3> QED BY <2>2, <3>1 DEF ChunkTimeout
    <2> QED BY <1>8, <2>1, <2>2
            DEF Faulty, StepThrows, CatchThrows, ParseAddThrows, ChunkAddThrows, AddThrows,
                ChunkTimeout, Crash, LoseLock, WorkerFault, Reject, ChunkingRest
  <1> QED BY <1>1, <1>3, <1>4, <1>5, <1>6, <1>7, <1>8
          DEF WorkerNext, WorkerStep, ParsingRest, ChunkingRest, EmbeddingRest

\* Types of the tables and handlers after a step of a client.
LEMMA ClientTypes ==
    ASSUME TypeOK, ClientNext \/ ClientStops
    PROVE  /\ doc' \in {"absent", "PROCESSING", "AVAILABLE"}
           /\ file' \in [Files -> {"absent", "PROCESSING", "AVAILABLE"}]
           /\ blobs' \subseteq Files
           /\ chunks' \in SUBSET ChunkIds
           /\ embedded' \in SUBSET chunks'
           /\ UNCHANGED DbRest
           /\ faults' \in 0 .. MaxFaults
           /\ ClientTypeOK'
  <1> USE DEF TypeOK, ClientTypeOK, DbRest
  <1>0. ASSUME NEW kind, Fault(kind) PROVE faults' \in 0 .. MaxFaults
    BY <1>0, BoundsAssumption DEF Fault
  <1> USE <1>0
  <1>1. ASSUME NEW f \in Files, UploadFile(f) \/ UploadStops(f)
        PROVE  /\ upload' \in [Files -> UploadStep]
               /\ UNCHANGED <<deletion, deletedFiles, reindex, removal>>
               /\ file' \in [Files -> {"absent", "PROCESSING", "AVAILABLE"}]
               /\ blobs' \subseteq Files
               /\ UNCHANGED <<doc, chunks, embedded, DbRest>>
               /\ faults' \in 0 .. MaxFaults
    BY <1>1 DEF UploadFile, UploadBlob, UploadSaveFile, UploadSaveJob, UploadStops,
                UploadAt, UploadStep
  <1>2. ASSUME NEW f \in Files, DeleteFile(f) \/ DeleteFileStops(f)
        PROVE  /\ deletion' \in [Files -> DeletionStep] /\ deletedFiles' \subseteq Files
               /\ UNCHANGED <<upload, reindex, removal>>
               /\ file' \in [Files -> {"absent", "PROCESSING", "AVAILABLE"}]
               /\ blobs' \subseteq Files
               /\ UNCHANGED <<doc, chunks, embedded, DbRest>>
               /\ faults' \in 0 .. MaxFaults
    BY <1>2 DEF DeleteFile, DeleteFileBlob, DeleteFileJobs, DeleteFileRow, DeleteFileStops,
                DeleteAt, DeletionStep, DeleteObjects
  <1>3. ASSUME ReindexChunks \/ ReindexStops
        PROVE  /\ reindex' \in Reindex
               /\ chunks' \in SUBSET ChunkIds /\ embedded' \in SUBSET chunks'
               /\ UNCHANGED <<upload, deletion, deletedFiles, removal, doc, file, blobs, DbRest>>
               /\ faults' \in 0 .. MaxFaults
    <2>1. reindex' \in Reindex
      <3>1. CASE ReindexLoad
        <4> DEFINE n == reindex.count + 1
        <4>1. n \in 0 .. MaxReindex
          BY <3>1, ReindexAssumption DEF ReindexLoad, Reindex
        <4>2. PICK todo \in SUBSET Files :
                reindex' = [reindex EXCEPT !.pc = "delete", !.todo = todo, !.count = n]
          BY <3>1 DEF ReindexLoad
        <4> HIDE DEF n
        <4> QED BY <4>1, <4>2 DEF Reindex
      <3>2. CASE ReindexCreate
        <4>1. \E todo \in SUBSET Files :
                 \/ reindex' = [reindex EXCEPT !.pc = "idle", !.todo = {}]
                 \/ reindex' = [reindex EXCEPT !.todo = todo]
          BY <3>2 DEF ReindexCreate, Reindex
        <4> QED BY <4>1 DEF Reindex
      <3> QED BY <1>3, <3>1, <3>2
              DEF ReindexChunks, ReindexDelete, ReindexReturn, ReindexStops, Reindex
    <2> QED BY <1>3, <2>1
            DEF ReindexChunks, ReindexLoad, ReindexDelete, ReindexCreate, ReindexReturn,
                ReindexStops, ReindexRest
  <1>4. ASSUME DeleteDocument \/ RemovalStops
        PROVE  /\ removal' \in Removal
               /\ doc' \in {"absent", "PROCESSING", "AVAILABLE"}
               /\ file' \in [Files -> {"absent", "PROCESSING", "AVAILABLE"}]
               /\ blobs' \subseteq Files
               /\ chunks' \in SUBSET ChunkIds /\ embedded' \in SUBSET chunks'
               /\ UNCHANGED <<upload, deletion, deletedFiles, reindex, DbRest>>
               /\ faults' \in 0 .. MaxFaults
    <2>1. ASSUME RemovalBlobs PROVE blobs' \subseteq Files /\ faults' \in 0 .. MaxFaults
      BY <2>1 DEF RemovalBlobs, DeleteObjects
    <2>2. removal' \in Removal
      <3>1. CASE RemovalLoad
        BY <3>1 DEF RemovalLoad, Removal
      <3>2. CASE RemovalChunks \/ RemovalBlobs
        <4>1. \E pc \in {"blobs", "remove"} : removal' = [removal EXCEPT !.pc = pc]
          BY <3>2 DEF RemovalChunks, RemovalBlobs
        <4> QED BY <4>1 DEF Removal
      <3>3. CASE RemovalRow \/ RemovalStops
        BY <3>3 DEF RemovalRow, RemovalStops, Removal
      <3> QED BY <1>4, <3>1, <3>2, <3>3 DEF DeleteDocument
    <2> QED BY <1>4, <2>1, <2>2
            DEF DeleteDocument, RemovalLoad, RemovalChunks, RemovalBlobs, RemovalRow,
                RemovalStops, RemovalRest
  <1> QED BY <1>1, <1>2, <1>3, <1>4 DEF ClientNext, ClientStops

\* The types and the assignment of jobs to workers are inductive together.
LEMMA TypeNext ==
    ASSUME TypeOK, RunJobs, [Next]_vars
    PROVE  TypeOK' /\ RunJobs'
  <1>1. WorkGoesOn
    BY NextGoesOn
  <1>2. Len(jobs) \in Nat /\ Len(jobs') \in Nat /\ Len(jobs) <= Len(jobs')
    BY <1>1, LenProperties DEF WorkGoesOn, Evolves, TypeOK
  <1>3. JobIds \subseteq JobIds'
    BY <1>2 DEF JobIds
  <1>4. RunJobs'
    BY <1>1, <1>2 DEF WorkGoesOn, Evolves, KeepsJob, RunJobs, RunsKnownJob, JobIds
  <1>5. jobs' \in Seq(Job) /\ run' \in [Slots -> Run]
    BY <1>1 DEF WorkGoesOn, Evolves
  <1>6. CASE WorkerNext /\ UNCHANGED client
    <2>1. ClientTypeOK'
      BY <1>6 DEF client, ClientTypeOK, TypeOK
    <2> QED BY <1>3, <1>4, <1>5, <1>6, <2>1, WorkerTypes DEF TypeOK
  <1>7. CASE ClientNext \/ ClientStops
    <2>1. lateTx' \in SUBSET (Procs \X JobIds') /\ txns' \in Seq(Txn) /\ evaluation' \in BOOLEAN
      BY <1>3, <1>7, ClientTypes DEF TypeOK, DbRest
    <2> QED BY <1>4, <1>5, <1>7, <2>1, ClientTypes DEF TypeOK
  <1>8. CASE UNCHANGED vars
    BY <1>4, <1>5, <1>8, <1>3 DEF vars, shared, client, TypeOK, ClientTypeOK
  <1> QED BY <1>6, <1>7, <1>8 DEF Next

\* They hold at first.
LEMMA TypeInit == Init => TypeOK /\ RunJobs
  <1> SUFFICES ASSUME Init PROVE TypeOK /\ RunJobs
    OBVIOUS
  <1>1. jobs \in Seq(Job) /\ txns \in Seq(Txn)
    BY DEF Init
  <1>2. run \in [Slots -> Run] /\ RunJobs
    BY DEF Init, IdleRun, Run, Step, RunJobs, RunsKnownJob
  <1>3. ClientTypeOK
    BY ReindexAssumption DEF Init, ClientInit, ClientTypeOK, UploadStep, DeletionStep, Reindex, Removal
  <1>4. faults \in 0 .. MaxFaults
    BY BoundsAssumption DEF Init
  <1>5. /\ doc \in {"absent", "PROCESSING", "AVAILABLE"}
        /\ file \in [Files -> {"absent", "PROCESSING", "AVAILABLE"}]
        /\ blobs \subseteq Files
        /\ chunks \in SUBSET ChunkIds
        /\ embedded \in SUBSET chunks
        /\ lateTx \in SUBSET (Procs \X JobIds)
        /\ evaluation \in BOOLEAN
    BY DEF Init
  <1> QED BY <1>1, <1>2, <1>3, <1>4, <1>5 DEF TypeOK

(* The variables have their types, for any number of files, processes,      *)
(* batches, attempts and faults: no interleaving of workers, clients and    *)
(* faults in DocumentPipeline leaves the states its code expects.           *)
THEOREM TypeCorrect == Spec => []TypeOK
  <1>1. Spec => [](TypeOK /\ RunJobs)
    BY TypeInit, TypeNext, PTL DEF Spec
  <1> QED BY <1>1, PTL

-----------------------------------------------------------------------------
(* The workers. *)

\* What a step of the pipeline may do to the worker s.
SlotMoves(s) ==
    \/ run'[s] = run[s]
    \/ run'[s].pc \in {"idle", "start", "catch"} /\ run'[s].held \subseteq run[s].held
    \/ ParsingStep(s) \/ ChunkingStep(s) \/ EmbeddingsStep(s)

\* A step that throws sends its worker to the catch block.
LEMMA GotoMoves ==
    ASSUME run \in [Slots -> Run], NEW t \in Slots, Goto(t, "catch"), NEW s \in Slots
    PROVE  SlotMoves(s)
  <1>1. run'[s] = IF s = t THEN [run[t] EXCEPT !.pc = "catch"] ELSE run[s]
    BY DEF Goto
  <1>2. [run[t] EXCEPT !.pc = "catch"].pc = "catch" /\ [run[t] EXCEPT !.pc = "catch"].held = run[t].held
    BY DEF Run
  <1> QED BY <1>1, <1>2 DEF SlotMoves

\* A step of one worker leaves the others where they are.
LEMMA StepMoves ==
    ASSUME run \in [Slots -> Run], NEW s \in Slots, NEW t \in Slots,
           ParsingStep(t) \/ ChunkingStep(t) \/ EmbeddingsStep(t)
    PROVE  SlotMoves(s)
  <1>1. CASE s = t
    BY <1>1 DEF SlotMoves
  <1>2. CASE s # t
    <2>1. run'[s] = run[s]
      BY <1>2 DEF ParsingStep, ParseStart, ParseText, ParseComplete, ParseSave, ParseReady,
         ParsePublish, ParseEvaluate, ChunkingStep, ChunkStart, ChunkReplace, ChunkCreate,
         ChunkComplete, EmbeddingsStep, EmbedFind, EmbedBatch, EmbedComplete,
         EmbedInvalidate, Progress, Complete, CreateJob, Throws, Goto, LoadFiles, KeepFiles
    <2> QED BY <2>1 DEF SlotMoves
  <1> QED BY <1>1, <1>2

\* However the pipeline steps, a worker stays, stops, starts, fails or makes its own step.
LEMMA NextMoves ==
    ASSUME TypeOK, RunJobs, [Next]_vars, NEW s \in Slots
    PROVE  SlotMoves(s)
  <1> USE DEF TypeOK
  <1>1. ASSUME run' = run PROVE SlotMoves(s)
    BY <1>1 DEF SlotMoves
  <1>2. ASSUME NEW t \in Slots, NEW r, run' = [run EXCEPT ![t] = r], r.held = {},
               r.pc \in {"idle", "start"}
        PROVE  SlotMoves(s)
    BY <1>2 DEF SlotMoves
  <1>a. ASSUME NEW t \in Slots, run' = [run EXCEPT ![t] = IdleRun] PROVE SlotMoves(s)
    <2>1. IdleRun.pc = "idle" /\ IdleRun.held = {}
      BY DEF IdleRun
    <2> QED BY <1>2, <1>a, <2>1
  <1>3. ASSUME NEW t \in Slots, WorkerStep(t) PROVE SlotMoves(s)
    <2>1. CASE CatchError(t) \/ Resolve(t)
      BY <1>a, <2>1 DEF CatchError, Reject, Resolve
    <2>2. CASE Deliver(t)
      <3>1. PICK j \in JobIds :
              run' = [run EXCEPT ![t] = [IdleRun EXCEPT !.pc = "start", !.job = j]]
        BY <2>2 DEF Deliver
      <3> DEFINE r == [IdleRun EXCEPT !.pc = "start", !.job = j]
      <3>2. r.pc = "start" /\ r.held = {}
        BY DEF IdleRun
      <3> HIDE DEF r
      <3> QED BY <1>2, <3>1, <3>2 DEF r
    <2> QED BY <1>3, <2>1, <2>2, StepMoves DEF WorkerStep
  <1>4. ASSUME Faulty PROVE SlotMoves(s)
    <2>1. ASSUME NEW t \in Slots, CatchThrows(t) PROVE SlotMoves(s)
      BY <1>a, <2>1 DEF CatchThrows, Reject
    <2>2. ASSUME NEW t \in Slots,
                 StepThrows(t) \/ ParseAddThrows(t) \/ ChunkAddThrows(t) \/ ChunkTimeout(t)
          PROVE SlotMoves(s)
      BY <2>2, GotoMoves
         DEF StepThrows, ParseAddThrows, ChunkAddThrows, AddThrows, ChunkTimeout, Throws
    <2>3. ASSUME NEW p \in Procs, Crash(p) PROVE SlotMoves(s)
      BY <2>3 DEF Crash, IdleRun, SlotMoves
    <2>4. ASSUME NEW j \in JobIds, LoseLock(j) PROVE SlotMoves(s)
      BY <1>1, <2>4 DEF LoseLock
    <2> QED BY <1>4, <2>1, <2>2, <2>3, <2>4 DEF Faulty
  <1>5. ASSUME ClientNext \/ ClientStops PROVE SlotMoves(s)
    BY <1>1, <1>5, ClientTypes DEF DbRest
  <1>6. ASSUME UNCHANGED vars PROVE SlotMoves(s)
    BY <1>1, <1>6 DEF vars, shared
  <1> QED BY <1>1, <1>3, <1>4, <1>5, <1>6 DEF Next, WorkerNext, LateCommit, Stall

\* Goto changes the program counter alone.
LEMMA GotoRun ==
    ASSUME run \in [Slots -> Run], NEW s \in Slots, NEW pc, Goto(s, pc)
    PROVE  run'[s].pc = pc /\ run'[s].job = run[s].job /\ run'[s].held = run[s].held
  <1>1. run[s] \in Run /\ run'[s] = [run[s] EXCEPT !.pc = pc]
    BY DEF Goto
  <1> QED BY <1>1 DEF Run

-----------------------------------------------------------------------------
(* What the queue does with a job, and what its row says.                  *)

\* The places of a worker that has reported its job COMPLETED.
Reported == {"save", "ready", "publish", "evaluate", "invalidate", "resolve"}

\* A worker that runs a job.
Runs(s, j) == run[s].pc # "idle" /\ run[s].job = j

(* A job that never stalled is active while a worker runs it, and no other *)
(* worker does: its row says what that one reported.                       *)
OneRunner ==
    \A s \in Slots : run[s].pc # "idle" /\ JobOf(s).stalls = 0 =>
        /\ JobOf(s).state = "active"
        /\ \A t \in Slots : Runs(t, run[s].job) => t = s
        /\ run[s].pc \in Reported => JobOf(s).row \in {"COMPLETED", "absent"}

\* Jobs that a step adds wait, or were not added to their queue.
NewJobsWait == \A j \in JobIds' \ JobIds : jobs'[j].stalls = 0 /\ jobs'[j].state # "completed"

\* A step in which a worker writes at most the row of its own job.
Reports(s, st) ==
    /\ \A j \in JobIds : j # run[s].job => jobs'[j] = jobs[j]
    /\ jobs'[run[s].job].row = st
    /\ jobs'[run[s].job].state = JobOf(s).state /\ jobs'[run[s].job].stalls = JobOf(s).stalls
    /\ NewJobsWait

\* A worker goes on with its job, ...
GoesOn(s) ==
    /\ run[s].pc # "idle" /\ run'[s].pc # "idle" /\ run'[s].job = run[s].job
    /\ \A t \in Slots : t # s => run'[t] = run[t]
    /\ \E st \in RowStatus :
           /\ Reports(s, st)
           /\ run'[s].pc \in Reported =>
                  st = "COMPLETED" \/ (run[s].pc \in Reported /\ st = JobOf(s).row)

\* ... ends its run, ...
EndsRun(s) ==
    /\ run[s].pc # "idle" /\ run'[s].pc = "idle"
    /\ \A t \in Slots : t # s => run'[t] = run[t]
    /\ \A j \in JobIds : j # run[s].job => jobs'[j] = jobs[j]
    /\ jobs'[run[s].job].stalls = JobOf(s).stalls
    /\ jobs'[run[s].job].state = "completed" =>
           \/ JobOf(s).state = "completed"
           \/ run[s].pc = "resolve" /\ jobs'[run[s].job].row = JobOf(s).row
    /\ NewJobsWait

\* ... or takes a job that waits.
TakesJob(s) ==
    /\ run[s].pc = "idle" /\ run'[s].pc = "start"
    /\ \A t \in Slots : t # s => run'[t] = run[t]
    /\ run'[s].job \in JobIds /\ jobs[run'[s].job].state = "waiting"
    /\ \A j \in JobIds : j # run'[s].job => jobs'[j] = jobs[j]
    /\ jobs'[run'[s].job].state = "active" /\ jobs'[run'[s].job].stalls = jobs[run'[s].job].stalls
    /\ NewJobsWait

\* Otherwise no worker moves but those that die, and rows go at most.
NoOneMoves ==
    /\ \A s \in Slots : run'[s] = run[s] \/ run'[s].pc = "idle"
    /\ \A j \in JobIds :
           /\ jobs'[j].row \in {jobs[j].row, "absent"}
           /\ jobs'[j].stalls = 0 => jobs[j].stalls = 0 /\ jobs'[j].state = jobs[j].state
           /\ jobs'[j].state = "completed" => jobs[j].state = "completed"
    /\ NewJobsWait

\* A jobs table of the same length adds no job.
LEMMA NoNewJobs ==
    ASSUME Len(jobs') = Len(jobs) PROVE NewJobsWait
BY DEF NewJobsWait, JobIds

\* Nothing is written.
LEMMA UnchangedReports ==
    ASSUME jobs \in Seq(Job), NEW s \in Slots, run[s].job \in JobIds, UNCHANGED jobs
    PROVE  JobOf(s).row \in RowStatus /\ Reports(s, JobOf(s).row)
<1>1. JobOf(s) \in Job
  BY JobsInSeq DEF JobOf, JobIds
<1> QED
  BY <1>1, NoNewJobs DEF Reports, JobOf, Job

\* One row is written.
LEMMA RowWritten ==
    ASSUME NEW js \in Seq(Job), NEW k \in 1 .. Len(js), NEW st \in RowStatus, NEW ks,
           ks = [js EXCEPT ![k].row = st]
    PROVE  /\ ks \in Seq(Job) /\ Len(ks) = Len(js)
           /\ \A j \in 1 .. Len(js) : j # k => ks[j] = js[j]
           /\ ks[k].row = st /\ ks[k].state = js[k].state /\ ks[k].stalls = js[k].stalls
<1> DEFINE v == [js[k] EXCEPT !.row = st]
<1>1. js[k] \in Job
  BY JobsInSeq
<1>2. v \in Job /\ v.row = st /\ v.state = js[k].state /\ v.stalls = js[k].stalls
  BY <1>1 DEF Job
<1>3. ks = [js EXCEPT ![k] = v]
  OBVIOUS
<1> HIDE DEF v
<1>4. /\ ks \in Seq(Job) /\ Len(ks) = Len(js)
      /\ \A i \in 1 .. Len(js) : ks[i] = IF i = k THEN v ELSE js[i]
  BY <1>2, <1>3, ExceptSeq
<1> QED
  BY <1>2, <1>4

\* One job is added.
LEMMA JobAppended ==
    ASSUME NEW js \in Seq(Job), NEW v \in Job, NEW ks, ks = Append(js, v)
    PROVE  /\ Len(ks) = Len(js) + 1 /\ ks[Len(js) + 1] = v
           /\ \A j \in 1 .. Len(js) : ks[j] = js[j]
BY AppendProperties, LenProperties

\* updateJobStatus on the row of the worker's job.
LEMMA SetRowReports ==
    ASSUME jobs \in Seq(Job), NEW s \in Slots, run[s].job \in JobIds, NEW st \in RowStatus,
           SetRow(s, st)
    PROVE  Reports(s, st)
BY RowWritten, NoNewJobs DEF SetRow, Reports, JobOf, JobIds

\* The same, and a follow-up job.
LEMMA FollowUpReports ==
    ASSUME jobs \in Seq(Job), NEW s \in Slots, run[s].job \in JobIds, NEW st \in RowStatus,
           NEW new \in Job, new.stalls = 0, new.state # "completed",
           jobs' = Append([jobs EXCEPT ![run[s].job].row = st], new)
    PROVE  Reports(s, st)
<1>1. PICK js : js = [jobs EXCEPT ![run[s].job].row = st]
  OBVIOUS
<1>2. /\ js \in Seq(Job) /\ Len(js) = Len(jobs)
      /\ \A j \in 1 .. Len(jobs) : j # run[s].job => js[j] = jobs[j]
      /\ js[run[s].job].row = st /\ js[run[s].job].state = JobOf(s).state
      /\ js[run[s].job].stalls = JobOf(s).stalls
  BY <1>1, RowWritten DEF JobOf, JobIds
<1>3. /\ Len(jobs') = Len(jobs) + 1 /\ jobs'[Len(jobs) + 1] = new
      /\ \A j \in 1 .. Len(jobs) : jobs'[j] = js[j]
  <2>1. jobs' = Append(js, new)
    BY <1>1
  <2>2. PICK ks : ks = Append(js, new)
    OBVIOUS
  <2>3. Len(ks) = Len(js) + 1 /\ ks[Len(js) + 1] = new /\ \A j \in 1 .. Len(js) : ks[j] = js[j]
    BY ONLY <1>2, <2>2, new \in Job, JobAppended
  <2> QED
    BY ONLY <1>2, <2>1, <2>2, <2>3
<1>4. Len(jobs) \in Nat
  BY LenProperties
<1>5. NewJobsWait
  BY <1>3, <1>4 DEF NewJobsWait, JobIds
<1> QED
  BY <1>2, <1>3, <1>5 DEF Reports, JobIds, JobOf

\* A worker that moves to another place with its job goes on.
LEMMA MovesOn ==
    ASSUME run \in [Slots -> Run], NEW s \in Slots, run[s].pc # "idle",
           NEW r, r.job = run[s].job, r.pc # "idle", run' = [run EXCEPT ![s] = r],
           NEW st \in RowStatus, Reports(s, st),
           r.pc \in Reported => st = "COMPLETED" \/ (run[s].pc \in Reported /\ st = JobOf(s).row)
    PROVE  GoesOn(s)
<1>1. run'[s] = r /\ \A t \in Slots : t # s => run'[t] = run[t]
  OBVIOUS
<1> QED
  BY <1>1 DEF GoesOn

\* The same, of a Goto.
LEMMA GotoOn ==
    ASSUME run \in [Slots -> Run], NEW s \in Slots, run[s].pc # "idle", NEW pc, pc # "idle", Goto(s, pc),
           NEW st \in RowStatus, Reports(s, st),
           pc \in Reported => st = "COMPLETED" \/ (run[s].pc \in Reported /\ st = JobOf(s).row)
    PROVE  GoesOn(s)
<1>1. PICK r : r = [run[s] EXCEPT !.pc = pc]
  OBVIOUS
<1>2. run[s] \in Run /\ run' = [run EXCEPT ![s] = r]
  BY <1>1 DEF Goto
<1>3. r.job = run[s].job /\ r.pc = pc
  BY <1>1, <1>2 DEF Run
<1> QED
  BY <1>2, <1>3, MovesOn

\* What a worker needs for a step: a place to be, and a job.
AtWork(s) == jobs \in Seq(Job) /\ run \in [Slots -> Run] /\ run[s].pc # "idle" /\ run[s].job \in JobIds

\* An await that throws.
LEMMA ThrowsOn ==
    ASSUME NEW s \in Slots, AtWork(s), Throws(s), UNCHANGED jobs PROVE GoesOn(s)
BY UnchangedReports, GotoOn DEF AtWork, Throws, Reported

\* A step that leaves the jobs alone.
LEMMA QuietOn ==
    ASSUME NEW s \in Slots, AtWork(s), NEW pc, pc # "idle", Goto(s, pc), UNCHANGED jobs,
           pc \in Reported => run[s].pc \in Reported
    PROVE  GoesOn(s)
BY UnchangedReports, GotoOn DEF AtWork

\* Progress and completion.
LEMMA ProgressOn ==
    ASSUME NEW s \in Slots, AtWork(s), NEW pc, pc # "idle",
           (Progress(s, pc) /\ pc \notin Reported) \/ Complete(s, pc)
    PROVE  GoesOn(s)
<1>1. CASE ~RowExists(s)
  BY <1>1, ThrowsOn DEF Progress, Complete
<1>2. CASE RowExists(s) /\ Progress(s, pc) /\ pc \notin Reported
  BY <1>2, SetRowReports, GotoOn DEF Progress, AtWork, RowStatus
<1>3. CASE RowExists(s) /\ Complete(s, pc)
  BY <1>3, SetRowReports, GotoOn DEF Complete, AtWork, RowStatus
<1> QED
  BY <1>1, <1>2, <1>3

\* A new job is one that waits.
LEMMA NewJobWaits ==
    ASSUME NEW q \in Queues, NEW f \in Files, NEW cs \in SUBSET ChunkIds, NEW st \in {"unqueued", "waiting"}
    PROVE  /\ NewJob(q, f, cs, st) \in Job /\ NewJob(q, f, cs, st).queue = q
           /\ NewJob(q, f, cs, st).stalls = 0 /\ NewJob(q, f, cs, st).state = st
           /\ NewJob(q, f, cs, st).file = f /\ NewJob(q, f, cs, st).chunks = cs
BY DEF NewJob, Job, RowStatus, QueueState

\* The job a worker runs names a file.
LEMMA FileOfJob ==
    ASSUME NEW s \in Slots, AtWork(s) PROVE JobOf(s).file \in Files /\ JobOf(s) \in Job
BY JobsInSeq DEF AtWork, JobOf, JobIds, Job

\* A follow-up job, queued or not.
LEMMA CreateOn ==
    ASSUME NEW s \in Slots, AtWork(s), NEW pc, pc # "idle", pc \notin Reported,
           NEW q \in Queues, NEW cs \in SUBSET ChunkIds,
           \/ CreateJob(s, q, cs, pc)
           \/ /\ jobs' = Append([jobs EXCEPT ![run[s].job].row = "PROCESSING"],
                                NewJob(q, JobOf(s).file, cs, "unqueued"))
              /\ Goto(s, pc)
    PROVE  GoesOn(s)
<1>1. CASE CreateJob(s, q, cs, pc) /\ ~RowExists(s)
  BY <1>1, ThrowsOn DEF CreateJob
<1>2. ASSUME NEW st \in {"unqueued", "waiting"},
             jobs' = Append([jobs EXCEPT ![run[s].job].row = "PROCESSING"],
                            NewJob(q, JobOf(s).file, cs, st)),
             Goto(s, pc)
      PROVE  GoesOn(s)
  <2>1. PICK new : new = NewJob(q, JobOf(s).file, cs, st)
    OBVIOUS
  <2>2. new \in Job /\ new.stalls = 0 /\ new.state # "completed"
    BY <2>1, NewJobWaits, FileOfJob
  <2>3. Reports(s, "PROCESSING")
    BY <1>2, <2>1, <2>2, FollowUpReports DEF AtWork, RowStatus
  <2> QED
    BY <1>2, <2>3, GotoOn DEF AtWork, RowStatus
<1> QED
  BY <1>1, <1>2 DEF CreateJob

\* Every step of the parsing processor.
LEMMA ParsingOn ==
    ASSUME NEW s \in Slots, AtWork(s), ParsingStep(s) PROVE GoesOn(s)
<1> USE DEF Reported
<1>1. CASE ParseStart(s)
  BY <1>1, ProgressOn DEF ParseStart
<1>2. CASE ParseText(s)
  <2>1. CASE Throws(s) /\ UNCHANGED jobs
    BY <2>1, ThrowsOn
  <2>2. CASE Progress(s, "complete")
    BY <2>2, ProgressOn
  <2>3. CASE CreateJob(s, "chunking", {}, "complete")
    <3>1. {} \in SUBSET ChunkIds /\ "chunking" \in Queues
      BY DEF Queues
    <3> QED
      BY <2>3, <3>1, CreateOn
  <2> QED
    BY <1>2, <2>1, <2>2, <2>3 DEF ParseText
<1>3. CASE ParseComplete(s)
  BY <1>3, ProgressOn DEF ParseComplete
<1>4. CASE ParseSave(s) \/ ParseEvaluate(s)
  BY <1>4, ThrowsOn, QuietOn DEF ParseSave, ParseEvaluate, At
<1>5. CASE ParseReady(s) \/ ParsePublish(s)
  <2>1. ASSUME NEW pc \in {"publish", "evaluate"}, NEW fs, KeepFiles(s, pc, fs) PROVE GoesOn(s)
    <3>1. PICK r : r = [run[s] EXCEPT !.pc = pc, !.files = fs]
      OBVIOUS
    <3>2. run[s] \in Run /\ run' = [run EXCEPT ![s] = r]
      BY <2>1, <3>1 DEF KeepFiles, AtWork
    <3>3. r.job = run[s].job /\ r.pc = pc
      BY <3>1, <3>2 DEF Run
    <3>4. UNCHANGED jobs /\ run[s].pc \in Reported
      BY <1>5 DEF ParseReady, ParsePublish, At
    <3> QED
      BY <3>2, <3>3, <3>4, UnchangedReports, MovesOn DEF AtWork
  <2> QED
    BY <1>5, <2>1, ThrowsOn, QuietOn DEF ParseReady, ParsePublish, LoadFiles, At
<1> QED
  BY <1>1, <1>2, <1>3, <1>4, <1>5 DEF ParsingStep

\* Every step of the two indexing processors.
LEMMA IndexingOn ==
    ASSUME NEW s \in Slots, AtWork(s), txns \in Seq(Txn), ChunkingStep(s) \/ EmbeddingsStep(s) PROVE GoesOn(s)
<1> USE DEF Reported
<1>1. ASSUME NEW pc \in {"create", "catch", "complete", "embed"}, NEW cs, NEW st \in RowStatus, Reports(s, st),
             run' = [run EXCEPT ![s].pc = pc, ![s].held = cs]
      PROVE  GoesOn(s)
  <2>1. PICK r : r = [run[s] EXCEPT !.pc = pc, !.held = cs]
    OBVIOUS
  <2>2. run[s] \in Run /\ run' = [run EXCEPT ![s] = r]
    BY <1>1, <2>1 DEF AtWork
  <2>3. r.job = run[s].job /\ r.pc = pc
    BY <2>1, <2>2 DEF Run
  <2> QED
    BY <1>1, <2>2, <2>3, MovesOn DEF AtWork
<1>2. CASE ChunkStart(s) \/ ChunkComplete(s) \/ EmbedComplete(s)
  BY <1>2, ProgressOn DEF ChunkStart, ChunkComplete, EmbedComplete
<1>3. CASE ChunkReplace(s)
  BY <1>1, <1>3, ThrowsOn, UnchangedReports DEF ChunkReplace, AtWork
<1>4. CASE ChunkCreate(s)
  <2>1. run[s].held \in SUBSET ChunkIds
    BY DEF AtWork, Run
  <2> QED
    BY <1>4, <2>1, CreateOn DEF ChunkCreate, Queues
<1>5. CASE EmbedFind(s)
  <2>1. CASE ~RowExists(s)
    BY <1>5, <2>1, ThrowsOn DEF EmbedFind
  <2>2. CASE RowExists(s)
    <3>1. Reports(s, "PROCESSING")
      BY <1>5, <2>2, SetRowReports DEF EmbedFind, AtWork, RowStatus
    <3>2. \E cs : \E pc \in {"create", "catch", "complete", "embed"} :
              run' = [run EXCEPT ![s].pc = pc, ![s].held = cs]
      BY <1>5, <2>2 DEF EmbedFind
    <3> QED
      BY <1>1, <3>1, <3>2 DEF RowStatus
  <2> QED
    BY <2>1, <2>2
<1>6. CASE EmbedBatch(s)
  <2>1. CASE ~RowExists(s) \/ doc = "absent"
    BY <1>6, <2>1, ThrowsOn DEF EmbedBatch
  <2>2. CASE ~(~RowExists(s) \/ doc = "absent")
    <3>1. Reports(s, "PROCESSING")
      BY <1>6, <2>2, SetRowReports DEF EmbedBatch, AtWork, RowStatus
    <3>2. \E cs : \E pc \in {"create", "catch", "complete", "embed"} :
              run' = [run EXCEPT ![s].pc = pc, ![s].held = cs]
      <4>1. PICK c \in run[s].held : run' = [run EXCEPT
                           ![s].pc = IF run[s].held = {c} THEN "complete" ELSE "embed",
                           ![s].held = run[s].held \ {c}]
        BY <1>6, <2>2 DEF EmbedBatch, AtWork
      <4> QED
        BY <4>1
    <3> QED
      BY <1>1, <3>1, <3>2 DEF RowStatus
  <2> QED
    BY <2>1, <2>2
<1>7. CASE EmbedInvalidate(s)
  BY <1>7, QuietOn DEF EmbedInvalidate, At
<1> QED
  BY <1>2, <1>3, <1>4, <1>5, <1>6, <1>7 DEF ChunkingStep, EmbeddingsStep

\* One job is replaced by another record.
LEMMA JobReplaced ==
    ASSUME NEW js \in Seq(Job), NEW k \in 1 .. Len(js), NEW v \in Job, NEW ks, ks = [js EXCEPT ![k] = v]
    PROVE  /\ ks \in Seq(Job) /\ Len(ks) = Len(js) /\ ks[k] = v
           /\ \A j \in 1 .. Len(js) : j # k => ks[j] = js[j]
BY ExceptSeq

\* moveToFailed: the job waits again or failed, and its row stays.
LEMMA RetryMoves ==
    ASSUME NEW js \in Seq(Job), NEW k \in 1 .. Len(js), NEW ks, ks = RetryOrFail(js, k)
    PROVE  /\ Len(ks) = Len(js)
           /\ \A j \in 1 .. Len(js) : j # k => ks[j] = js[j]
           /\ ks[k].state # "completed" /\ ks[k].stalls = js[k].stalls /\ ks[k].row = js[k].row
<1>1. PICK st : st = IF js[k].tries + 1 < Attempts[js[k].queue] THEN "waiting" ELSE "failed"
  OBVIOUS
<1>2. PICK v : v = [js[k] EXCEPT !.tries = js[k].tries + 1, !.state = st, !.owner = NoSlot]
  OBVIOUS
<1>3. js[k] \in Job /\ js[k].tries + 1 \in Nat
  <2>1. js[k] \in Job
    BY JobsInSeq
  <2> QED
    BY <2>1 DEF Job
<1>4. v \in Job /\ v.state = st /\ v.stalls = js[k].stalls /\ v.row = js[k].row
  <2>1. st \in QueueState
    BY <1>1 DEF QueueState
  <2> QED
    BY ONLY <1>2, <1>3, <2>1 DEF Job
<1>5. ks = [js EXCEPT ![k] = v]
  BY <1>1, <1>2 DEF RetryOrFail
<1>6. st # "completed"
  BY <1>1
<1> QED
  BY ONLY <1>4, <1>5, <1>6, js \in Seq(Job), k \in 1 .. Len(js), JobReplaced

\* process() ended, and the queue is told.
LEMMA ResolveEnds ==
    ASSUME NEW s \in Slots, AtWork(s), Resolve(s) \/ CatchError(s) \/ CatchThrows(s)
    PROVE  EndsRun(s)
<1>0. IdleRun.pc = "idle"
  BY DEF IdleRun
<1>1. /\ run'[s].pc = "idle" /\ \A t \in Slots : t # s => run'[t] = run[t]
  BY <1>0 DEF Resolve, CatchError, CatchThrows, Reject, AtWork
<1>2. CASE UNCHANGED jobs
  BY <1>1, <1>2, NoNewJobs DEF EndsRun, AtWork, JobOf
<1>3. CASE Resolve(s) /\ ~UNCHANGED jobs
  <2>1. PICK v : v = [JobOf(s) EXCEPT !.state = "completed", !.owner = NoSlot]
    OBVIOUS
  <2>2. v \in Job /\ v.stalls = JobOf(s).stalls /\ v.row = JobOf(s).row
    BY <2>1, FileOfJob DEF Job, QueueState
  <2>3. jobs' = [jobs EXCEPT ![run[s].job] = v]
    BY <1>3, <2>1 DEF Resolve, JobOf
  <2>4. /\ Len(jobs') = Len(jobs) /\ jobs'[run[s].job] = v
        /\ \A j \in JobIds : j # run[s].job => jobs'[j] = jobs[j]
    BY <2>2, <2>3, JobReplaced DEF AtWork, JobIds
  <2> QED
    BY <1>1, <1>3, <2>2, <2>4, NoNewJobs DEF EndsRun, AtWork, Resolve, At
<1>4. CASE CatchError(s) \/ CatchThrows(s)
  <2>1. PICK js : /\ js = jobs \/ js = [jobs EXCEPT ![run[s].job].row = "FAILED"]
                  /\ jobs' = js \/ jobs' = RetryOrFail(js, run[s].job)
    BY <1>4 DEF CatchError, CatchThrows, Reject
  <2>2. /\ js \in Seq(Job) /\ Len(js) = Len(jobs)
        /\ \A j \in JobIds : j # run[s].job => js[j] = jobs[j]
        /\ js[run[s].job].state = JobOf(s).state /\ js[run[s].job].stalls = JobOf(s).stalls
    <3>1. jobs \in Seq(Job) /\ run[s].job \in 1 .. Len(jobs) /\ "FAILED" \in RowStatus
      BY DEF AtWork, JobIds, RowStatus
    <3>2. CASE js = jobs
      BY <3>1, <3>2 DEF JobOf
    <3>3. CASE js = [jobs EXCEPT ![run[s].job].row = "FAILED"]
      BY ONLY <3>1, <3>3, RowWritten DEF JobOf, JobIds
    <3> QED
      BY <2>1, <3>2, <3>3
  <2>3. /\ Len(jobs') = Len(js)
        /\ \A j \in JobIds : j # run[s].job => jobs'[j] = js[j]
        /\ jobs'[run[s].job].stalls = js[run[s].job].stalls
        /\ jobs'[run[s].job].state = "completed" => js[run[s].job].state = "completed"
    BY <2>1, <2>2, RetryMoves DEF AtWork, JobIds
  <2> QED
    BY <1>1, <2>2, <2>3, NoNewJobs DEF EndsRun, AtWork
<1> QED
  BY <1>2, <1>3, <1>4

\* A worker takes a job.
LEMMA DeliverTakes ==
    ASSUME jobs \in Seq(Job), run \in [Slots -> Run], NEW s \in Slots, Deliver(s)
    PROVE  TakesJob(s)
<1>1. PICK j \in JobIds :
          /\ jobs[j].state = "waiting"
          /\ jobs' = [jobs EXCEPT ![j].state = "active", ![j].owner = s]
          /\ run' = [run EXCEPT ![s] = [IdleRun EXCEPT !.pc = "start", !.job = j]]
  BY DEF Deliver
<1>2. PICK v : v = [jobs[j] EXCEPT !.state = "active", !.owner = s]
  OBVIOUS
<1>3. v \in Job /\ v.state = "active" /\ v.stalls = jobs[j].stalls
  BY <1>2, JobsInSeq DEF Job, JobIds, QueueState
<1>4. /\ Len(jobs') = Len(jobs) /\ jobs'[j] = v /\ \A i \in JobIds : i # j => jobs'[i] = jobs[i]
  <2>1. jobs' = [jobs EXCEPT ![j] = v]
    BY <1>1, <1>2
  <2> QED
    BY <1>3, <2>1, JobReplaced DEF JobIds
<1>5. run'[s].pc = "start" /\ run'[s].job = j /\ \A t \in Slots : t # s => run'[t] = run[t]
  BY <1>1 DEF IdleRun
<1> QED
  BY <1>1, <1>3, <1>4, <1>5, NoNewJobs DEF TakesJob, Deliver, At

\* All jobs rewritten at once: none is new.
LEMMA SameJobs ==
    ASSUME jobs \in Seq(Job), WorkGoesOn, DOMAIN jobs' = JobIds PROVE JobIds' = JobIds
<1>1. jobs' \in Seq(Job)
  BY DEF WorkGoesOn, Evolves
<1>2. DOMAIN jobs' = 1 .. Len(jobs')
  BY <1>1, LenProperties
<1> QED
  BY <1>2 DEF JobIds

\* A stalled job, a lost lock, a crash.
LEMMA QueueRests ==
    ASSUME jobs \in Seq(Job), run \in [Slots -> Run], WorkGoesOn,
           (\E j \in JobIds : Stall(j) \/ LoseLock(j)) \/ \E p \in Procs : Crash(p)
    PROVE  NoOneMoves
<1>1. ASSUME NEW j \in JobIds, Stall(j) \/ LoseLock(j) PROVE NoOneMoves
  <2>1. PICK v : /\ jobs' = [jobs EXCEPT ![j] = v] /\ v \in Job /\ v.row = jobs[j].row
                 /\ v.stalls = 0 => v.stalls = jobs[j].stalls /\ v.state = jobs[j].state
                 /\ v.state = "completed" => jobs[j].state = "completed"
    <3>0. jobs[j] \in Job
      BY JobsInSeq DEF JobIds
    <3>1. CASE Stall(j)
      <4>1. PICK st \in {"failed", "waiting"} : jobs' = [jobs EXCEPT ![j].stalls = @ + 1, ![j].state = st]
        BY <3>1 DEF Stall
      <4>2. PICK n : n = jobs[j].stalls + 1
        OBVIOUS
      <4>3. n \in Nat /\ n # 0
        BY <3>0, <4>2 DEF Job
      <4>4. PICK v : v = [jobs[j] EXCEPT !.stalls = n, !.state = st]
        OBVIOUS
      <4>5. v \in Job /\ v.row = jobs[j].row /\ v.stalls = n /\ v.state = st
        BY ONLY <3>0, <4>1, <4>3, <4>4 DEF Job, QueueState
      <4>6. jobs' = [jobs EXCEPT ![j] = v]
        BY <4>1, <4>2, <4>4
      <4> QED
        BY <4>3, <4>5, <4>6
    <3>2. CASE LoseLock(j)
      <4>1. PICK v : v = [jobs[j] EXCEPT !.owner = NoSlot]
        OBVIOUS
      <4>2. v \in Job /\ v.row = jobs[j].row /\ v.stalls = jobs[j].stalls /\ v.state = jobs[j].state
        BY ONLY <3>0, <4>1 DEF Job
      <4> QED
        BY <3>2, <4>1, <4>2 DEF LoseLock
    <3> QED
      BY <1>1, <3>1, <3>2
  <2>2. /\ Len(jobs') = Len(jobs) /\ jobs'[j] = v /\ \A i \in JobIds : i # j => jobs'[i] = jobs[i]
    BY <2>1, JobReplaced DEF JobIds
  <2>3. run' = run
    BY <1>1 DEF Stall, LoseLock
  <2> QED
    BY <2>1, <2>2, <2>3, NoNewJobs DEF NoOneMoves
<1>2. ASSUME NEW p \in Procs, Crash(p) PROVE NoOneMoves
  <2>1. \A s \in Slots : run'[s] = run[s] \/ run'[s].pc = "idle"
    BY <1>2 DEF Crash, IdleRun
  <2>2. ASSUME NEW j \in JobIds
        PROVE  jobs'[j].row = jobs[j].row /\ jobs'[j].stalls = jobs[j].stalls /\ jobs'[j].state = jobs[j].state
    <3>1. jobs[j] \in Job
      BY JobsInSeq DEF JobIds
    <3>2. \E o : jobs'[j] = [jobs[j] EXCEPT !.owner = o]
      BY <1>2 DEF Crash
    <3> QED
      BY <3>1, <3>2 DEF Job
  <2>3. JobIds' = JobIds
    BY <1>2, SameJobs DEF Crash
  <2> QED
    BY <2>1, <2>2, <2>3 DEF NoOneMoves, NewJobsWait
<1> QED
  BY <1>1, <1>2

\* A fault of a worker.
LEMMA FaultsMove ==
    ASSUME NEW s \in Slots, jobs \in Seq(Job), run \in [Slots -> Run], RunJobs,
           StepThrows(s) \/ CatchThrows(s) \/ ParseAddThrows(s) \/ ChunkAddThrows(s) \/ ChunkTimeout(s)
    PROVE  GoesOn(s) \/ EndsRun(s)
<1>1. AtWork(s)
  <2>1. run[s].pc # "idle"
    BY DEF StepThrows, CatchThrows, ParseAddThrows, ChunkAddThrows, ChunkTimeout, At
  <2> QED
    BY <2>1 DEF AtWork, RunJobs, RunsKnownJob
<1>2. CASE StepThrows(s) \/ ChunkTimeout(s)
  BY <1>1, <1>2, ThrowsOn DEF StepThrows, ChunkTimeout
<1>3. CASE CatchThrows(s)
  BY <1>1, <1>3, ResolveEnds
<1>4. CASE ParseAddThrows(s) \/ ChunkAddThrows(s)
  <2>1. PICK q \in Queues : AddThrows(s, q)
    BY <1>4 DEF ParseAddThrows, ChunkAddThrows, Queues
  <2>2. run[s].held \in SUBSET ChunkIds
    BY DEF Run
  <2>3. /\ jobs' = Append([jobs EXCEPT ![run[s].job].row = "PROCESSING"],
                          NewJob(q, JobOf(s).file, run[s].held, "unqueued"))
        /\ Goto(s, "catch")
    BY <2>1 DEF AddThrows, Throws
  <2>4. "catch" # "idle" /\ "catch" \notin Reported
    BY DEF Reported
  <2> QED
    BY <1>1, <2>2, <2>3, <2>4, CreateOn
<1> QED
  BY <1>2, <1>3, <1>4

\* A client's job is added, ...
LEMMA AddedRests ==
    ASSUME jobs \in Seq(Job), run' = run, NEW q \in Queues, NEW f \in Files,
           NEW st \in {"unqueued", "waiting"}, jobs' = Append(jobs, NewJob(q, f, {}, st))
    PROVE  NoOneMoves
<1>1. PICK new : new = NewJob(q, f, {}, st)
  OBVIOUS
<1>2. new \in Job /\ new.stalls = 0 /\ new.state # "completed"
  BY <1>1, NewJobWaits
<1>3. /\ Len(jobs') = Len(jobs) + 1 /\ jobs'[Len(jobs) + 1] = new
      /\ \A j \in 1 .. Len(jobs) : jobs'[j] = jobs[j]
  <2>1. jobs' = Append(jobs, new)
    BY <1>1
  <2> QED
    BY ONLY <1>2, <2>1, jobs \in Seq(Job), JobAppended
<1>4. Len(jobs) \in Nat
  BY LenProperties
<1> QED
  BY <1>2, <1>3, <1>4 DEF NoOneMoves, NewJobsWait, JobIds

\* ... or rows are deleted, ...
LEMMA DeletedRests ==
    ASSUME jobs \in Seq(Job), run' = run, JobIds' = JobIds,
           \A j \in JobIds : jobs'[j] = jobs[j] \/ jobs'[j] = [jobs[j] EXCEPT !.row = "absent"]
    PROVE  NoOneMoves
<1>1. ASSUME NEW j \in JobIds
      PROVE  /\ jobs'[j].row \in {jobs[j].row, "absent"}
             /\ jobs'[j].stalls = jobs[j].stalls /\ jobs'[j].state = jobs[j].state
  <2>1. jobs[j] \in Job
    BY JobsInSeq DEF JobIds
  <2>2. jobs'[j] = jobs[j] \/ jobs'[j] = [jobs[j] EXCEPT !.row = "absent"]
    OBVIOUS
  <2> QED
    BY ONLY <2>1, <2>2 DEF Job
<1> QED
  BY <1>1 DEF NoOneMoves, NewJobsWait

\* ... or nothing happens to jobs.
LEMMA SameRests ==
    ASSUME run' = run, jobs' = jobs PROVE NoOneMoves
BY DEF NoOneMoves, NewJobsWait, JobIds

\* Steps of clients.
LEMMA ClientRests ==
    ASSUME TypeOK, WorkGoesOn, ClientNext \/ ClientStops
    PROVE  NoOneMoves
<1> USE DEF TypeOK, ClientTypeOK
<1>0. run' = run
  BY ClientTypes DEF DbRest
<1>1. ASSUME NEW f \in Files, UploadFile(f) \/ UploadStops(f) PROVE NoOneMoves
  <2>1. jobs' = jobs \/ \E st \in {"unqueued", "waiting"} : jobs' = Append(jobs, NewJob("parsing", f, {}, st))
    BY <1>1 DEF UploadFile, UploadBlob, UploadSaveFile, UploadSaveJob, UploadStops
  <2> QED
    BY <1>0, <2>1, AddedRests, SameRests DEF Queues
<1>2. ASSUME NEW f \in Files, DeleteFile(f) \/ DeleteFileStops(f) PROVE NoOneMoves
  <2>1. CASE DeleteFileJobs(f)
    <3>1. \A j \in JobIds : jobs'[j] = jobs[j] \/ jobs'[j] = [jobs[j] EXCEPT !.row = "absent"]
      BY <2>1 DEF DeleteFileJobs
    <3>2. DOMAIN jobs' = JobIds
      BY <2>1 DEF DeleteFileJobs
    <3> QED
      BY <1>0, <3>1, <3>2, SameJobs, DeletedRests
  <2> QED
    BY <1>0, <1>2, <2>1, SameRests DEF DeleteFile, DeleteFileBlob, DeleteFileRow, DeleteFileStops
<1>3. ASSUME ReindexChunks \/ ReindexStops PROVE NoOneMoves
  <2>1. reindex.todo \subseteq Files
    BY DEF Reindex
  <2>2. \/ jobs' = jobs
        \/ \E f \in Files, st \in {"unqueued", "waiting"} :
               jobs' = Append(jobs, NewJob("chunking", f, {}, st))
    BY <1>3, <2>1 DEF ReindexChunks, ReindexLoad, ReindexDelete, ReindexCreate, ReindexReturn, ReindexStops
  <2> QED
    BY <1>0, <2>2, AddedRests, SameRests DEF Queues
<1>4. ASSUME DeleteDocument \/ RemovalStops PROVE NoOneMoves
  <2>1. CASE RemovalRow
    <3>1. \A j \in JobIds : jobs'[j] = jobs[j] \/ jobs'[j] = [jobs[j] EXCEPT !.row = "absent"]
      BY <2>1 DEF RemovalRow
    <3>2. DOMAIN jobs' = JobIds
      BY <2>1 DEF RemovalRow
    <3> QED
      BY <1>0, <3>1, <3>2, SameJobs, DeletedRests
  <2> QED
    BY <1>0, <1>4, <2>1, SameRests DEF DeleteDocument, RemovalLoad, RemovalChunks, RemovalBlobs, RemovalStops
<1> QED
  BY <1>1, <1>2, <1>3, <1>4 DEF ClientNext, ClientStops

\* Whatever step the pipeline takes, it is one of the four.
LEMMA NextWorks ==
    ASSUME TypeOK, RunJobs, [Next]_vars
    PROVE  NoOneMoves \/ \E s \in Slots : GoesOn(s) \/ EndsRun(s) \/ TakesJob(s)
<1> USE DEF TypeOK
<1>0. WorkGoesOn
  BY NextGoesOn
<1>1. ASSUME NEW s \in Slots, WorkerStep(s) PROVE GoesOn(s) \/ EndsRun(s) \/ TakesJob(s)
  <2>1. CASE Deliver(s)
    BY <2>1, DeliverTakes
  <2>2. CASE ~Deliver(s)
    <3>1. run[s].pc # "idle"
      BY <1>1, <2>2 DEF WorkerStep, ParsingStep, ParseStart, ParseText, ParseComplete, ParseSave, ParseReady,
         ParsePublish, ParseEvaluate, ChunkingStep, ChunkStart, ChunkReplace, ChunkCreate, ChunkComplete,
         EmbeddingsStep, EmbedFind, EmbedBatch, EmbedComplete, EmbedInvalidate, CatchError, Resolve, At
    <3>2. AtWork(s)
      BY <3>1 DEF AtWork, RunJobs, RunsKnownJob
    <3> QED
      BY <1>1, <2>2, <3>2, ParsingOn, IndexingOn, ResolveEnds DEF WorkerStep
  <2> QED
    BY <2>1, <2>2
<1>2. CASE \E t \in lateTx : LateCommit(t)
  BY <1>2, SameRests DEF LateCommit
<1>3. CASE UNCHANGED vars
  BY <1>3, SameRests DEF vars, shared
<1>4. CASE Faulty \/ \E j \in JobIds : Stall(j)
  BY <1>0, <1>4, FaultsMove, QueueRests DEF Faulty
<1> QED
  BY <1>0, <1>1, <1>2, <1>3, <1>4, ClientRests DEF Next, WorkerNext

\* No step gives a running job a second runner, or a row that its runner did not write.
LEMMA OneRunnerNext ==
    ASSUME TypeOK, RunJobs, OneRunner, RowAgreesWithQueue, [Next]_vars
    PROVE  OneRunner' /\ RowAgreesWithQueue'
<1>0. RunJobs' /\ (NoOneMoves \/ \E s \in Slots : GoesOn(s) \/ EndsRun(s) \/ TakesJob(s))
  BY NextWorks, TypeNext
<1>a. \A s \in Slots : run[s].pc # "idle" => run[s].job \in JobIds
  BY DEF RunJobs, RunsKnownJob
<1>b. \A j \in JobIds' : j \in JobIds \/ jobs'[j].state # "completed"
  BY <1>0 DEF NoOneMoves, GoesOn, Reports, EndsRun, TakesJob, NewJobsWait
<1>1. CASE NoOneMoves
  <2>1. OneRunner'
    BY <1>a, <1>1 DEF OneRunner, NoOneMoves, Runs, JobOf
  <2>2. RowAgreesWithQueue'
    BY <1>b, <1>1 DEF RowAgreesWithQueue, NoOneMoves
  <2> QED
    BY <2>1, <2>2
<1>2. ASSUME NEW s \in Slots, GoesOn(s) PROVE OneRunner' /\ RowAgreesWithQueue'
  <2>1. OneRunner'
    BY <1>a, <1>2 DEF OneRunner, GoesOn, Reports, Runs, JobOf
  <2>2. RowAgreesWithQueue'
    BY <1>b, <1>2 DEF RowAgreesWithQueue, OneRunner, GoesOn, Reports, JobOf
  <2> QED
    BY <2>1, <2>2
<1>3. ASSUME NEW s \in Slots, EndsRun(s) PROVE OneRunner' /\ RowAgreesWithQueue'
  <2>1. OneRunner'
    BY <1>a, <1>3 DEF OneRunner, EndsRun, Runs, JobOf
  <2>2. RowAgreesWithQueue'
    BY <1>b, <1>3 DEF RowAgreesWithQueue, OneRunner, EndsRun, JobOf, Reported
  <2> QED
    BY <2>1, <2>2
<1>4. ASSUME NEW s \in Slots, TakesJob(s) PROVE OneRunner' /\ RowAgreesWithQueue'
  <2>1. OneRunner'
    BY <1>a, <1>4 DEF OneRunner, TakesJob, Runs, JobOf, Reported
  <2>2. RowAgreesWithQueue'
    BY <1>b, <1>4 DEF RowAgreesWithQueue, TakesJob
  <2> QED
    BY <2>1, <2>2
<1> QED
  BY <1>0, <1>1, <1>2, <1>3, <1>4

(* What the client reads agrees with what the queue did (RowAgreesWithQueue)*)
(* for every instance, because a job that never stalled has one runner, and *)
(* that one reported it COMPLETED before it resolved.                      *)
THEOREM RowsAgree == Spec => []RowAgreesWithQueue
<1>1. Init => OneRunner /\ RowAgreesWithQueue
  BY DEF Init, OneRunner, RowAgreesWithQueue, IdleRun, JobIds
<1> QED
  BY <1>1, TypeInit, TypeNext, OneRunnerNext, PTL DEF Spec

\* Of a job that a step leaves completed or never stalled, it was so, or its worker ends.
LEMMA JobsCome ==
    ASSUME TypeOK, RunJobs, [Next]_vars, NEW j \in JobIds'
    PROVE  /\ jobs'[j].stalls = 0 /\ j \in JobIds => jobs[j].stalls = 0
           /\ jobs'[j].state = "completed" =>
                  /\ j \in JobIds
                  /\ \/ jobs[j].state = "completed"
                     \/ \E s \in Slots : run[s].pc = "resolve" /\ run[s].job = j
<1>1. NoOneMoves \/ \E s \in Slots : GoesOn(s) \/ EndsRun(s) \/ TakesJob(s)
  BY NextWorks
<1>2. CASE NoOneMoves
  BY <1>2 DEF NoOneMoves, NewJobsWait
<1>3. ASSUME NEW s \in Slots, GoesOn(s) \/ EndsRun(s) \/ TakesJob(s)
      PROVE  /\ jobs'[j].stalls = 0 /\ j \in JobIds => jobs[j].stalls = 0
             /\ jobs'[j].state = "completed" =>
                  /\ j \in JobIds
                  /\ \/ jobs[j].state = "completed"
                     \/ run[s].pc = "resolve" /\ run[s].job = j
  BY <1>3 DEF GoesOn, Reports, EndsRun, TakesJob, NewJobsWait, JobOf
<1> QED
  BY <1>1, <1>2, <1>3

\* What a step keeps of a job, and of the job that a worker runs.
LEMMA JobsKept ==
    ASSUME TypeOK, WorkGoesOn, NEW j \in JobIds
    PROVE  j \in JobIds' /\ jobs'[j].queue = jobs[j].queue /\ jobs'[j].chunks = jobs[j].chunks
           /\ jobs'[j].file = jobs[j].file
<1>1. Len(jobs) \in Nat /\ Len(jobs') \in Nat
  BY LenProperties DEF TypeOK, WorkGoesOn, Evolves
<1> QED
  BY <1>1 DEF WorkGoesOn, Evolves, KeepsJob, JobIds

-----------------------------------------------------------------------------
(* When a document is published.                                           *)

\* Nobody published the document, deleted it or deleted a file of it.
Untouched == doc = "PROCESSING" /\ deletedFiles = {}

\* The places of a parsing worker that has saved its file AVAILABLE.
PastSave == {"ready", "publish", "evaluate", "resolve"}

\* A job of the parsing queue.
IsParsing(j) == jobs[j].queue = "parsing"

(* The file of a parsing worker behind its save, or of a parsing job that   *)
(* is done, is AVAILABLE.                                                   *)
SavedIsAvailable ==
    Untouched =>
        /\ \A s \in Slots : s[2] = "parsing" /\ run[s].pc \in PastSave => file[PFile(s)] = "AVAILABLE"
        /\ \A j \in JobIds : IsParsing(j) /\ jobs[j].state = "completed" => file[jobs[j].file] = "AVAILABLE"

(* Of the parsing jobs of a ready document one has its look at the files    *)
(* still before it.                                                        *)
WillPublish ==
    Untouched /\ FilesReady =>
        \E j \in JobIds : /\ IsParsing(j) /\ jobs[j].state # "completed"
                          /\ \A s \in Slots : Runs(s, j) => run[s].pc \notin {"evaluate", "resolve"}

\* deleteFile and uploadFile leave their marks.
DeletionMarks == \A f \in Files : deletion[f] # "no" => f \in deletedFiles
JobsAfterFiles == \A j \in JobIds : IsParsing(j) => upload[jobs[j].file] \notin {"none", "blob"}

-----------------------------------------------------------------------------
\* No parsing job is added.
NoParsingJob == \A j \in JobIds' \ JobIds : jobs'[j].queue # "parsing"

\* ... where the table keeps its length.
LEMMA SameDomain ==
    ASSUME jobs \in Seq(Job), WorkGoesOn, DOMAIN jobs' = DOMAIN jobs PROVE NoParsingJob
<1>1. DOMAIN jobs = JobIds
  BY LenProperties DEF JobIds
<1> QED
  BY <1>1, SameJobs DEF NoParsingJob

\* One job is added, perhaps after a row was written.
LEMMA AddedQueue ==
    ASSUME NEW js \in Seq(Job), Len(js) = Len(jobs), NEW q \in Queues, NEW f \in Files,
           NEW cs \in SUBSET ChunkIds, NEW st \in {"unqueued", "waiting"}, jobs' = Append(js, NewJob(q, f, cs, st))
    PROVE  \A j \in JobIds' \ JobIds : jobs'[j].queue = q /\ jobs'[j].file = f
<1>1. PICK new : new = NewJob(q, f, cs, st)
  OBVIOUS
<1>2. new \in Job /\ new.queue = q /\ new.file = f
  BY <1>1, NewJobWaits
<1>3. PICK ks : ks = Append(js, new)
  OBVIOUS
<1>4. Len(ks) = Len(js) + 1 /\ ks[Len(js) + 1] = new
  BY ONLY <1>2, <1>3, js \in Seq(Job), JobAppended
<1>5. jobs' = ks /\ Len(jobs) \in Nat
  BY <1>1, <1>3, LenProperties
<1> QED
  BY <1>2, <1>4, <1>5 DEF JobIds

\* A follow-up job is none.
LEMMA FollowUpQueue ==
    ASSUME NEW s \in Slots, AtWork(s), NEW q \in Queues, NEW cs \in SUBSET ChunkIds, q # "parsing",
           NEW st \in {"unqueued", "waiting"},
           jobs' = Append([jobs EXCEPT ![run[s].job].row = "PROCESSING"], NewJob(q, JobOf(s).file, cs, st))
    PROVE  NoParsingJob
<1>1. PICK js : js = [jobs EXCEPT ![run[s].job].row = "PROCESSING"]
  OBVIOUS
<1>2. js \in Seq(Job) /\ Len(js) = Len(jobs)
  <2>1. jobs \in Seq(Job) /\ run[s].job \in 1 .. Len(jobs) /\ "PROCESSING" \in RowStatus
    BY DEF AtWork, JobIds, RowStatus
  <2> QED
    BY ONLY <1>1, <2>1, RowWritten
<1>3. JobOf(s).file \in Files
  BY FileOfJob
<1> QED
  BY <1>1, <1>2, <1>3, AddedQueue DEF NoParsingJob

\* Workers and the queue add no parsing job.
LEMMA WorkersAdd ==
    ASSUME TypeOK, RunJobs, WorkGoesOn, WorkerNext
    PROVE  NoParsingJob
<1> USE DEF TypeOK
<1>a. ASSUME NEW s \in Slots, run[s].pc # "idle"
      PROVE  AtWork(s) /\ run[s].held \in SUBSET ChunkIds /\ {} \in SUBSET ChunkIds
  BY <1>a DEF AtWork, RunJobs, RunsKnownJob, Run
<1>b. "chunking" \in Queues /\ "embeddings" \in Queues
  BY DEF Queues
<1>1. ASSUME NEW s \in Slots, WorkerStep(s) PROVE NoParsingJob
  <2>1. CASE ParseText(s) /\ DOMAIN jobs' # DOMAIN jobs
    <3>1. jobs' = Append([jobs EXCEPT ![run[s].job].row = "PROCESSING"],
                         NewJob("chunking", JobOf(s).file, {}, "waiting"))
      BY <2>1 DEF ParseText, Progress, CreateJob, SetRow
    <3> QED
      BY <1>a, <1>b, <2>1, <3>1, FollowUpQueue DEF ParseText, At
  <2>2. CASE ChunkCreate(s) /\ DOMAIN jobs' # DOMAIN jobs
    <3>1. jobs' = Append([jobs EXCEPT ![run[s].job].row = "PROCESSING"],
                         NewJob("embeddings", JobOf(s).file, run[s].held, "waiting"))
      BY <2>2 DEF ChunkCreate, CreateJob
    <3> QED
      BY <1>a, <1>b, <2>2, <3>1, FollowUpQueue DEF ChunkCreate, At
  <2>3. CASE ~ParseText(s) /\ ~ChunkCreate(s)
    <3>1. DOMAIN jobs' = DOMAIN jobs
      BY <1>1, <2>3 DEF WorkerStep, ParsingStep, ParseStart, ParseComplete, ParseSave, ParseReady,
         ParsePublish, ParseEvaluate, ChunkingStep, ChunkStart, ChunkReplace, ChunkComplete, EmbeddingsStep,
         EmbedFind, EmbedBatch, EmbedComplete, EmbedInvalidate, CatchError, Reject, RetryOrFail, Deliver,
         Resolve, Progress, Complete, SetRow
    <3> QED
      BY <3>1, SameDomain
  <2> QED
    BY <2>1, <2>2, <2>3, SameDomain
<1>2. CASE \E t \in lateTx : LateCommit(t)
  BY <1>2, SameDomain DEF LateCommit
<1>3. CASE \E j \in JobIds : Stall(j) \/ LoseLock(j)
  BY <1>3, SameDomain DEF Stall, LoseLock
<1>4. ASSUME NEW s \in Slots, StepThrows(s) \/ CatchThrows(s) \/ ChunkTimeout(s) PROVE NoParsingJob
  BY <1>4, SameDomain DEF StepThrows, CatchThrows, Reject, RetryOrFail, ChunkTimeout
<1>5. ASSUME NEW s \in Slots, ParseAddThrows(s) PROVE NoParsingJob
  BY <1>5, <1>a, <1>b, FollowUpQueue DEF ParseAddThrows, AddThrows, At
<1>6. ASSUME NEW s \in Slots, ChunkAddThrows(s) PROVE NoParsingJob
  BY <1>6, <1>a, <1>b, FollowUpQueue DEF ChunkAddThrows, AddThrows, At
<1>7. CASE \E p \in Procs : Crash(p)
  <2>1. DOMAIN jobs' = JobIds
    BY <1>7 DEF Crash
  <2>2. DOMAIN jobs = JobIds
    BY LenProperties DEF JobIds
  <2> QED
    BY <2>1, <2>2, SameDomain
<1> QED
  BY <1>1, <1>2, <1>3, <1>4, <1>5, <1>6, <1>7 DEF WorkerNext, Faulty

\* A parsing job is added after its upload saved the row of the file.
LEMMA JobsAfterFilesNext ==
    ASSUME TypeOK, RunJobs, JobsAfterFiles, [Next]_vars
    PROVE  JobsAfterFiles'
<1> USE DEF TypeOK, ClientTypeOK
<1>0. WorkGoesOn
  BY NextGoesOn
<1>a. ASSUME \A f \in Files : upload[f] \notin {"none", "blob"} => upload'[f] \notin {"none", "blob"},
             \A j \in JobIds' \ JobIds : jobs'[j].queue = "parsing" => upload'[jobs'[j].file] \notin {"none", "blob"}
      PROVE  JobsAfterFiles'
  <2>1. ASSUME NEW j \in JobIds, jobs'[j].queue = "parsing" PROVE upload'[jobs'[j].file] \notin {"none", "blob"}
    <3>1. jobs[j].file \in Files
      BY JobsInSeq DEF JobIds, Job
    <3>2. jobs[j].queue = "parsing" /\ jobs'[j].file = jobs[j].file
      BY <1>0, <2>1, JobsKept
    <3> QED
      BY <1>a, <3>1, <3>2 DEF JobsAfterFiles, IsParsing
  <2> QED
    BY <1>a, <2>1 DEF JobsAfterFiles, IsParsing
<1>b. ASSUME UNCHANGED upload, NoParsingJob PROVE JobsAfterFiles'
  BY <1>a, <1>b DEF NoParsingJob
<1>1. CASE WorkerNext /\ UNCHANGED client
  BY <1>0, <1>1, <1>b, WorkersAdd DEF client
<1>2. CASE UNCHANGED vars
  BY <1>0, <1>2, <1>b, SameDomain DEF vars, shared, client
<1>3. ASSUME NEW f \in Files, UploadFile(f) \/ UploadStops(f) PROVE JobsAfterFiles'
  <2>1. \A g \in Files : upload[g] \notin {"none", "blob"} => upload'[g] \notin {"none", "blob"}
    BY <1>3 DEF UploadFile, UploadBlob, UploadSaveFile, UploadSaveJob, UploadStops, UploadAt
  <2>2. CASE UNCHANGED jobs
    BY <1>a, <2>1, <2>2 DEF JobIds
  <2>3. CASE ~UNCHANGED jobs
    <3>1. upload'[f] \in {"done", "stopped"}
      BY <1>3, <2>3 DEF UploadFile, UploadBlob, UploadSaveFile, UploadSaveJob, UploadStops, UploadAt
    <3>2. PICK st \in {"unqueued", "waiting"} : jobs' = Append(jobs, NewJob("parsing", f, {}, st))
      BY <1>3, <2>3 DEF UploadFile, UploadBlob, UploadSaveFile, UploadSaveJob, UploadStops
    <3>3. \A j \in JobIds' \ JobIds : jobs'[j].file = f
      BY <3>2, AddedQueue DEF Queues
    <3> QED
      BY <1>a, <2>1, <3>1, <3>3
  <2> QED
    BY <2>2, <2>3
<1>4. ASSUME NEW f \in Files, DeleteFile(f) \/ DeleteFileStops(f) PROVE JobsAfterFiles'
  <2>1. DOMAIN jobs = JobIds
    BY LenProperties DEF JobIds
  <2>2. UNCHANGED upload /\ DOMAIN jobs' = DOMAIN jobs
    BY <1>4, <2>1 DEF DeleteFile, DeleteFileBlob, DeleteFileJobs, DeleteFileRow, DeleteFileStops, DeleteAt
  <2> QED
    BY <1>0, <1>b, <2>2, SameDomain
<1>5. CASE ReindexChunks \/ ReindexStops
  <2>1. UNCHANGED upload
    BY <1>5 DEF ReindexChunks, ReindexLoad, ReindexDelete, ReindexCreate, ReindexReturn, ReindexStops, ReindexRest
  <2>2. reindex.todo \subseteq Files
    BY DEF Reindex
  <2>3. \/ jobs' = jobs
        \/ \E f \in Files, st \in {"unqueued", "waiting"} :
               jobs' = Append(jobs, NewJob("chunking", f, {}, st))
    BY <1>5, <2>2 DEF ReindexChunks, ReindexLoad, ReindexDelete, ReindexCreate, ReindexReturn, ReindexStops
  <2>4. CASE UNCHANGED jobs
    BY <1>0, <1>b, <2>1, <2>4, SameDomain
  <2>5. ASSUME NEW f \in Files, NEW st \in {"unqueued", "waiting"}, jobs' = Append(jobs, NewJob("chunking", f, {}, st))
        PROVE  NoParsingJob
    <3>1. "chunking" \in Queues /\ {} \in SUBSET ChunkIds
      BY DEF Queues
    <3>2. \A j \in JobIds' \ JobIds : jobs'[j].queue = "chunking"
      BY <2>5, <3>1, AddedQueue
    <3> QED
      BY <3>2 DEF NoParsingJob
  <2> QED
    BY <1>b, <2>1, <2>3, <2>4, <2>5
<1>6. CASE DeleteDocument \/ RemovalStops
  <2>1. DOMAIN jobs = JobIds
    BY LenProperties DEF JobIds
  <2>2. UNCHANGED upload /\ DOMAIN jobs' = DOMAIN jobs
    BY <1>6, <2>1 DEF DeleteDocument, RemovalLoad, RemovalChunks, RemovalBlobs, RemovalRow, RemovalStops, RemovalRest
  <2> QED
    BY <1>0, <1>b, <2>2, SameDomain
<1> QED
  BY <1>1, <1>2, <1>3, <1>4, <1>5, <1>6 DEF Next, ClientNext, ClientStops

\* A file that is being deleted is among the deleted files, and no file leaves them.
LEMMA DeletionMarksNext ==
    ASSUME TypeOK, DeletionMarks, [Next]_vars
    PROVE  DeletionMarks' /\ deletedFiles \subseteq deletedFiles'
<1> USE DEF TypeOK, ClientTypeOK
<1>1. CASE UNCHANGED <<deletion, deletedFiles>>
  BY <1>1 DEF DeletionMarks
<1>2. ASSUME NEW f \in Files, DeleteFile(f) \/ DeleteFileStops(f)
      PROVE  DeletionMarks' /\ deletedFiles \subseteq deletedFiles'
  BY <1>2 DEF DeletionMarks, DeleteFile, DeleteFileBlob, DeleteFileJobs, DeleteFileRow, DeleteFileStops, DeleteAt
<1>3. ASSUME NEW f \in Files, UploadFile(f) \/ UploadStops(f) PROVE UNCHANGED <<deletion, deletedFiles>>
  BY <1>3 DEF UploadFile, UploadBlob, UploadSaveFile, UploadSaveJob, UploadStops, UploadAt
<1>4. CASE ReindexChunks \/ ReindexStops \/ DeleteDocument \/ RemovalStops
  BY <1>1, <1>4 DEF ReindexChunks, ReindexLoad, ReindexDelete, ReindexCreate, ReindexReturn, ReindexStops, ReindexRest,
     DeleteDocument, RemovalLoad, RemovalChunks, RemovalBlobs, RemovalRow, RemovalStops, RemovalRest
<1> QED
  BY <1>1, <1>2, <1>3, <1>4 DEF Next, ClientNext, ClientStops, vars, client

\* The document does not become PROCESSING again.
LEMMA DocMoves ==
    ASSUME TypeOK, [Next]_vars, doc' = "PROCESSING" PROVE doc = "PROCESSING"
<1>1. CASE UNCHANGED doc
  BY <1>1
<1>2. ASSUME NEW s \in Slots, WorkerStep(s) PROVE doc' \in {doc, "AVAILABLE"}
  BY <1>2 DEF WorkerStep, ParsingStep, ParseStart, ParseText, ParseComplete, ParseSave, ParseReady,
     ParsePublish, ParseEvaluate, ChunkingStep, ChunkStart, ChunkReplace, ChunkCreate, ChunkComplete, ChunkingRest,
     EmbeddingsStep, EmbedFind, EmbedBatch, EmbedComplete, EmbedInvalidate, EmbeddingRest, CatchError, Reject,
     Deliver, Resolve
<1>3. ASSUME WorkerNext, \A s \in Slots : ~WorkerStep(s) PROVE UNCHANGED doc
  BY <1>3 DEF WorkerNext, Faulty, StepThrows, CatchThrows, ParseAddThrows, ChunkAddThrows, AddThrows,
              ChunkTimeout, ChunkingRest, Crash, LoseLock, Reject, Stall, LateCommit
<1>4. ASSUME ClientNext \/ ClientStops PROVE doc' \in {doc, "absent"}
  BY <1>4 DEF ClientNext, ClientStops, UploadFile, UploadBlob, UploadSaveFile, UploadSaveJob,
         UploadStops, DeleteFile, DeleteFileBlob, DeleteFileJobs, DeleteFileRow, DeleteFileStops,
         ReindexChunks, ReindexLoad, ReindexDelete, ReindexCreate, ReindexReturn, ReindexStops, ReindexRest,
         DeleteDocument, RemovalLoad, RemovalChunks, RemovalBlobs, RemovalRow, RemovalStops
<1> QED
  BY <1>1, <1>2, <1>3, <1>4 DEF Next, vars, shared

\* A worker saves its file AVAILABLE.
Saves(s, f) == ParseSave(s) /\ PFile(s) = f /\ file'[f] = "AVAILABLE"

(* What becomes of a file while nothing is deleted: it stays, is saved      *)
(* AVAILABLE, or is new.                                                    *)
LEMMA FilesStand ==
    ASSUME TypeOK, DeletionMarks, deletedFiles = {}, doc' # "absent", [Next]_vars, NEW f \in Files
    PROVE  \/ file'[f] = file[f]
           \/ \E s \in Slots : Saves(s, f)
           \/ upload[f] = "blob" /\ file'[f] = "PROCESSING"
<1> USE DEF TypeOK
<1>1. CASE file' = file
  BY <1>1
<1>2. ASSUME NEW s \in Slots, WorkerStep(s) PROVE file'[f] = file[f] \/ Saves(s, f)
  <2>1. CASE ParseSave(s)
    BY <2>1 DEF ParseSave, Saves
  <2>2. CASE ~ParseSave(s)
    BY <1>2, <2>2 DEF WorkerStep, ParsingStep, ParseStart, ParseText, ParseComplete, ParseReady,
         ParsePublish, ParseEvaluate, ChunkingStep, ChunkStart, ChunkReplace,
         ChunkCreate, ChunkComplete, ChunkingRest, EmbeddingsStep, EmbedFind, EmbedBatch, EmbedComplete, EmbedInvalidate,
         EmbeddingRest, CatchError, Reject, Deliver, Resolve
  <2> QED
    BY <2>1, <2>2
<1>3. ASSUME WorkerNext, \A s \in Slots : ~WorkerStep(s) PROVE file' = file
  BY <1>3 DEF WorkerNext, Faulty, StepThrows, CatchThrows, ParseAddThrows, ChunkAddThrows, AddThrows,
              ChunkTimeout, ChunkingRest, Crash, LoseLock, Reject, Stall, LateCommit
<1>4. ASSUME NEW g \in Files, UploadFile(g) \/ UploadStops(g)
      PROVE  file'[f] = file[f] \/ (upload[f] = "blob" /\ file'[f] = "PROCESSING")
  BY <1>4 DEF UploadFile, UploadBlob, UploadSaveFile, UploadSaveJob, UploadStops, UploadAt
<1>5. ASSUME NEW g \in Files, DeleteFile(g) \/ DeleteFileStops(g) PROVE file' = file
  <2>1. deletion[g] = "no"
    BY DEF DeletionMarks
  <2> QED
    BY <1>5, <2>1 DEF DeleteFile, DeleteFileBlob, DeleteFileJobs, DeleteFileRow, DeleteFileStops, DeleteAt
<1>6. CASE ReindexChunks \/ ReindexStops \/ DeleteDocument \/ RemovalStops
  BY <1>1, <1>6 DEF ReindexChunks, ReindexLoad, ReindexDelete, ReindexCreate, ReindexReturn, ReindexStops, ReindexRest,
     DeleteDocument, RemovalLoad, RemovalChunks, RemovalBlobs, RemovalRow, RemovalStops
<1> QED
  BY <1>1, <1>2, <1>3, <1>4, <1>5, <1>6 DEF Next, ClientNext, ClientStops, vars, shared

\* The document was untouched before it is.
LEMMA UntouchedBefore ==
    ASSUME TypeOK, DeletionMarks, [Next]_vars, Untouched' PROVE Untouched
BY DocMoves, DeletionMarksNext DEF Untouched

\* Of an untouched document, a file that has a parsing job stays AVAILABLE.
LEMMA StaysAvailable ==
    ASSUME TypeOK, DeletionMarks, JobsAfterFiles, [Next]_vars, Untouched',
           NEW j \in JobIds, IsParsing(j), file[jobs[j].file] = "AVAILABLE"
    PROVE  file'[jobs[j].file] = "AVAILABLE"
<1>1. jobs[j].file \in Files
  BY JobsInSeq DEF TypeOK, JobIds, Job
<1>2. upload[jobs[j].file] # "blob"
  BY DEF JobsAfterFiles
<1>3. deletedFiles = {} /\ doc' # "absent"
  BY UntouchedBefore DEF Untouched
<1> QED
  BY <1>1, <1>2, <1>3, FilesStand DEF Saves

\* How a parsing worker comes to a place behind its save.
LEMMA ParsingSlot ==
    ASSUME TypeOK, RunJobs, [Next]_vars, NEW s \in Slots, s[2] = "parsing", run'[s].pc \in PastSave
    PROVE  /\ run[s].pc # "idle" /\ run'[s].job = run[s].job
           /\ \/ run'[s] = run[s]
              \/ ParseSave(s) /\ run'[s].pc = "ready" /\ file'[PFile(s)] = "AVAILABLE"
              \/ ParseReady(s) /\ run'[s].pc = (IF doc # "absent" /\ FilesReady THEN "publish" ELSE "resolve")
              \/ ParsePublish(s) /\ run'[s].pc = "evaluate" /\ doc' = "AVAILABLE"
              \/ ParseEvaluate(s) /\ run'[s].pc = "resolve"
<1> USE DEF At, PastSave
<1>0. WorkGoesOn /\ SlotMoves(s) /\ run \in [Slots -> Run] /\ run[s] \in Run
      /\ file \in [Files -> {"absent", "PROCESSING", "AVAILABLE"}]
  BY NextGoesOn, NextMoves DEF TypeOK
<1>1. run'[s] = run[s] \/ ParsingStep(s)
  BY <1>0 DEF SlotMoves, ChunkingStep, ChunkStart, ChunkReplace, ChunkCreate, ChunkComplete,
     CSlot, EmbeddingsStep, EmbedFind, EmbedBatch, EmbedComplete, EmbedInvalidate, ESlot
<1>k. ASSUME NEW pc, NEW fs, KeepFiles(s, pc, fs) PROVE run'[s].pc = pc /\ run'[s].job = run[s].job
  <2>1. PICK r : r = [run[s] EXCEPT !.pc = pc, !.files = fs]
    OBVIOUS
  <2>2. run'[s] = r
    BY <1>0, <1>k, <2>1 DEF KeepFiles
  <2> QED
    BY <1>0, <2>1, <2>2 DEF Run
<1>2. CASE run'[s] = run[s]
  BY <1>2
<1>3. CASE ParseStart(s) \/ ParseText(s) \/ ParseComplete(s)
  BY <1>0, <1>3, GotoRun DEF ParseStart, ParseText, ParseComplete, Progress, Complete, CreateJob, Throws
<1>4. CASE ParseSave(s)
  <2>1. run'[s].pc = "ready" /\ run'[s].job = run[s].job /\ doc # "absent"
    BY <1>0, <1>4, GotoRun DEF ParseSave, Throws
  <2>2. run[s].job \in JobIds
    BY <1>4 DEF ParseSave, RunJobs, RunsKnownJob
  <2>3. PFile(s) \in Files
    BY <2>2, JobsInSeq DEF PFile, JobOf, JobIds, Job, TypeOK
  <2>4. file'[PFile(s)] = "AVAILABLE"
    BY <1>0, <1>4, <2>1, <2>3 DEF ParseSave
  <2> QED
    BY <1>4, <2>1, <2>4 DEF ParseSave
<1>5. CASE ParseReady(s)
  BY <1>0, <1>5, <1>k, GotoRun DEF ParseReady, LoadFiles
<1>6. CASE ParsePublish(s)
  BY <1>0, <1>6, <1>k, GotoRun DEF ParsePublish, Throws
<1>7. CASE ParseEvaluate(s)
  BY <1>0, <1>7, GotoRun DEF ParseEvaluate
<1> QED
  BY <1>1, <1>2, <1>3, <1>4, <1>5, <1>6, <1>7 DEF ParsingStep

\* Whoever is behind the save of a file, or done, left it AVAILABLE.
LEMMA SavedNext ==
    ASSUME TypeOK, RunJobs, DeletionMarks, JobsAfterFiles, SavedIsAvailable, [Next]_vars
    PROVE  SavedIsAvailable'
<1> SUFFICES ASSUME Untouched' PROVE SavedIsAvailable'
  BY DEF SavedIsAvailable
<1>0. Untouched /\ WorkGoesOn
  BY UntouchedBefore, NextGoesOn
<1>1. ASSUME NEW s \in Slots, s[2] = "parsing", run'[s].pc \in PastSave
      PROVE  file'[jobs'[run'[s].job].file] = "AVAILABLE"
  <2>1. /\ run[s].pc # "idle" /\ run'[s].job = run[s].job
        /\ \/ run[s].pc \in PastSave
           \/ file'[PFile(s)] = "AVAILABLE"
    BY <1>1, ParsingSlot DEF ParseReady, ParsePublish, ParseEvaluate, At, PastSave
  <2>2. run[s].job \in JobIds /\ jobs[run[s].job].queue = "parsing"
    BY <1>1, <2>1 DEF RunJobs, RunsKnownJob
  <2>3. jobs'[run'[s].job].file = PFile(s)
    BY <1>0, <2>1, <2>2, JobsKept DEF PFile, JobOf
  <2>4. CASE run[s].pc \in PastSave
    <3>1. file[PFile(s)] = "AVAILABLE"
      BY <1>0, <1>1, <2>4 DEF SavedIsAvailable
    <3> QED
      BY <2>2, <2>3, <3>1, StaysAvailable DEF PFile, JobOf, IsParsing
  <2> QED
    BY <2>1, <2>3, <2>4
<1>2. ASSUME NEW j \in JobIds', jobs'[j].queue = "parsing", jobs'[j].state = "completed"
      PROVE  file'[jobs'[j].file] = "AVAILABLE"
  <2>1. j \in JobIds /\ (jobs[j].state = "completed" \/ \E s \in Slots : run[s].pc = "resolve" /\ run[s].job = j)
    BY <1>2, JobsCome
  <2>2. jobs[j].queue = "parsing" /\ jobs'[j].file = jobs[j].file
    BY <1>0, <1>2, <2>1, JobsKept
  <2>3. file[jobs[j].file] = "AVAILABLE"
    BY <1>0, <2>1, <2>2 DEF SavedIsAvailable, IsParsing, RunJobs, RunsKnownJob, PastSave, PFile, JobOf
  <2> QED
    BY <2>1, <2>2, <2>3, StaysAvailable DEF IsParsing
<1> QED
  BY <1>1, <1>2 DEF SavedIsAvailable, PFile, JobOf, IsParsing

\* Some job publishes.
LEMMA WillPublishNext ==
    ASSUME TypeOK, RunJobs, DeletionMarks, JobsAfterFiles, SavedIsAvailable, WillPublish, [Next]_vars
    PROVE  WillPublish'
<1> SUFFICES ASSUME Untouched', FilesReady'
             PROVE  \E j \in JobIds' : /\ jobs'[j].queue = "parsing" /\ jobs'[j].state # "completed"
                                       /\ \A s \in Slots : run'[s].pc # "idle" /\ run'[s].job = j =>
                                              run'[s].pc \notin {"evaluate", "resolve"}
  BY DEF WillPublish, IsParsing, Runs
<1>0. Untouched /\ WorkGoesOn /\ RunJobs' /\ doc' = "PROCESSING"
  BY UntouchedBefore, NextGoesOn, TypeNext DEF Untouched
<1>1. CASE FilesReady
  <2>1. PICK j \in JobIds : /\ IsParsing(j) /\ jobs[j].state # "completed"
                            /\ \A s \in Slots : Runs(s, j) => run[s].pc \notin {"evaluate", "resolve"}
    BY <1>0, <1>1 DEF WillPublish
  <2>2. j \in JobIds' /\ jobs'[j].queue = "parsing"
    BY <1>0, <2>1, JobsKept DEF IsParsing
  <2>3. jobs'[j].state # "completed"
    BY <2>1, <2>2, JobsCome DEF Runs
  <2>4. ASSUME NEW s \in Slots, run'[s].job = j, run'[s].pc \in {"evaluate", "resolve"} PROVE FALSE
    <3>1. s[2] = "parsing"
      BY <1>0, <2>2, <2>4 DEF RunJobs, RunsKnownJob
    <3>2. run[s].pc # "idle" /\ run'[s].job = run[s].job /\ run'[s].pc \in PastSave
      BY <2>4, <3>1, ParsingSlot DEF PastSave
    <3>3. run[s].pc \notin {"evaluate", "resolve"}
      BY <2>1, <2>4, <3>2 DEF Runs
    <3> QED
      BY <1>0, <1>1, <2>4, <3>1, <3>2, <3>3, ParsingSlot DEF Untouched, ParseSave, ParseEvaluate, At
  <2> QED
    BY <2>2, <2>3, <2>4
<1>2. CASE ~FilesReady
  <2>1. PICK f \in Files : file'[f] # file[f]
    BY <1>2 DEF FilesReady, Present
  <2>2. file'[f] \in {"absent", "AVAILABLE"}
    BY DEF FilesReady, Present
  <2>3. PICK s \in Slots : Saves(s, f)
    BY <1>0, <2>1, <2>2, FilesStand DEF Untouched
  <2> DEFINE j == run[s].job
  <2>4. j \in JobIds /\ jobs[j].queue = "parsing" /\ jobs[j].file = f /\ jobs' = jobs /\ file[f] # "AVAILABLE"
    BY <2>1, <2>3 DEF Saves, ParseSave, PSlot, PFile, JobOf, At, RunJobs, RunsKnownJob
  <2>5. jobs[j].state # "completed"
    BY <1>0, <2>4 DEF SavedIsAvailable, IsParsing
  <2>6. ASSUME NEW t \in Slots, run'[t].job = j, run'[t].pc \in {"evaluate", "resolve"} PROVE FALSE
    <3>1. t[2] = "parsing"
      BY <1>0, <2>4, <2>6 DEF RunJobs, RunsKnownJob, JobIds
    <3>2. CASE t = s
      <4>1. \E pc \in {"ready", "catch"} : Goto(s, pc)
        BY <2>3 DEF Saves, ParseSave, Throws
      <4> QED
        BY <2>6, <3>2, <4>1, GotoRun DEF TypeOK
    <3>3. CASE t # s
      <4>1. run'[t] = run[t]
        BY <2>3, <3>3 DEF Saves, ParseSave, Throws, Goto, TypeOK
      <4> QED
        BY <1>0, <2>4, <2>6, <3>1, <4>1 DEF SavedIsAvailable, PastSave, PFile, JobOf
    <3> QED
      BY <3>2, <3>3
  <2> QED
    BY <2>4, <2>5, <2>6 DEF JobIds
<1> QED
  BY <1>1, <1>2

(* No ready document is forgotten (ReadinessPublished), for any files,      *)
(* workers, retries and faults: the parsing job that made the last file     *)
(* AVAILABLE looks at the files after it did (parsing.processor.ts), so it  *)
(* publishes the document unless it is not done yet or failed.              *)
THEOREM ReadyIsPublished == Spec => []ReadinessPublished
<1> DEFINE Inv == DeletionMarks /\ JobsAfterFiles /\ SavedIsAvailable /\ WillPublish
<1>1. Init => Inv
  <2> SUFFICES ASSUME Init PROVE Inv
    OBVIOUS
  <2>1. JobIds = {} /\ (\A s \in Slots : run[s].pc = "idle") /\ Present = {} /\ \A f \in Files : deletion[f] = "no"
    BY DEF Init, ClientInit, JobIds, IdleRun, Present
  <2> QED
    BY <2>1 DEF DeletionMarks, JobsAfterFiles, SavedIsAvailable, WillPublish, FilesReady, PastSave
<1>2. TypeOK /\ RunJobs /\ Inv /\ [Next]_vars => Inv'
  BY DeletionMarksNext, JobsAfterFilesNext, SavedNext, WillPublishNext
<1>3. Inv => ReadinessPublished
  BY DEF WillPublish, ReadinessPublished, Untouched, IsParsing
<1> HIDE DEF Inv
<1> QED
  BY <1>1, <1>2, <1>3, TypeInit, TypeNext, PTL DEF Spec
=============================================================================
