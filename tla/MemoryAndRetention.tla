------------------------- MODULE MemoryAndRetention --------------------------
(***************************************************************************)
(* The memory of a thread: a summary of its exchanges that the summarize   *)
(* worker rewrites after every saved exchange, in any process, and that no *)
(* foreign key ties to the thread.  And the chat and memory phases of the  *)
(* daily purge, beside the chat requests and the worker it races.          *)
(***************************************************************************)
EXTENDS ChatThreads

CONSTANTS SummaryAttempts,  \* attempts of a summarize job (2 in queue.module)
          SummaryWorkers    \* processes that run the memory worker, one job each

ASSUME MemoryAssumption == SummaryAttempts \in Nat \ {0} /\ SummaryWorkers \in Nat

VARIABLES memory,  \* the memories row of each thread
          job,     \* the summarize job of each saved exchange
          age      \* of each exchange: 0 new, 1 past the accelerated cutoff, 2 past retention

NoMemory == [covers |-> {}, version |-> 0, old |-> FALSE]

NoJob == [st |-> "none", tries |-> 0, stalled |-> 0, read |-> {},
          insert |-> FALSE, version |-> 0, raced |-> FALSE]

DoneJob == [NoJob EXCEPT !.st = "done"]

\* The job is given back to the queue, or given up.
Return(t, again) ==
    [NoJob EXCEPT !.st = IF again THEN "queued" ELSE "failed",
                  !.tries = job[t].tries, !.stalled = job[t].stalled]

MemoryInit ==
    /\ memory = [th \in Threads |-> NoMemory]
    /\ job = [t \in Turns |-> NoJob]
    /\ age = [t \in Turns |-> 0]

Active(t) == job[t].st \in {"active", "completing", "saving"}
JobThread(t) == turn[t].thread

\* memoryQueue.add after a successful save; its failure is swallowed.
Enqueue(t) == \/ job' = [job EXCEPT ![t].st = "queued"]
              \/ UNCHANGED job

SaveExchange(t) ==
    /\ SaveMessage(t)
    /\ IF Live(JobThread(t)) THEN Enqueue(t) ELSE UNCHANGED job
    /\ UNCHANGED <<memory, age>>

-----------------------------------------------------------------------------
JobQuiet == UNCHANGED <<chatTables, turn, age>>
JobGo(t, st) == job' = [job EXCEPT ![t].st = st]

StartJob(t) ==
    /\ job[t].st = "queued"
    /\ Cardinality({s \in Turns : Active(s)}) < SummaryWorkers
    /\ JobGo(t, "active")
    /\ UNCHANGED memory /\ JobQuiet

\* process: no messages, no summary.
ReadThread(t) ==
    /\ job[t].st = "active"
    /\ LET said == Range(messages[JobThread(t)])
       IN job' = IF said = {} THEN [job EXCEPT ![t] = DoneJob]
                 ELSE [job EXCEPT ![t] = [@ EXCEPT !.st = "completing", !.read = said,
                                                  !.raced = FALSE]]
    /\ UNCHANGED memory /\ JobQuiet

\* provider.complete returns a summary of what was read, and upsert looks
\* for a memory of the scope ...
FindMemory(t) ==
    /\ job[t].st = "completing"
    /\ LET found == memory[JobThread(t)]
       IN job' = [job EXCEPT ![t] = [@ EXCEPT !.st = "saving", !.insert = (found = NoMemory),
                                                  !.version = found.version + 1]]
    /\ UNCHANGED memory /\ JobQuiet

\* process() threw: BullMQ runs the job again while attempts are left.
Retry(t) ==
    job' = [job EXCEPT ![t] =
        [Return(t, job[t].tries + 1 < SummaryAttempts) EXCEPT !.tries = @ + 1]]

\* ... then save: an insert that another job's insert has overtaken breaks
\* the unique index on the scope; an update overwrites whatever is there.
SaveMemory(t) ==
    LET th == JobThread(t)
        others == {s \in Turns \ {t} : JobThread(s) = th /\ job[s].st \in {"completing", "saving"}}
    IN /\ job[t].st = "saving"
       /\ IF job[t].insert /\ memory[th] # NoMemory
          THEN UNCHANGED memory /\ Retry(t)
          ELSE /\ memory' = [memory EXCEPT ![th] =
                    [covers |-> job[t].read, version |-> job[t].version, old |-> FALSE]]
               /\ job' = [s \in Turns |-> IF s = t THEN DoneJob
                                          ELSE IF s \in others THEN [job[s] EXCEPT !.raced = TRUE]
                                          ELSE job[s]]
       /\ JobQuiet

\* A memory is deleted: save() of a row loaded before inserts it again.
ForgetMemory(th) ==
    /\ memory' = [memory EXCEPT ![th] = NoMemory]
    /\ job' = [t \in Turns |-> IF job[t].st = "saving" /\ JobThread(t) = th
                               THEN [job[t] EXCEPT !.insert = TRUE] ELSE job[t]]

\* The LLM or the database throws.
JobThrows(t) ==
    /\ Active(t)
    /\ Retry(t)
    /\ UNCHANGED memory /\ JobQuiet

\* The process of an active job dies: the stalled check queues it once more.
JobStalls(t) ==
    /\ Active(t)
    /\ job' = [job EXCEPT ![t] = [Return(t, job[t].stalled < 1) EXCEPT !.stalled = @ + 1]]
    /\ UNCHANGED memory /\ JobQuiet

JobStep(t) ==
    StartJob(t) \/ ReadThread(t) \/ FindMemory(t) \/ SaveMemory(t)

-----------------------------------------------------------------------------
CONSTANT ChatFaults   \* bound: deletes, failures, disconnects and restarts of a behaviour

ASSUME ChatBoundsAssumption == ChatFaults \in Nat

VARIABLES purge,       \* the running purge
          chatFaults  \* how many of them happened

chatVars == <<chatTables, turn, memory, job, age, purge, chatFaults>>

IdlePurge == [pc |-> "idle", empty |-> {}, kept |-> {}, loaded |-> {}]

ConversationInit ==
    /\ ChatInit /\ MemoryInit
    /\ purge = IdlePurge
    /\ chatFaults = 0

-----------------------------------------------------------------------------
\* Days pass between purges: an exchange crosses the next cutoff after those
\* created before it, a memory its own.
GrowOld(t) ==
    /\ purge.pc = "idle" /\ t \in Stored /\ age[t] < 2
    /\ \A th \in Threads : \A i, j \in DOMAIN messages[th] :
          i < j /\ messages[th][j] = t => age[messages[th][i]] > age[t]
    /\ age' = [age EXCEPT ![t] = @ + 1]
    /\ UNCHANGED <<chatTables, turn, memory, job, purge, chatFaults>>

MemoryGrowsOld(th) ==
    /\ purge.pc = "idle" /\ memory[th] # NoMemory /\ ~memory[th].old
    /\ memory' = [memory EXCEPT ![th].old = TRUE]
    /\ UNCHANGED <<chatTables, turn, job, age, purge, chatFaults>>

PurgeGo(pc) == purge' = [purge EXCEPT !.pc = pc]
PurgeQuiet == UNCHANGED <<chatDoc, noLogs, turn, age, chatFaults>>

\* createdAt is before the cutoff.
Before(cutoff) == {t \in Turns : age[t] >= cutoff}

\* The expired messages of a thread are its oldest.
RemoveMessages(expired) ==
    messages' = [th \in Threads |->
        LET gone == Cardinality({i \in DOMAIN messages[th] : messages[th][i] \in expired})
        IN SubSeq(messages[th], gone + 1, Len(messages[th]))]

\* 1) workspaces that keep no logs: their messages past the accelerated cutoff.
PurgeAccelerated ==
    /\ purge.pc = "idle"
    /\ IF noLogs THEN RemoveMessages(Before(1)) ELSE UNCHANGED messages
    /\ PurgeGo("messages")
    /\ UNCHANGED <<thread, memory, job>> /\ PurgeQuiet

\* 2) every workspace: its messages past the text retention.
PurgeMessages ==
    /\ purge.pc = "messages"
    /\ RemoveMessages(Before(2))
    /\ PurgeGo("empty")
    /\ UNCHANGED <<thread, memory, job>> /\ PurgeQuiet

\* Mutant: a thread with one message counts as empty.
MutantFindEmptyThreads ==
    /\ purge.pc = "empty"
    /\ purge' = [purge EXCEPT !.pc = "threads", !.kept = Stored,
                    !.empty = {th \in Threads : Live(th) /\ Len(messages[th]) <= 1}]
    /\ UNCHANGED <<thread, messages, memory, job>> /\ PurgeQuiet

\* 3) the threads that have no message when they are read ...
FindEmptyThreads ==
    /\ purge.pc = "empty"
    /\ purge' = [purge EXCEPT !.pc = "threads", !.kept = Stored,
                    !.empty = {th \in Threads : Live(th) /\ messages[th] = <<>>}]
    /\ UNCHANGED <<thread, messages, memory, job>> /\ PurgeQuiet

\* ... are removed, with any message saved meanwhile.
RemoveEmptyThreads ==
    /\ purge.pc = "threads"
    /\ DropThreads({th \in purge.empty : Live(th)})
    /\ PurgeGo("memories")
    /\ UNCHANGED <<memory, job>> /\ PurgeQuiet

\* purgeExpiredMemory: all rows are read once ...
LoadMemories ==
    /\ purge.pc = "memories"
    /\ purge' = [IdlePurge EXCEPT !.pc = "removing",
                    !.loaded = {<<th, memory[th].old>> : th \in {h \in Threads : memory[h] # NoMemory}}]
    /\ UNCHANGED <<thread, messages, memory, job>> /\ PurgeQuiet

OrphanMemory(th) == memory[th] # NoMemory /\ ~Live(th)

\* Mutant: only the age of a memory counts.
MutantJudgeMemory(th, old) ==
    /\ purge' = [purge EXCEPT !.loaded = @ \ {<<th, old>>}]
    /\ IF old THEN ForgetMemory(th) ELSE UNCHANGED <<memory, job>>

\* ... and judged one by one: removed if the thread is gone by now, or if
\* it was old when it was read.
JudgeMemory(th, old) ==
    /\ purge' = [purge EXCEPT !.loaded = @ \ {<<th, old>>}]
    /\ IF ~Live(th) \/ old THEN ForgetMemory(th) ELSE UNCHANGED <<memory, job>>

PurgeMemory ==
    /\ purge.pc = "removing"
    /\ \/ \E row \in purge.loaded : JudgeMemory(row[1], row[2])
       \/ purge.loaded = {} /\ purge' = IdlePurge /\ UNCHANGED <<memory, job>>
    /\ UNCHANGED <<thread, messages>> /\ PurgeQuiet

PurgeStep ==
    \/ PurgeAccelerated \/ PurgeMessages \/ FindEmptyThreads
    \/ RemoveEmptyThreads \/ LoadMemories \/ PurgeMemory

\* The API process restarts: requests, background saves and the purge are lost.
RestartApi ==
    /\ turn' = [t \in Turns |-> IF turn[t].pc = "idle" THEN turn[t]
                                ELSE Finished(t, turn[t].events)]
    /\ purge' = IdlePurge
    /\ UNCHANGED <<chatTables, memory, job, age>>
=============================================================================
