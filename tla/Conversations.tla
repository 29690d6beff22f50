---------------------------- MODULE Conversations ----------------------------
(***************************************************************************)
(* Chat of one document as a whole: requests, users who delete threads or  *)
(* the document, the summarize worker, and the daily purge.                *)
(***************************************************************************)
EXTENDS MemoryAndRetention

TurnStep(t) ==
    \/ \E th \in Threads : OpenNewThread(t, th) \/ OpenThread(t, th)
    \/ Recall(t) \/ Answer(t) \/ CacheAnswer(t) \/ EndResponse(t) \/ CheckLogs(t)

\* What users and failures do, a bounded number of times.
UserStep ==
    \/ \E th \in Threads, u \in Users : CreateThread(th, u)
    \/ \E th \in Threads : DeleteThread(th)
    \/ DeleteChatDocument
    \/ ToggleNoLogs
    \/ \E t \in Turns : AnswerFails(t) \/ Disconnect(t)

ChatFault ==
    /\ chatFaults < ChatFaults
    /\ chatFaults' = chatFaults + 1
    /\ \/ UserStep /\ UNCHANGED <<memory, job, age, purge>>
       \/ (\E t \in Turns : JobThrows(t) \/ JobStalls(t)) /\ UNCHANGED purge
       \/ RestartApi

ConversationNext ==
    \/ (\E t \in Turns : TurnStep(t)) /\ UNCHANGED <<memory, job, age, purge, chatFaults>>
    \/ (\E t \in Turns : SaveExchange(t) \/ JobStep(t)) /\ UNCHANGED <<purge, chatFaults>>
    \/ \E t \in Turns : GrowOld(t)
    \/ \E th \in Threads : MemoryGrowsOld(th)
    \/ PurgeStep
    \/ ChatFault

(* The scheduler of the API process runs the purge every day. *)
ConversationFairness == WF_chatVars(PurgeStep)

ConversationSpec == ConversationInit /\ [][ConversationNext]_chatVars /\ ConversationFairness

-----------------------------------------------------------------------------
ConversationTypeOK ==
    /\ chatDoc \in BOOLEAN /\ noLogs \in BOOLEAN
    /\ thread \in [Threads -> Users \cup {Unused, Gone}]
    /\ messages \in [Threads -> Seq(Turns)]
    /\ turn \in [Turns -> [pc : {"idle", "recalling", "answering", "caching", "closing",
                                 "persisting", "saving", "over"},
                           thread : Threads \cup {Unused}, aborted : BOOLEAN,
                           events : Seq({"done", "error"}), history : Seq(Turns)]]
    /\ memory \in [Threads -> [covers : SUBSET Turns, version : Nat, old : BOOLEAN]]
    /\ job \in [Turns -> [st : {"none", "queued", "active", "completing", "saving",
                                "done", "failed"},
                          tries : 0 .. SummaryAttempts, stalled : 0 .. 2, read : SUBSET Turns,
                          insert : BOOLEAN, version : Nat, raced : BOOLEAN]]
    /\ age \in [Turns -> 0 .. 2]
    /\ purge \in [pc : {"idle", "messages", "empty", "threads", "memories",
                        "removing"},
                  empty : SUBSET Threads, kept : SUBSET Turns,
                  loaded : SUBSET (Threads \X BOOLEAN)]
    /\ chatFaults \in 0 .. ChatFaults

(* A client reads at most one terminal event of a stream, and an exchange  *)
(* is only kept if that event was done: whatever fails after the answer,   *)
(* in the cache or while it is saved, stays out of the stream.             *)
OneTerminalEvent ==
    \A t \in Turns :
        /\ Len(turn[t].events) <= 1
        /\ t \in Stored => turn[t].events = <<"done">>

(* The prompt of a streamed request holds exchanges that its own user has  *)
(* asked, whatever thread id it names: those of the history it has read,   *)
(* and those the memory sums up that it reads while it answers, although   *)
(* the thread may be deleted by then.  A thread there is, and its memory,  *)
(* are its user's.  Nothing is said of chat/prepare, which puts the memory *)
(* of the thread it is given into the prompt without looking whose it is.  *)
StreamedPromptIsPrivate ==
    /\ \A t \in Turns :
          /\ \A s \in Range(turn[t].history) : Asker[s] = Asker[t]
          /\ turn[t].pc = "answering" => \A s \in memory[turn[t].thread].covers : Asker[s] = Asker[t]
    /\ \A th \in Threads : Live(th) =>
           \A s \in Range(messages[th]) \cup memory[th].covers : Asker[s] = thread[th]

(* A streamed request tells its client how it ended, once, and tells the   *)
(* model of earlier exchanges only what its user has asked.                *)
RequestsAreKeptApart == OneTerminalEvent /\ StreamedPromptIsPrivate

(* The purge never takes an exchange that is within every cutoff and was   *)
(* saved when it looked for empty threads.                                 *)
PurgeSparesKnownExchanges ==
    [][purge.pc = "threads" /\ purge'.pc = "memories" => purge.kept \cap Stored \subseteq Stored']_chatVars

(* A summary forgets an exchange that is still stored only when its job    *)
(* overlapped with another that summarised the thread meanwhile: jobs that *)
(* run one after the other, retries and re-runs included, never do.        *)
SummaryForgetsOnlyByOverlap ==
    [][\A th \in Threads :
         LET lost == (memory[th].covers \ memory'[th].covers) \cap Range(messages'[th])
         IN memory'[th] # NoMemory /\ lost # {} =>
              \E t \in Turns : job[t].st = "saving" /\ job'[t].st = "done" /\ job[t].raced]_chatVars

(* What is within its time is forgotten neither by the purge nor by jobs    *)
(* that summarise one after another.                                       *)
NothingKeptIsLost == PurgeSparesKnownExchanges /\ SummaryForgetsOnlyByOverlap

(* A memory whose thread is gone is removed by a later purge, although the *)
(* delete left it, or a summarize job wrote it afterwards.                 *)
OrphanMemoryPurged ==
    \A th \in Threads : OrphanMemory(th) ~> ~OrphanMemory(th)
=============================================================================
