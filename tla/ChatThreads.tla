---------------------------- MODULE ChatThreads ----------------------------
(***************************************************************************)
(* Chat threads of one document, their messages, and POST chat/stream: the *)
(* handler streams an answer over SSE, ends the response, and only then    *)
(* saves the exchange, in the background.                                  *)
(***************************************************************************)
EXTENDS Naturals, Sequences, FiniteSets, Functions

CONSTANTS Turns,        \* chat/stream requests; a saved exchange is named by its request
          Threads,      \* thread ids, each used for one thread
          Users,
          Asker,        \* the user of each request
          HistoryLimit  \* exchanges put in the prompt (5 in the code)

\* Why an id has no row.
Unused == "unused"
Gone == "gone"

ASSUME ChatAssumption ==
    /\ Asker \in [Turns -> Users]
    /\ HistoryLimit \in Nat
    /\ Unused \notin Threads /\ {Unused, Gone} \cap Users = {}

VARIABLES chatDoc,   \* the documents row exists
          thread,    \* the chat_threads row of each id: its user, or why there is none
          messages,  \* the chat_messages rows of each thread, by createdAt
          noLogs,    \* settings: noLogsEnabled and skipChatMessages
          turn       \* the state of each request's handler

chatTables == <<chatDoc, thread, messages, noLogs>>

Live(th) == thread[th] \notin {Unused, Gone}
Stored == UNION {Range(messages[th]) : th \in Threads}

IdleTurn == [pc |-> "idle", thread |-> Unused, aborted |-> FALSE,
             events |-> <<>>, history |-> <<>>]

ChatInit ==
    /\ chatDoc = TRUE
    /\ thread = [th \in Threads |-> Unused]
    /\ messages = [th \in Threads |-> <<>>]
    /\ noLogs = FALSE
    /\ turn = [t \in Turns |-> IdleTurn]

-----------------------------------------------------------------------------
\* Mutant: a thread is found whoever it belongs to.
MutantFinds(u, th) == Live(th)

\* findById and findByThreadId: a user finds only threads of their own.
Finds(u, th) == thread[th] = u

\* DELETE threads/:id by the thread's user, an admin or an owner; the
\* messages go with the row (onDelete CASCADE), the thread's memory does not.
DropThreads(set) ==
    /\ thread' = [th \in Threads |-> IF th \in set THEN Gone ELSE thread[th]]
    /\ messages' = [th \in Threads |-> IF th \in set THEN <<>> ELSE messages[th]]

CreateThread(th, u) ==
    /\ chatDoc /\ thread[th] = Unused
    /\ thread' = [thread EXCEPT ![th] = u]
    /\ UNCHANGED <<chatDoc, messages, noLogs, turn>>

DeleteThread(th) ==
    /\ chatDoc /\ Live(th)
    /\ DropThreads({th})
    /\ UNCHANGED <<chatDoc, noLogs, turn>>

\* The orchestrator's last step: threads and messages cascade.
DeleteChatDocument ==
    /\ chatDoc
    /\ chatDoc' = FALSE
    /\ DropThreads({th \in Threads : Live(th)})
    /\ UNCHANGED <<noLogs, turn>>

ToggleNoLogs ==
    /\ noLogs' = ~noLogs
    /\ UNCHANGED <<chatDoc, thread, messages, turn>>

-----------------------------------------------------------------------------
Go(t, pc) == turn' = [turn EXCEPT ![t].pc = pc]

\* The handler is done: only what its client read, and where, is kept.
Finished(t, events) ==
    [IdleTurn EXCEPT !.pc = "over", !.thread = turn[t].thread, !.events = events]

Finish(t) == turn' = [turn EXCEPT ![t] = Finished(t, turn[t].events)]

\* An error event ends the response.
FinishWithError(t) == turn' = [turn EXCEPT ![t] = Finished(t, Append(turn[t].events, "error"))]

\* The outer catch: silent once the client is gone.
Fail(t) == IF turn[t].aborted THEN Finish(t) ELSE FinishWithError(t)

\* No threadId in the body: getOrCreateThread always inserts a new thread.
OpenNewThread(t, th) ==
    /\ turn[t].pc = "idle" /\ chatDoc /\ thread[th] = Unused
    /\ thread' = [thread EXCEPT ![th] = Asker[t]]
    /\ turn' = [turn EXCEPT ![t] = [@ EXCEPT !.pc = "recalling", !.thread = th]]
    /\ UNCHANGED <<chatDoc, messages, noLogs>>

OpenThread(t, th) ==
    /\ turn[t].pc = "idle" /\ thread[th] # Unused
    /\ IF chatDoc /\ Finds(Asker[t], th)
       THEN turn' = [turn EXCEPT ![t] = [@ EXCEPT !.pc = "recalling", !.thread = th]]
       ELSE Fail(t)
    /\ UNCHANGED chatTables

\* getRecentMessages: the last exchanges of the thread, oldest first.
Recall(t) ==
    LET said == messages[turn[t].thread]
        from == IF Len(said) > HistoryLimit THEN Len(said) - HistoryLimit + 1 ELSE 1
    IN /\ turn[t].pc = "recalling"
       /\ IF Finds(Asker[t], turn[t].thread)
          THEN turn' = [turn EXCEPT ![t] = [@ EXCEPT !.pc = "answering",
                                                     !.history = SubSeq(said, from, Len(said))]]
          ELSE Fail(t)
       /\ UNCHANGED chatTables

\* generateAnswerStream throws: its catch yields an error event, and the
\* controller ends the response at once.
AnswerFails(t) ==
    /\ turn[t].pc = "answering"
    /\ FinishWithError(t)
    /\ UNCHANGED chatTables

\* A done event: from the cache, of nothing found, or of a fresh answer,
\* which is offered to the cache before the generator returns.
Answer(t) ==
    /\ turn[t].pc = "answering"
    /\ \E next \in {"closing", "caching"} :
          turn' = [turn EXCEPT ![t] = [@ EXCEPT !.pc = next,
                                                !.events = Append(turn[t].events, "done")]]
    /\ UNCHANGED chatTables

\* ragCacheService.set swallows its errors.
CacheAnswer(t) ==
    /\ turn[t].pc = "caching"
    /\ Go(t, "closing")
    /\ UNCHANGED chatTables

\* The client is gone before the response is finished.
Disconnect(t) ==
    /\ turn[t].pc \in {"recalling", "answering", "caching", "closing"}
    /\ ~turn[t].aborted
    /\ turn' = [turn EXCEPT ![t].aborted = TRUE]
    /\ UNCHANGED chatTables

\* res.end(); an answer nobody waits for any more is not saved.
EndResponse(t) ==
    /\ turn[t].pc = "closing"
    /\ IF turn[t].aborted THEN Finish(t) ELSE Go(t, "persisting")
    /\ UNCHANGED chatTables

\* saveChatMessage reads the settings ...
CheckLogs(t) ==
    /\ turn[t].pc = "persisting"
    /\ IF noLogs THEN Finish(t) ELSE Go(t, "saving")
    /\ UNCHANGED chatTables

\* ... and inserts the exchange, unless a foreign key has lost its row.
SaveMessage(t) ==
    LET th == turn[t].thread
    IN /\ turn[t].pc = "saving"
       /\ messages' = IF Live(th) THEN [messages EXCEPT ![th] = Append(@, t)] ELSE messages
       /\ Finish(t)
       /\ UNCHANGED <<chatDoc, thread, noLogs>>
=============================================================================
