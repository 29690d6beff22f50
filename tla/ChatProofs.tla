----------------------------- MODULE ChatProofs -----------------------------
(***************************************************************************)
(* Proofs about the conversations: their types, the one terminal event of  *)
(* a stream, whose exchanges a prompt and a thread hold, and what the      *)
(* daily purge leaves alone.                                               *)
(***************************************************************************)
EXTENDS Conversations, SequenceTheorems, FiniteSetTheorems, TLAPS

-----------------------------------------------------------------------------
(* The inductive invariant.                                                *)

TurnRecords == [pc : {"idle", "recalling", "answering", "caching", "closing",
                      "persisting", "saving", "over"},
                thread : Threads \cup {Unused}, aborted : BOOLEAN,
                events : Seq({"done", "error"}), history : Seq(Turns)]

JobRecords == [st : {"none", "queued", "active", "completing", "saving", "done", "failed"},
               tries : 0 .. SummaryAttempts, stalled : 0 .. 2, read : SUBSET Turns,
               insert : BOOLEAN, version : Nat, raced : BOOLEAN]

MemoryRecords == [covers : SUBSET Turns, version : Nat, old : BOOLEAN]

PurgeRecords == [pc : {"idle", "messages", "empty", "threads", "memories", "removing"},
                 empty : SUBSET Threads, kept : SUBSET Turns,
                 loaded : SUBSET (Threads \X BOOLEAN)]

Talking == {"recalling", "answering", "caching", "closing", "persisting", "saving"}

\* What the client has read at each point of the handler.
EventsFit(r) ==
    /\ r.pc \in {"idle", "recalling", "answering"} => r.events = <<>>
    /\ r.pc \in {"caching", "closing", "persisting", "saving"} => r.events = <<"done">>
    /\ Len(r.events) <= 1

\* A request in state r reads and writes the asker's thread only.
OwnThread(t, r) ==
    /\ r.pc \in Talking => r.thread \in Threads
    /\ r.thread \in Threads => thread[r.thread] \in {Asker[t], Gone}
    /\ \A s \in Range(r.history) : Asker[s] = Asker[t]

TurnsOK == \A t \in Turns : EventsFit(turn[t]) /\ OwnThread(t, turn[t])

\* Attempts left, and only the asker's exchanges in hand.
JobFits(t, j) ==
    /\ j.st # "failed" => j.tries < SummaryAttempts /\ j.stalled <= 1
    /\ \A s \in j.read : Asker[s] = Asker[t]

JobsOK ==
    \A t \in Turns :
        /\ JobFits(t, job[t])
        /\ job[t].st # "none" => turn[t].pc = "over" /\ turn[t].thread \in Threads

ThreadsOK ==
    \A th \in Threads :
        /\ ~Live(th) => messages[th] = <<>>
        /\ \A s \in Range(messages[th]) : turn[s].pc = "over" /\ turn[s].events = <<"done">>
        /\ \A s \in Range(messages[th]) \cup memory[th].covers : thread[th] \in {Asker[s], Gone}

\* No kept exchange comes to a thread that was found empty.
PurgeOK ==
    purge.pc = "threads" =>
        /\ \A s \in purge.kept : turn[s].pc = "over"
        /\ \A th \in purge.empty : Range(messages[th]) \cap purge.kept = {}

TablesTyped ==
    /\ chatDoc \in BOOLEAN /\ noLogs \in BOOLEAN
    /\ thread \in [Threads -> Users \cup {Unused, Gone}]
    /\ messages \in [Threads -> Seq(Turns)]
    /\ memory \in [Threads -> MemoryRecords]
    /\ age \in [Turns -> 0 .. 2]
    /\ purge \in PurgeRecords

Typed ==
    /\ TablesTyped
    /\ turn \in [Turns -> TurnRecords]
    /\ job \in [Turns -> JobRecords]

ChatInv == Typed /\ TurnsOK /\ JobsOK /\ ThreadsOK /\ PurgeOK

-----------------------------------------------------------------------------
(* What the sequences of exchanges hold.                                   *)

LEMMA EmptyRange == Range(<<>>) = {}
<1>1. DOMAIN <<>> = {}
  OBVIOUS
<1> QED
  BY <1>1 DEF Range

LEMMA OnlyEmptyHasNone ==
    ASSUME NEW S, NEW q \in Seq(S), Range(q) = {}
    PROVE  q = <<>>
<1>1. DOMAIN q = 1 .. Len(q) /\ Len(q) \in Nat
  BY LenProperties
<1>2. \A i \in DOMAIN q : q[i] \in Range(q)
  BY DEF Range
<1>3. Len(q) = 0
  BY <1>1, <1>2
<1> QED
  BY <1>3, EmptySeq

LEMMA RangeOfAppend ==
    ASSUME NEW S, NEW q \in Seq(S), NEW x \in S
    PROVE  Append(q, x) \in Seq(S) /\ Range(Append(q, x)) = Range(q) \cup {x}
<1>1. /\ Append(q, x) \in Seq(S) /\ Len(Append(q, x)) = Len(q) + 1 /\ Len(q) \in Nat
      /\ \A i \in 1 .. Len(q) : Append(q, x)[i] = q[i]
      /\ Append(q, x)[Len(q) + 1] = x
  BY AppendProperties, LenProperties
<1>2. DOMAIN q = 1 .. Len(q) /\ DOMAIN Append(q, x) = 1 .. (Len(q) + 1)
  BY <1>1, LenProperties
<1> QED
  BY <1>1, <1>2 DEF Range

LEMMA RangeOfSubSeq ==
    ASSUME NEW S, NEW q \in Seq(S), NEW m \in Nat, 1 <= m
    PROVE  SubSeq(q, m, Len(q)) \in Seq(S) /\ Range(SubSeq(q, m, Len(q))) \subseteq Range(q)
<1>1. Len(q) \in Nat /\ DOMAIN q = 1 .. Len(q)
  BY LenProperties
<1>2. CASE m <= Len(q)
  <2> DEFINE sub == SubSeq(q, m, Len(q))
  <2>1. /\ sub \in Seq(S) /\ Len(sub) = Len(q) - m + 1
        /\ \A i \in 1 .. Len(sub) : sub[i] = q[m + i - 1]
    BY <1>1, <1>2, SubSeqProperties, ElementOfSeq
  <2>2. DOMAIN sub = 1 .. Len(sub)
    BY <2>1, LenProperties
  <2> HIDE DEF sub
  <2>3. ASSUME NEW i \in DOMAIN sub PROVE sub[i] \in Range(q)
    <3>1. m + i - 1 \in 1 .. Len(q) /\ sub[i] = q[m + i - 1]
      BY <1>1, <1>2, <2>1, <2>2
    <3> QED
      BY <1>1, <3>1 DEF Range
  <2> QED
    BY <2>1, <2>3 DEF Range, sub
<1>3. CASE m > Len(q)
  <2>1. SubSeq(q, m, Len(q)) = <<>>
    BY <1>1, <1>3, SubSeqEmpty
  <2> QED
    BY <2>1, EmptySeq, EmptyRange
<1> QED
  BY <1>1, <1>2, <1>3

-----------------------------------------------------------------------------
(* What the records hold, and who owns what they name.                     *)

LEMMA AskersAreUsers ==
    \A t \in Turns : Asker[t] \in Users /\ Asker[t] \notin {Unused, Gone}
BY ChatAssumption

LEMMA HeldAreTurns ==
    ASSUME Typed, NEW th \in Threads
    PROVE  /\ messages[th] \in Seq(Turns) /\ Range(messages[th]) \subseteq Turns
           /\ memory[th] \in MemoryRecords /\ memory[th].covers \subseteq Turns
<1>1. messages[th] \in Seq(Turns) /\ memory[th] \in MemoryRecords
  BY DEF Typed, TablesTyped
<1> QED
  BY <1>1, RangeOfSeq DEF MemoryRecords

\* One request moves on and the tables stay.
LEMMA TurnMoves ==
    ASSUME ChatInv, NEW t \in Turns, NEW new \in TurnRecords,
           turn' = [turn EXCEPT ![t] = new], turn[t].pc # "over",
           EventsFit(new), OwnThread(t, new),
           UNCHANGED <<chatTables, memory, job, age, purge>>
    PROVE  ChatInv'
<1> USE DEF ChatInv
<1>1. \A x \in Turns : turn'[x] = IF x = t THEN new ELSE turn[x]
  BY DEF Typed
<1>2. Typed'
  BY DEF Typed, TablesTyped, chatTables
<1>3. \A x \in Turns : turn[x].pc = "over" => turn'[x] = turn[x]
  BY <1>1
<1>4. TurnsOK'
  BY <1>1 DEF TurnsOK, OwnThread, EventsFit, chatTables
<1>5. JobsOK'
  BY <1>3 DEF JobsOK, JobFits
<1>6. ThreadsOK'
  <2>1. \A th \in Threads : \A s \in Range(messages[th]) : turn'[s] = turn[s]
    BY <1>3, HeldAreTurns DEF ThreadsOK
  <2> QED
    BY <2>1 DEF ThreadsOK, Live, chatTables
<1>7. PurgeOK'
  <2>1. purge.kept \subseteq Turns
    BY DEF Typed, TablesTyped, PurgeRecords
  <2> QED
    BY <1>3, <2>1 DEF PurgeOK, chatTables
<1> QED
  BY <1>2, <1>4, <1>5, <1>6, <1>7

\* Summarize jobs move on; what they write is the asker's.
LEMMA JobsMove ==
    ASSUME ChatInv, job' \in [Turns -> JobRecords], memory' \in [Threads -> MemoryRecords],
           \A t \in Turns : /\ JobFits(t, job'[t])
                            /\ job'[t].st # "none" => job[t].st # "none",
           \A th \in Threads : \A s \in memory'[th].covers : thread[th] \in {Asker[s], Gone},
           UNCHANGED <<chatTables, turn, age, purge>>
    PROVE  ChatInv'
<1> USE DEF ChatInv
<1>1. Typed'
  BY DEF Typed, TablesTyped, chatTables
<1>2. TurnsOK'
  BY DEF TurnsOK, OwnThread, EventsFit, chatTables
<1>3. JobsOK'
  BY DEF JobsOK, JobFits
<1>4. ThreadsOK'
  BY DEF ThreadsOK, Live, chatTables
<1>5. PurgeOK'
  BY DEF PurgeOK, chatTables
<1> QED
  BY <1>1, <1>2, <1>3, <1>4, <1>5

\* Rows are removed, and the purge does not look for threads.
LEMMA RowsLeave ==
    ASSUME ChatInv, TablesTyped', job' \in [Turns -> JobRecords], turn' = turn,
           \A th \in Threads : /\ thread'[th] \in {thread[th], Gone}
                               /\ Range(messages'[th]) \subseteq Range(messages[th])
                               /\ thread'[th] \in {Unused, Gone} => messages'[th] = <<>>
                               /\ memory'[th].covers \subseteq memory[th].covers,
           \A t \in Turns : /\ job'[t].st = job[t].st /\ job'[t].read = job[t].read
                            /\ job'[t].tries = job[t].tries /\ job'[t].stalled = job[t].stalled,
           purge' = purge \/ purge'.pc # "threads"
    PROVE  ChatInv'
<1> USE DEF ChatInv
<1>1. Typed'
  BY DEF Typed
<1>2. TurnsOK'
  <2>1. ASSUME NEW t \in Turns PROVE (EventsFit(turn[t]) /\ OwnThread(t, turn[t]))'
    <3>1. EventsFit(turn[t]) /\ OwnThread(t, turn[t])
      BY DEF TurnsOK
    <3> QED
      BY <3>1 DEF OwnThread, EventsFit
  <2> QED
    BY <2>1 DEF TurnsOK
<1>3. JobsOK'
  BY DEF JobsOK, JobFits
<1>4. ThreadsOK'
  <2>1. ASSUME NEW th \in Threads, NEW s \in Range(messages'[th]) \cup memory'[th].covers
        PROVE  thread'[th] \in {Asker[s], Gone}
    <3>1. thread[th] \in {Asker[s], Gone}
      BY DEF ThreadsOK
    <3> QED
      BY <3>1
  <2>2. ASSUME NEW th \in Threads, NEW s \in Range(messages'[th])
        PROVE  turn[s].pc = "over" /\ turn[s].events = <<"done">>
    BY DEF ThreadsOK
  <2> QED
    BY <2>1, <2>2 DEF ThreadsOK, Live
<1>5. PurgeOK'
  <2>1. CASE purge'.pc # "threads"
    BY <2>1 DEF PurgeOK
  <2>2. CASE purge' = purge
    <3>1. purge.empty \subseteq Threads
      BY DEF Typed, TablesTyped, PurgeRecords
    <3> QED
      BY <2>2, <3>1 DEF PurgeOK
  <2> QED
    BY <2>1, <2>2
<1> QED
  BY <1>1, <1>2, <1>3, <1>4, <1>5

-----------------------------------------------------------------------------
(* The steps of a request.                                                 *)

LEMMA FinishedFits ==
    ASSUME ChatInv, NEW t \in Turns, NEW ev \in Seq({"done", "error"}), Len(ev) <= 1
    PROVE  /\ Finished(t, ev) \in TurnRecords
           /\ Finished(t, ev).pc = "over" /\ Finished(t, ev).events = ev
           /\ Finished(t, ev).thread = turn[t].thread
           /\ EventsFit(Finished(t, ev)) /\ OwnThread(t, Finished(t, ev))
<1> DEFINE f == Finished(t, ev)
<1>1. IdleTurn \in TurnRecords
  BY EmptySeq DEF IdleTurn, TurnRecords
<1>2. turn[t] \in TurnRecords /\ OwnThread(t, turn[t])
  BY DEF ChatInv, Typed, TurnsOK
<1>3. f \in TurnRecords
  BY <1>1, <1>2 DEF Finished, TurnRecords
<1>4. /\ f.pc = "over" /\ f.events = ev
      /\ f.thread = turn[t].thread /\ f.history = <<>>
  BY DEF Finished, IdleTurn
<1> HIDE DEF f
<1>5. EventsFit(f)
  BY <1>4 DEF EventsFit
<1>6. OwnThread(t, f)
  BY <1>2, <1>4, EmptyRange DEF OwnThread, Talking
<1> QED
  BY <1>3, <1>4, <1>5, <1>6 DEF f

LEMMA TurnEnds ==
    ASSUME ChatInv, NEW t \in Turns, turn[t].pc # "over",
           \/ Finish(t)
           \/ FinishWithError(t) /\ turn[t].events = <<>>
           \/ Fail(t) /\ turn[t].events = <<>>,
           UNCHANGED <<chatTables, memory, job, age, purge>>
    PROVE  ChatInv'
<1>1. turn[t].events \in Seq({"done", "error"}) /\ Len(turn[t].events) <= 1
  BY DEF ChatInv, Typed, TurnRecords, TurnsOK, EventsFit
<1>2. CASE Finish(t)
  BY <1>1, <1>2, FinishedFits, TurnMoves DEF Finish
<1>3. CASE FinishWithError(t) /\ turn[t].events = <<>>
  <2> DEFINE ev == Append(turn[t].events, "error")
  <2>1. ev \in Seq({"done", "error"}) /\ Len(ev) <= 1
    BY <1>1, <1>3, AppendProperties, EmptySeq
  <2>2. turn' = [turn EXCEPT ![t] = Finished(t, ev)]
    BY <1>3 DEF FinishWithError
  <2> HIDE DEF ev
  <2> QED
    BY <2>1, <2>2, FinishedFits, TurnMoves
<1> QED
  BY <1>2, <1>3 DEF Fail

\* A step that changes no more than where the handler is.
LEMMA TurnGoes ==
    ASSUME ChatInv, NEW t \in Turns, NEW pc \in Talking, Go(t, pc),
           turn[t].pc \in Talking, pc \notin {"recalling", "answering"},
           turn[t].events = <<"done">>,
           UNCHANGED <<chatTables, memory, job, age, purge>>
    PROVE  ChatInv'
<1> DEFINE new == [turn[t] EXCEPT !.pc = pc]
<1>1. turn' = [turn EXCEPT ![t] = new]
  BY DEF Go
<1>2. turn[t] \in TurnRecords /\ OwnThread(t, turn[t]) /\ EventsFit(turn[t])
  BY DEF ChatInv, Typed, TurnsOK
<1>3. /\ new \in TurnRecords
      /\ new.pc = pc /\ new.thread = turn[t].thread
      /\ new.events = turn[t].events /\ new.history = turn[t].history
  BY <1>2 DEF TurnRecords, Talking
<1> HIDE DEF new
<1>4. EventsFit(new) /\ OwnThread(t, new)
  BY <1>2, <1>3 DEF EventsFit, OwnThread, Talking
<1> QED
  BY <1>1, <1>3, <1>4, TurnMoves DEF Talking

\* The rows of a thread its asker finds are the asker's.
LEMMA FoundIsOwn ==
    ASSUME ChatInv, NEW t \in Turns, NEW th \in Threads, Finds(Asker[t], th)
    PROVE  \A s \in Range(messages[th]) \cup memory[th].covers : Asker[s] = Asker[t]
BY AskersAreUsers DEF ChatInv, ThreadsOK, Finds

LEMMA RecallStep ==
    ASSUME ChatInv, NEW t \in Turns, Recall(t), UNCHANGED <<memory, job, age, purge>>
    PROVE  ChatInv'
<1> DEFINE said == messages[turn[t].thread]
           from == IF Len(said) > HistoryLimit THEN Len(said) - HistoryLimit + 1 ELSE 1
           heard == SubSeq(said, from, Len(said))
           new == [turn[t] EXCEPT !.pc = "answering", !.history = heard]
<1>1. turn[t] \in TurnRecords /\ OwnThread(t, turn[t]) /\ EventsFit(turn[t])
  BY DEF ChatInv, Typed, TurnsOK
<1>2. /\ turn[t].pc = "recalling" /\ turn[t].thread \in Threads
      /\ turn[t].events = <<>> /\ UNCHANGED chatTables
  BY <1>1 DEF Recall, OwnThread, EventsFit, Talking
<1>3. CASE Finds(Asker[t], turn[t].thread)
  <2>1. turn' = [turn EXCEPT ![t] = new]
    BY <1>3 DEF Recall
  <2>2. said \in Seq(Turns) /\ Len(said) \in Nat
    BY <1>2, HeldAreTurns, LenProperties DEF ChatInv
  <2>3. from \in Nat /\ 1 <= from
    BY <2>2, ChatAssumption
  <2>4. heard \in Seq(Turns) /\ Range(heard) \subseteq Range(said)
    <3> HIDE DEF from, said
    <3> QED
      BY <2>2, <2>3, RangeOfSubSeq
  <2>5. \A s \in Range(heard) : Asker[s] = Asker[t]
    BY <1>2, <1>3, <2>4, FoundIsOwn
  <2> HIDE DEF heard
  <2>6. /\ new \in TurnRecords
        /\ new.pc = "answering" /\ new.thread = turn[t].thread
        /\ new.events = <<>> /\ new.history = heard
    BY <1>1, <1>2, <2>4 DEF TurnRecords
  <2> HIDE DEF new
  <2>7. EventsFit(new) /\ OwnThread(t, new)
    BY <1>1, <1>2, <2>5, <2>6 DEF EventsFit, OwnThread, Talking
  <2> QED
    BY <1>2, <2>1, <2>6, <2>7, TurnMoves
<1>4. CASE ~Finds(Asker[t], turn[t].thread)
  BY <1>2, <1>4, TurnEnds DEF Recall
<1> QED
  BY <1>3, <1>4

LEMMA AnswerStep ==
    ASSUME ChatInv, NEW t \in Turns, Answer(t), UNCHANGED <<memory, job, age, purge>>
    PROVE  ChatInv'
<1>1. turn[t] \in TurnRecords /\ OwnThread(t, turn[t]) /\ EventsFit(turn[t])
  BY DEF ChatInv, Typed, TurnsOK
<1>2. turn[t].pc = "answering" /\ turn[t].events = <<>> /\ UNCHANGED chatTables
  BY <1>1 DEF Answer, EventsFit
<1>3. PICK next \in {"closing", "caching"} :
        turn' = [turn EXCEPT ![t] = [turn[t] EXCEPT !.pc = next,
                                                    !.events = Append(turn[t].events, "done")]]
  BY DEF Answer
<1> DEFINE new == [turn[t] EXCEPT !.pc = next, !.events = Append(turn[t].events, "done")]
<1>4. Append(<<>>, "done") = <<"done">> /\ <<"done">> \in Seq({"done", "error"})
  OBVIOUS
<1>5. /\ new \in TurnRecords
      /\ new.pc = next /\ new.thread = turn[t].thread
      /\ new.events = <<"done">> /\ new.history = turn[t].history
  BY <1>1, <1>2, <1>4 DEF TurnRecords
<1>6. turn' = [turn EXCEPT ![t] = new]
  BY <1>3
<1> HIDE DEF new
<1>7. EventsFit(new) /\ OwnThread(t, new)
  BY <1>1, <1>2, <1>5 DEF EventsFit, OwnThread, Talking
<1> QED
  BY <1>2, <1>5, <1>6, <1>7, TurnMoves

LEMMA OpenThreadStep ==
    ASSUME ChatInv, NEW t \in Turns, NEW th \in Threads, OpenThread(t, th),
           UNCHANGED <<memory, job, age, purge>>
    PROVE  ChatInv'
<1> DEFINE new == [turn[t] EXCEPT !.pc = "recalling", !.thread = th]
<1>1. turn[t] \in TurnRecords /\ OwnThread(t, turn[t]) /\ EventsFit(turn[t])
  BY DEF ChatInv, Typed, TurnsOK
<1>2. turn[t].pc = "idle" /\ turn[t].events = <<>> /\ UNCHANGED chatTables
  BY <1>1 DEF OpenThread, EventsFit
<1>3. CASE chatDoc /\ Finds(Asker[t], th)
  <2>1. turn' = [turn EXCEPT ![t] = new]
    BY <1>3 DEF OpenThread
  <2>2. /\ new \in TurnRecords
        /\ new.pc = "recalling" /\ new.thread = th
        /\ new.events = turn[t].events /\ new.history = turn[t].history
    BY <1>1 DEF TurnRecords
  <2> HIDE DEF new
  <2>3. EventsFit(new) /\ OwnThread(t, new)
    BY <1>1, <1>2, <1>3, <2>2 DEF EventsFit, OwnThread, Talking, Finds
  <2> QED
    BY <1>2, <2>1, <2>2, <2>3, TurnMoves
<1>4. CASE ~(chatDoc /\ Finds(Asker[t], th))
  BY <1>2, <1>4, TurnEnds DEF OpenThread
<1> QED
  BY <1>3, <1>4

LEMMA OtherTurnSteps ==
    ASSUME ChatInv, NEW t \in Turns,
           CacheAnswer(t) \/ EndResponse(t) \/ CheckLogs(t) \/ AnswerFails(t) \/ Disconnect(t),
           UNCHANGED <<memory, job, age, purge>>
    PROVE  ChatInv'
<1>1. turn[t] \in TurnRecords /\ OwnThread(t, turn[t]) /\ EventsFit(turn[t])
  BY DEF ChatInv, Typed, TurnsOK
<1>2. CASE CacheAnswer(t)
  BY <1>1, <1>2, TurnGoes DEF CacheAnswer, EventsFit, Talking
<1>3. CASE EndResponse(t)
  BY <1>1, <1>3, TurnGoes, TurnEnds DEF EndResponse, EventsFit, Talking
<1>4. CASE CheckLogs(t)
  BY <1>1, <1>4, TurnGoes, TurnEnds DEF CheckLogs, EventsFit, Talking
<1>5. CASE AnswerFails(t)
  BY <1>1, <1>5, TurnEnds DEF AnswerFails, EventsFit
<1>6. CASE Disconnect(t)
  <2> DEFINE new == [turn[t] EXCEPT !.aborted = TRUE]
  <2>1. turn' = [turn EXCEPT ![t] = new]
    BY <1>6 DEF Disconnect
  <2>2. /\ new \in TurnRecords
        /\ new.pc = turn[t].pc /\ new.thread = turn[t].thread
        /\ new.events = turn[t].events /\ new.history = turn[t].history
    BY <1>1 DEF TurnRecords
  <2> HIDE DEF new
  <2>3. EventsFit(new) /\ OwnThread(t, new)
    BY <1>1, <2>2 DEF EventsFit, OwnThread
  <2> QED
    BY <1>6, <2>1, <2>2, <2>3, TurnMoves DEF Disconnect
<1> QED
  BY <1>2, <1>3, <1>4, <1>5, <1>6

\* A thread id is taken: nothing is stored under it, no request names it.
LEMMA ThreadAppears ==
    ASSUME ChatInv, NEW th \in Threads, NEW u \in Users, thread[th] = Unused,
           thread' = [thread EXCEPT ![th] = u],
           UNCHANGED <<chatDoc, noLogs, messages, memory, age, purge>>
    PROVE  /\ TablesTyped'
           /\ messages[th] = <<>> /\ memory[th].covers = {}
           /\ \A h \in Threads : thread'[h] = IF h = th THEN u ELSE thread[h]
           /\ \A x \in Turns : turn[x].thread \in Threads =>
                  thread'[turn[x].thread] \in {Asker[x], Gone}
<1>1. thread \in [Threads -> Users \cup {Unused, Gone}]
  BY DEF ChatInv, Typed, TablesTyped
<1>2. TablesTyped'
  BY DEF ChatInv, Typed, TablesTyped
<1>3. \A h \in Threads : thread'[h] = IF h = th THEN u ELSE thread[h]
  BY <1>1
<1>4. messages[th] = <<>>
  BY DEF ChatInv, ThreadsOK, Live
<1>5. \A s \in memory[th].covers : s \in Turns /\ Unused \in {Asker[s], Gone}
  BY HeldAreTurns DEF ChatInv, ThreadsOK
<1>6. memory[th].covers = {}
  BY <1>5, AskersAreUsers DEF Unused, Gone
<1>7. ASSUME NEW x \in Turns, turn[x].thread \in Threads
      PROVE  thread'[turn[x].thread] \in {Asker[x], Gone}
  <2>1. thread[turn[x].thread] \in {Asker[x], Gone}
    BY <1>7 DEF ChatInv, TurnsOK, OwnThread
  <2>2. turn[x].thread # th
    BY <2>1, AskersAreUsers DEF Unused, Gone
  <2> QED
    BY <1>3, <1>7, <2>1, <2>2
<1> QED
  BY <1>2, <1>3, <1>4, <1>6, <1>7

LEMMA CreateThreadStep ==
    ASSUME ChatInv, NEW th \in Threads, NEW u \in Users, CreateThread(th, u),
           UNCHANGED <<memory, job, age, purge>>
    PROVE  ChatInv'
<1> USE DEF ChatInv
<1>1. /\ thread[th] = Unused /\ thread' = [thread EXCEPT ![th] = u]
      /\ UNCHANGED <<chatDoc, noLogs, messages, turn>>
  BY DEF CreateThread
<1>2. Typed'
  BY <1>1, ThreadAppears DEF Typed
<1>3. TurnsOK'
  BY <1>1, ThreadAppears DEF TurnsOK, EventsFit, OwnThread
<1>4. JobsOK' /\ PurgeOK'
  BY <1>1 DEF JobsOK, JobFits, PurgeOK
<1>5. ThreadsOK'
  <2>1. /\ messages[th] = <<>> /\ memory[th].covers = {}
        /\ \A h \in Threads : thread'[h] = IF h = th THEN u ELSE thread[h]
    BY <1>1, ThreadAppears
  <2> QED
    BY <1>1, <2>1, EmptyRange DEF ThreadsOK, Live
<1> QED
  BY <1>2, <1>3, <1>4, <1>5

LEMMA OpenNewThreadStep ==
    ASSUME ChatInv, NEW t \in Turns, NEW th \in Threads, OpenNewThread(t, th),
           UNCHANGED <<memory, job, age, purge>>
    PROVE  ChatInv'
<1> DEFINE new == [turn[t] EXCEPT !.pc = "recalling", !.thread = th]
<1>1. turn[t] \in TurnRecords /\ OwnThread(t, turn[t]) /\ EventsFit(turn[t])
  BY DEF ChatInv, Typed, TurnsOK
<1>2. /\ turn[t].pc = "idle" /\ turn[t].events = <<>>
      /\ thread[th] = Unused /\ thread' = [thread EXCEPT ![th] = Asker[t]]
      /\ UNCHANGED <<chatDoc, noLogs, messages>>
      /\ turn' = [turn EXCEPT ![t] = new]
  BY <1>1 DEF OpenNewThread, EventsFit
<1>3. /\ new \in TurnRecords
      /\ new.pc = "recalling" /\ new.thread = th
      /\ new.events = turn[t].events /\ new.history = turn[t].history
  BY <1>1 DEF TurnRecords
<1>4. /\ TablesTyped'
      /\ messages[th] = <<>> /\ memory[th].covers = {}
      /\ \A h \in Threads : thread'[h] = IF h = th THEN Asker[t] ELSE thread[h]
      /\ \A x \in Turns : turn[x].thread \in Threads =>
             thread'[turn[x].thread] \in {Asker[x], Gone}
  BY <1>2, AskersAreUsers, ThreadAppears
<1> HIDE DEF new
<1>5. turn \in [Turns -> TurnRecords]
  BY DEF ChatInv, Typed
<1>6. \A x \in Turns : turn'[x] = IF x = t THEN new ELSE turn[x]
  BY <1>2, <1>5
<1>7. Typed'
  BY <1>2, <1>3, <1>4, <1>5 DEF ChatInv, Typed
<1>8. TurnsOK'
  BY <1>1, <1>2, <1>3, <1>4, <1>6 DEF ChatInv, TurnsOK, EventsFit, OwnThread, Talking
<1>9. \A x \in Turns : turn[x].pc = "over" => turn'[x] = turn[x]
  BY <1>2, <1>6
<1>10. JobsOK'
  BY <1>9 DEF ChatInv, JobsOK, JobFits
<1>11. ThreadsOK'
  <2>1. \A h \in Threads : \A s \in Range(messages[h]) : turn'[s] = turn[s]
    BY <1>9, HeldAreTurns DEF ChatInv, ThreadsOK
  <2> QED
    BY <1>2, <1>4, <2>1, EmptyRange DEF ChatInv, ThreadsOK, Live
<1>12. PurgeOK'
  <2>1. purge.kept \subseteq Turns
    BY DEF ChatInv, Typed, TablesTyped, PurgeRecords
  <2> QED
    BY <1>2, <1>9, <2>1 DEF ChatInv, PurgeOK
<1> QED
  BY <1>7, <1>8, <1>10, <1>11, <1>12 DEF ChatInv

\* The exchange is saved while its thread lives, and may be summarised.
LEMMA SaveExchangeStep ==
    ASSUME ChatInv, NEW t \in Turns, SaveExchange(t), UNCHANGED purge
    PROVE  ChatInv'
<1> DEFINE th == turn[t].thread
           new == Finished(t, turn[t].events)
<1>1. turn[t] \in TurnRecords /\ OwnThread(t, turn[t]) /\ EventsFit(turn[t])
  BY DEF ChatInv, Typed, TurnsOK
<1>2. /\ turn[t].pc = "saving" /\ th \in Threads /\ turn[t].events = <<"done">>
      /\ thread[th] \in {Asker[t], Gone}
      /\ turn' = [turn EXCEPT ![t] = new]
      /\ UNCHANGED <<chatDoc, thread, noLogs, memory, age>>
      /\ messages' = IF Live(th) THEN [messages EXCEPT ![th] = Append(messages[th], t)]
                     ELSE messages
  BY <1>1 DEF SaveExchange, SaveMessage, Finish, OwnThread, EventsFit, Talking
<1>3. /\ new \in TurnRecords /\ new.pc = "over" /\ new.events = <<"done">> /\ new.thread = th
      /\ EventsFit(new) /\ OwnThread(t, new)
  BY <1>1, <1>2, FinishedFits, ZenonT(60) DEF TurnRecords, EventsFit
<1>4. job[t].st = "none" /\ (purge.pc = "threads" => t \notin purge.kept)
  BY <1>2 DEF ChatInv, JobsOK, PurgeOK
<1>5. CASE ~Live(th)
  <2>1. UNCHANGED <<chatTables, memory, job, age, purge>>
    BY <1>2, <1>5 DEF SaveExchange, JobThread, chatTables
  <2> QED
    BY <1>2, <1>3, <2>1, TurnMoves
<1>6. CASE Live(th)
  <2> DEFINE queued == [job[t] EXCEPT !.st = "queued"]
  <2>1. job' = [job EXCEPT ![t] = queued] \/ job' = job
    BY <1>6 DEF SaveExchange, Enqueue, JobThread
  <2>2. /\ messages[th] \in Seq(Turns)
        /\ Append(messages[th], t) \in Seq(Turns)
        /\ Range(Append(messages[th], t)) = Range(messages[th]) \cup {t}
    BY <1>2, HeldAreTurns, RangeOfAppend DEF ChatInv
  <2>3. messages' \in [Threads -> Seq(Turns)]
    BY <1>2, <1>6, <2>2 DEF ChatInv, Typed, TablesTyped
  <2>4. /\ messages \in [Threads -> Seq(Turns)]
        /\ turn \in [Turns -> TurnRecords] /\ job \in [Turns -> JobRecords]
    BY DEF ChatInv, Typed, TablesTyped
  <2>5. \A h \in Threads : Range(messages'[h]) =
            IF h = th THEN Range(messages[h]) \cup {t} ELSE Range(messages[h])
    BY <1>2, <1>6, <2>2, <2>4
  <2>6. queued \in JobRecords /\ queued.st = "queued" /\ queued.read = job[t].read
        /\ queued.tries = job[t].tries /\ queued.stalled = job[t].stalled
    <3>1. job[t] \in JobRecords
      BY <2>4
    <3>2. queued \in JobRecords
      BY <3>1 DEF JobRecords
    <3> QED
      BY <3>1, <3>2 DEF JobRecords
  <2> HIDE DEF new, queued
  <2>7. \A x \in Turns : turn'[x] = IF x = t THEN new ELSE turn[x]
    BY <1>2, <2>4
  <2>8. \A x \in Turns : turn[x].pc = "over" => turn'[x] = turn[x]
    BY <1>2, <2>7
  <2>9. Typed'
    BY <1>2, <1>3, <2>1, <2>3, <2>4, <2>6 DEF ChatInv, Typed, TablesTyped
  <2>10. TurnsOK'
    BY <1>2, <1>3, <2>7 DEF ChatInv, TurnsOK, EventsFit, OwnThread
  <2>11. JobsOK'
    <3>1. ASSUME NEW x \in Turns
          PROVE  /\ JobFits(x, job'[x])
                 /\ job'[x].st # "none" => turn'[x].pc = "over" /\ turn'[x].thread \in Threads
      <4>1. CASE x = t /\ job' # job
        BY <1>2, <1>3, <1>4, <2>1, <2>4, <2>6, <2>7, <4>1 DEF ChatInv, JobsOK, JobFits
      <4>2. CASE x # t \/ job' = job
        BY <1>4, <2>1, <2>4, <2>8, <4>2 DEF ChatInv, JobsOK, JobFits
      <4> QED
        BY <4>1, <4>2
    <3> QED
      BY <3>1 DEF JobsOK, JobFits
  <2>12. ThreadsOK'
    <3>1. ASSUME NEW h \in Threads, NEW x \in Range(messages'[h])
          PROVE  /\ turn'[x].pc = "over" /\ turn'[x].events = <<"done">>
                 /\ thread[h] \in {Asker[x], Gone}
      <4>1. CASE x = t /\ h = th
        BY <1>2, <1>3, <2>7, <4>1
      <4>2. CASE x \in Range(messages[h])
        BY <2>8, <4>2, HeldAreTurns DEF ChatInv, ThreadsOK
      <4> QED
        BY <2>5, <4>1, <4>2
    <3>2. ASSUME NEW h \in Threads, ~Live(h) PROVE messages'[h] = <<>>
      BY <1>2, <1>6, <2>4, <3>2 DEF ChatInv, ThreadsOK
    <3> QED
      BY <1>2, <3>1, <3>2 DEF ChatInv, ThreadsOK, Live
  <2>13. PurgeOK'
    <3>1. purge.kept \subseteq Turns /\ purge.empty \subseteq Threads
      BY DEF ChatInv, Typed, TablesTyped, PurgeRecords
    <3> QED
      BY <1>4, <2>5, <2>8, <3>1, ZenonT(60) DEF ChatInv, PurgeOK
  <2> QED
    BY <2>9, <2>10, <2>11, <2>12, <2>13 DEF ChatInv
<1> QED
  BY <1>5, <1>6

-----------------------------------------------------------------------------
(* The summarize worker.                                                   *)

\* One job moves on and the memories stay.
LEMMA JobMoves ==
    ASSUME ChatInv, NEW t \in Turns, NEW new \in JobRecords, job' = [job EXCEPT ![t] = new],
           job[t].st # "none", JobFits(t, new),
           UNCHANGED <<chatTables, turn, memory, age, purge>>
    PROVE  ChatInv'
<1>1. job \in [Turns -> JobRecords] /\ memory \in [Threads -> MemoryRecords]
  BY DEF ChatInv, Typed, TablesTyped
<1>2. \A x \in Turns : job'[x] = IF x = t THEN new ELSE job[x]
  BY <1>1
<1>3. job' \in [Turns -> JobRecords]
  BY <1>1
<1>4. \A x \in Turns : /\ JobFits(x, job'[x])
                       /\ job'[x].st # "none" => job[x].st # "none"
  BY <1>2 DEF ChatInv, JobsOK
<1>5. \A th \in Threads : \A s \in memory'[th].covers : thread[th] \in {Asker[s], Gone}
  BY DEF ChatInv, ThreadsOK
<1> QED
  BY <1>1, <1>3, <1>4, <1>5, JobsMove

LEMMA JobHolds ==
    ASSUME ChatInv, NEW t \in Turns, job[t].st # "none"
    PROVE  /\ job[t] \in JobRecords /\ JobFits(t, job[t])
           /\ JobThread(t) \in Threads /\ thread[JobThread(t)] \in {Asker[t], Gone}
BY DEF ChatInv, Typed, JobsOK, TurnsOK, OwnThread, JobThread

\* A job that threw, or whose process died, waits again or is given up.
LEMMA JobReturns ==
    ASSUME ChatInv, NEW t \in Turns, Active(t),
           NEW tries \in Nat, NEW stalled \in Nat,
           NEW st \in {"queued", "failed"},
           tries <= SummaryAttempts, stalled <= 2,
           st = "queued" => tries < SummaryAttempts /\ stalled <= 1,
           job' = [job EXCEPT ![t] = [NoJob EXCEPT !.st = st, !.tries = tries,
                                                   !.stalled = stalled]],
           UNCHANGED <<chatTables, turn, memory, age, purge>>
    PROVE  ChatInv'
<1> DEFINE new == [NoJob EXCEPT !.st = st, !.tries = tries, !.stalled = stalled]
<1>1. NoJob \in JobRecords
  BY MemoryAssumption DEF NoJob, JobRecords
<1>2. /\ new \in JobRecords
      /\ new.st = st /\ new.tries = tries /\ new.stalled = stalled /\ new.read = {}
  <2>1. tries \in 0 .. SummaryAttempts /\ stalled \in 0 .. 2
    BY MemoryAssumption
  <2>2. new \in JobRecords
    BY <1>1, <2>1 DEF JobRecords
  <2>3. new.st = st /\ new.tries = tries
    BY DEF NoJob
  <2>4. new.stalled = stalled /\ new.read = {}
    BY DEF NoJob
  <2> QED
    BY <2>2, <2>3, <2>4
<1>3. job[t].st # "none" /\ job' = [job EXCEPT ![t] = new]
  BY DEF Active
<1> HIDE DEF new
<1>4. JobFits(t, new)
  BY <1>2 DEF JobFits
<1> QED
  BY <1>2, <1>3, <1>4, JobMoves

LEMMA RetryStep ==
    ASSUME ChatInv, NEW t \in Turns, Active(t), Retry(t),
           UNCHANGED <<chatTables, turn, memory, age, purge>>
    PROVE  ChatInv'
<1> DEFINE tries == job[t].tries + 1
           st == IF tries < SummaryAttempts THEN "queued" ELSE "failed"
<1>1. /\ job[t] \in JobRecords /\ job[t].tries \in Nat /\ job[t].tries < SummaryAttempts
      /\ job[t].stalled \in Nat /\ job[t].stalled <= 1
  BY JobHolds DEF Active, JobFits, JobRecords
<1>2. job' = [job EXCEPT ![t] = [NoJob EXCEPT !.st = st, !.tries = tries,
                                              !.stalled = job[t].stalled]]
  <2>1. [Return(t, tries < SummaryAttempts) EXCEPT !.tries = @ + 1]
          = [NoJob EXCEPT !.st = st, !.tries = tries, !.stalled = job[t].stalled]
    BY DEF Return, NoJob
  <2> QED
    BY <2>1 DEF Retry
<1>3. /\ tries \in Nat /\ tries <= SummaryAttempts /\ st \in {"queued", "failed"}
      /\ st = "queued" => tries < SummaryAttempts
      /\ job[t].stalled <= 2
  BY <1>1, MemoryAssumption
<1> HIDE DEF tries, st
<1> QED
  BY <1>1, <1>2, <1>3, JobReturns

LEMMA JobStallsStep ==
    ASSUME ChatInv, NEW t \in Turns, JobStalls(t), UNCHANGED purge
    PROVE  ChatInv'
<1> DEFINE stalled == job[t].stalled + 1
           st == IF job[t].stalled < 1 THEN "queued" ELSE "failed"
<1>1. /\ Active(t) /\ job[t] \in JobRecords
      /\ job[t].tries \in Nat /\ job[t].tries < SummaryAttempts
      /\ job[t].stalled \in Nat /\ job[t].stalled <= 1
  BY JobHolds DEF JobStalls, Active, JobFits, JobRecords
<1>2. job' = [job EXCEPT ![t] = [NoJob EXCEPT !.st = st, !.tries = job[t].tries,
                                              !.stalled = stalled]]
  <2>1. [Return(t, job[t].stalled < 1) EXCEPT !.stalled = @ + 1]
          = [NoJob EXCEPT !.st = st, !.tries = job[t].tries, !.stalled = stalled]
    BY DEF Return, NoJob
  <2> QED
    BY <2>1 DEF JobStalls
<1>3. UNCHANGED <<chatTables, turn, memory, age, purge>>
  BY DEF JobStalls, JobQuiet
<1>4. /\ stalled \in Nat /\ stalled <= 2 /\ st \in {"queued", "failed"}
      /\ st = "queued" => stalled <= 1
  BY <1>1
<1>5. job[t].tries <= SummaryAttempts
  BY <1>1, MemoryAssumption
<1> HIDE DEF stalled, st
<1> QED
  BY <1>1, <1>2, <1>3, <1>4, <1>5, JobReturns

LEMMA DoneFits == DoneJob \in JobRecords /\ DoneJob.st = "done" /\ DoneJob.read = {}
                  /\ \A t \in Turns : JobFits(t, DoneJob)
<1>1. DoneJob \in JobRecords
  <2>1. NoJob \in JobRecords
    BY MemoryAssumption DEF NoJob, JobRecords
  <2> QED
    BY <2>1 DEF DoneJob, JobRecords
<1>2. DoneJob.st = "done" /\ DoneJob.read = {} /\ DoneJob.tries = 0 /\ DoneJob.stalled = 0
  BY DEF DoneJob, NoJob
<1> QED
  BY <1>1, <1>2, MemoryAssumption DEF JobFits

LEMMA StartJobStep ==
    ASSUME ChatInv, NEW t \in Turns, StartJob(t), UNCHANGED purge
    PROVE  ChatInv'
<1> DEFINE new == [job[t] EXCEPT !.st = "active"]
<1>1. /\ job[t].st = "queued" /\ job' = [job EXCEPT ![t] = new]
      /\ UNCHANGED <<chatTables, turn, memory, age, purge>>
  BY DEF StartJob, JobGo, JobQuiet
<1>2. job[t] \in JobRecords /\ JobFits(t, job[t])
  BY <1>1, JobHolds
<1>3. /\ new \in JobRecords
      /\ new.tries = job[t].tries /\ new.stalled = job[t].stalled /\ new.read = job[t].read
  BY <1>2 DEF JobRecords
<1> HIDE DEF new
<1>4. JobFits(t, new)
  BY <1>1, <1>2, <1>3 DEF JobFits
<1> QED
  BY <1>1, <1>3, <1>4, JobMoves

LEMMA ReadThreadStep ==
    ASSUME ChatInv, NEW t \in Turns, ReadThread(t), UNCHANGED purge
    PROVE  ChatInv'
<1> DEFINE said == Range(messages[JobThread(t)])
           new == [job[t] EXCEPT !.st = "completing", !.read = said, !.raced = FALSE]
<1>1. /\ job[t].st = "active"
      /\ UNCHANGED <<chatTables, turn, memory, age, purge>>
  BY DEF ReadThread, JobQuiet
<1>2. job' = [job EXCEPT ![t] = IF said = {} THEN DoneJob ELSE new]
  BY DEF ReadThread
<1>3. /\ job[t] \in JobRecords /\ JobFits(t, job[t])
      /\ JobThread(t) \in Threads /\ thread[JobThread(t)] \in {Asker[t], Gone}
  BY <1>1, JobHolds
<1>4. said \subseteq Turns
  BY <1>3, HeldAreTurns DEF ChatInv
<1>5. \A s \in said : Asker[s] = Asker[t]
  <2>1. CASE Live(JobThread(t))
    BY <1>3, <2>1 DEF ChatInv, ThreadsOK, Live
  <2>2. CASE ~Live(JobThread(t))
    BY <1>3, <2>2, EmptyRange DEF ChatInv, ThreadsOK
  <2> QED
    BY <2>1, <2>2
<1> HIDE DEF said
<1>6. new \in JobRecords
  BY <1>3, <1>4 DEF JobRecords
<1>7. /\ new.tries = job[t].tries /\ new.stalled = job[t].stalled /\ new.read = said
  BY <1>3 DEF JobRecords
<1> HIDE DEF new
<1>8. JobFits(t, new)
  BY <1>1, <1>3, <1>5, <1>7 DEF JobFits
<1> QED
  BY <1>1, <1>2, <1>6, <1>8, DoneFits, JobMoves

LEMMA FindMemoryStep ==
    ASSUME ChatInv, NEW t \in Turns, FindMemory(t), UNCHANGED purge
    PROVE  ChatInv'
<1> DEFINE found == memory[JobThread(t)]
           insert == found = NoMemory
           version == found.version + 1
           new == [job[t] EXCEPT !.st = "saving", !.insert = insert, !.version = version]
<1>1. /\ job[t].st = "completing" /\ job' = [job EXCEPT ![t] = new]
      /\ UNCHANGED <<chatTables, turn, memory, age, purge>>
  BY DEF FindMemory, JobQuiet
<1>2. job[t] \in JobRecords /\ JobFits(t, job[t]) /\ JobThread(t) \in Threads
  BY <1>1, JobHolds
<1>3. version \in Nat /\ insert \in BOOLEAN
  BY <1>2, HeldAreTurns DEF ChatInv, MemoryRecords
<1> HIDE DEF version, insert
<1>4. new \in JobRecords
  BY <1>2, <1>3 DEF JobRecords
<1>5. new.tries = job[t].tries /\ new.stalled = job[t].stalled /\ new.read = job[t].read
  BY <1>2 DEF JobRecords
<1> HIDE DEF new
<1>6. JobFits(t, new)
  BY <1>1, <1>2, <1>5 DEF JobFits
<1> QED
  BY <1>1, <1>4, <1>6, JobMoves

LEMMA SaveMemoryStep ==
    ASSUME ChatInv, NEW t \in Turns, SaveMemory(t), UNCHANGED purge
    PROVE  ChatInv'
<1> DEFINE th == JobThread(t)
           row == [covers |-> job[t].read, version |-> job[t].version, old |-> FALSE]
           others == {s \in Turns \ {t} :
                         JobThread(s) = th /\ job[s].st \in {"completing", "saving"}}
<1>1. job[t].st = "saving" /\ UNCHANGED <<chatTables, turn, age, purge>>
  BY DEF SaveMemory, JobQuiet
<1>2. /\ job[t] \in JobRecords /\ JobFits(t, job[t])
      /\ th \in Threads /\ thread[th] \in {Asker[t], Gone}
  BY <1>1, JobHolds
<1>3. CASE job[t].insert /\ memory[th] # NoMemory
  BY <1>1, <1>3, RetryStep DEF SaveMemory, Active
<1>4. CASE ~(job[t].insert /\ memory[th] # NoMemory)
  <2>1. /\ memory' = [memory EXCEPT ![th] = row]
        /\ job' = [s \in Turns |-> IF s = t THEN DoneJob
                                   ELSE IF s \in others THEN [job[s] EXCEPT !.raced = TRUE]
                                   ELSE job[s]]
    BY <1>4 DEF SaveMemory
  <2>2. row \in MemoryRecords /\ row.covers = job[t].read
    BY <1>2 DEF JobRecords, MemoryRecords
  <2> HIDE DEF row
  <2>3. memory \in [Threads -> MemoryRecords] /\ job \in [Turns -> JobRecords]
    BY DEF ChatInv, Typed, TablesTyped
  <2>4. /\ memory' \in [Threads -> MemoryRecords]
        /\ \A h \in Threads : memory'[h] = IF h = th THEN row ELSE memory[h]
    BY <2>1, <2>2, <2>3
  <2>5. \A h \in Threads : \A s \in memory'[h].covers : thread[h] \in {Asker[s], Gone}
    BY <1>2, <2>2, <2>4 DEF ChatInv, ThreadsOK, JobFits
  <2>6. ASSUME NEW s \in Turns
        PROVE  /\ job'[s] \in JobRecords
               /\ s = t => job'[s] = DoneJob
               /\ s # t => /\ job'[s].st = job[s].st /\ job'[s].read = job[s].read
                           /\ job'[s].tries = job[s].tries
                           /\ job'[s].stalled = job[s].stalled
    <3> DEFINE marked == [job[s] EXCEPT !.raced = TRUE]
    <3>1. job[s] \in JobRecords
      BY <2>3
    <3>2. /\ marked \in JobRecords
          /\ marked.st = job[s].st /\ marked.read = job[s].read
          /\ marked.tries = job[s].tries /\ marked.stalled = job[s].stalled
      BY <3>1 DEF JobRecords
    <3>3. job'[s] = IF s = t THEN DoneJob ELSE IF s \in others THEN marked ELSE job[s]
      BY <2>1
    <3> HIDE DEF marked, others
    <3> QED
      BY <3>1, <3>2, <3>3, DoneFits
  <2>7. job' \in [Turns -> JobRecords]
    BY <2>1, <2>6
  <2>8. \A s \in Turns : /\ JobFits(s, job'[s])
                         /\ job'[s].st # "none" => job[s].st # "none"
    BY <1>1, <2>6, DoneFits DEF ChatInv, JobsOK, JobFits
  <2> QED
    BY <1>1, <2>4, <2>5, <2>7, <2>8, JobsMove
<1> QED
  BY <1>3, <1>4

-----------------------------------------------------------------------------
(* The purge and the deletes.                                              *)

LEMMA RowsRemoved ==
    ASSUME ChatInv, NEW set \in SUBSET Threads, DropThreads(set),
           UNCHANGED <<noLogs, turn, memory, job, age>>, chatDoc' \in BOOLEAN,
           purge' \in PurgeRecords, purge' = purge \/ purge'.pc # "threads"
    PROVE  ChatInv'
<1>1. /\ \A th \in Threads : thread'[th] = IF th \in set THEN Gone ELSE thread[th]
      /\ \A th \in Threads : messages'[th] = IF th \in set THEN <<>> ELSE messages[th]
  BY DEF DropThreads
<1>2. TablesTyped /\ job \in [Turns -> JobRecords]
  BY DEF ChatInv, Typed
<1>3. /\ thread' \in [Threads -> Users \cup {Unused, Gone}]
      /\ messages' \in [Threads -> Seq(Turns)]
  BY <1>2, EmptySeq DEF DropThreads, TablesTyped
<1>4. TablesTyped'
  BY <1>2, <1>3 DEF TablesTyped
<1>5. \A th \in Threads : /\ thread'[th] \in {thread[th], Gone}
                          /\ Range(messages'[th]) \subseteq Range(messages[th])
                          /\ thread'[th] \in {Unused, Gone} => messages'[th] = <<>>
                          /\ memory'[th].covers \subseteq memory[th].covers
  BY <1>1, EmptyRange DEF ChatInv, ThreadsOK, Live
<1> QED
  BY <1>2, <1>4, <1>5, RowsLeave

LEMMA ExpiredLeave ==
    ASSUME ChatInv, NEW expired, RemoveMessages(expired), NEW th \in Threads
    PROVE  /\ messages'[th] \in Seq(Turns)
           /\ Range(messages'[th]) \subseteq Range(messages[th])
           /\ messages[th] = <<>> => messages'[th] = <<>>
<1> DEFINE old == {i \in DOMAIN messages[th] : messages[th][i] \in expired}
           from == Cardinality(old) + 1
<1>1. messages[th] \in Seq(Turns)
  BY HeldAreTurns DEF ChatInv
<1>2. IsFiniteSet(DOMAIN messages[th])
  BY <1>1, LenProperties, FS_Interval
<1>3. Cardinality(old) \in Nat
  BY <1>2, FS_Subset, FS_CardinalityType
<1>4. messages'[th] = SubSeq(messages[th], from, Len(messages[th]))
  BY DEF RemoveMessages
<1> HIDE DEF old
<1>5. from \in Nat /\ 1 <= from
  BY <1>3
<1> HIDE DEF from
<1>6. messages[th] = <<>> => messages'[th] = <<>>
  BY <1>4, <1>5, EmptySeq, SubSeqEmpty
<1> QED
  BY <1>1, <1>4, <1>5, <1>6, RangeOfSubSeq

LEMMA ExpiryStep ==
    ASSUME ChatInv, NEW expired, RemoveMessages(expired) \/ UNCHANGED messages,
           UNCHANGED <<thread, chatDoc, noLogs, turn, memory, job, age>>,
           purge' \in PurgeRecords, purge'.pc # "threads"
    PROVE  ChatInv'
<1>1. \A th \in Threads : /\ messages'[th] \in Seq(Turns)
                          /\ Range(messages'[th]) \subseteq Range(messages[th])
                          /\ messages[th] = <<>> => messages'[th] = <<>>
  BY ExpiredLeave, HeldAreTurns DEF ChatInv
<1>2. TablesTyped /\ job \in [Turns -> JobRecords]
  BY DEF ChatInv, Typed
<1>3. messages' \in [Threads -> Seq(Turns)]
  BY <1>1, <1>2 DEF RemoveMessages, TablesTyped
<1>4. TablesTyped'
  BY <1>2, <1>3 DEF TablesTyped
<1>5. \A th \in Threads : /\ thread'[th] \in {thread[th], Gone}
                          /\ Range(messages'[th]) \subseteq Range(messages[th])
                          /\ thread'[th] \in {Unused, Gone} => messages'[th] = <<>>
                          /\ memory'[th].covers \subseteq memory[th].covers
  BY <1>1 DEF ChatInv, ThreadsOK, Live
<1> QED
  BY <1>2, <1>4, <1>5, RowsLeave

LEMMA FindEmptyThreadsStep == ChatInv /\ FindEmptyThreads => ChatInv'
<1> SUFFICES ASSUME ChatInv, FindEmptyThreads PROVE ChatInv'
  OBVIOUS
<1> DEFINE empty == {th \in Threads : Live(th) /\ messages[th] = <<>>}
<1>1. /\ purge' = [purge EXCEPT !.pc = "threads", !.kept = Stored, !.empty = empty]
      /\ UNCHANGED <<chatDoc, noLogs, thread, messages, turn, memory, job, age>>
  BY DEF FindEmptyThreads, PurgeQuiet
<1>2. purge \in PurgeRecords
  BY DEF ChatInv, Typed, TablesTyped
<1>3. \A s \in Stored : s \in Turns /\ \E th \in Threads : s \in Range(messages[th])
  BY HeldAreTurns DEF ChatInv, Stored
<1> HIDE DEF empty
<1>4. empty \subseteq Threads
  BY DEF empty
<1>5. purge' \in PurgeRecords
  BY <1>1, <1>2, <1>3, <1>4 DEF PurgeRecords
<1>6. purge'.kept = Stored /\ purge'.empty = empty
  BY <1>1, <1>2 DEF PurgeRecords
<1>7. Typed'
  BY <1>1, <1>5 DEF ChatInv, Typed, TablesTyped
<1>8. TurnsOK' /\ JobsOK' /\ ThreadsOK'
  BY <1>1 DEF ChatInv, TurnsOK, EventsFit, OwnThread, JobsOK, JobFits, ThreadsOK, Live
<1>9. \A s \in Stored : turn'[s].pc = "over"
  BY <1>1, <1>3 DEF ChatInv, ThreadsOK
<1>10. \A th \in empty : Range(messages'[th]) = {}
  BY <1>1, EmptyRange DEF empty
<1>11. PurgeOK'
  BY <1>6, <1>9, <1>10 DEF PurgeOK
<1> QED
  BY <1>7, <1>8, <1>11 DEF ChatInv

\* A memory is removed, and a job that has read it will insert it again.
LEMMA ForgetMemoryStep ==
    ASSUME ChatInv, NEW th \in Threads, ForgetMemory(th) \/ UNCHANGED <<memory, job>>,
           UNCHANGED <<chatDoc, noLogs, thread, messages, turn, age>>,
           purge' \in PurgeRecords, purge'.pc # "threads"
    PROVE  ChatInv'
<1>1. TablesTyped /\ job \in [Turns -> JobRecords]
  BY DEF ChatInv, Typed
<1>2. NoMemory \in MemoryRecords /\ NoMemory.covers = {}
  BY DEF NoMemory, MemoryRecords
<1>3. memory \in [Threads -> MemoryRecords]
  BY <1>1 DEF TablesTyped
<1>4. /\ memory' \in [Threads -> MemoryRecords]
      /\ \A h \in Threads : memory'[h] = memory[h] \/ memory'[h] = NoMemory
  BY <1>2, <1>3 DEF ForgetMemory
<1>5. /\ job' \in [Turns -> JobRecords]
      /\ \A t \in Turns : /\ job'[t].st = job[t].st /\ job'[t].read = job[t].read
                          /\ job'[t].tries = job[t].tries /\ job'[t].stalled = job[t].stalled
  <2>1. CASE ForgetMemory(th)
    <3>1. ASSUME NEW t \in Turns
          PROVE  /\ job'[t] \in JobRecords
                 /\ job'[t].st = job[t].st /\ job'[t].read = job[t].read
                 /\ job'[t].tries = job[t].tries /\ job'[t].stalled = job[t].stalled
      <4> DEFINE again == [job[t] EXCEPT !.insert = TRUE]
      <4>1. job[t] \in JobRecords
        BY <1>1
      <4>2. /\ again \in JobRecords
            /\ again.st = job[t].st /\ again.read = job[t].read
            /\ again.tries = job[t].tries /\ again.stalled = job[t].stalled
        BY <4>1 DEF JobRecords
      <4>3. job'[t] = again \/ job'[t] = job[t]
        BY <2>1 DEF ForgetMemory
      <4> HIDE DEF again
      <4> QED
        BY <4>1, <4>2, <4>3
    <3> QED
      BY <2>1, <3>1 DEF ForgetMemory
  <2>2. CASE UNCHANGED <<memory, job>>
    BY <1>1, <2>2
  <2> QED
    BY <2>1, <2>2
<1>6. TablesTyped'
  BY <1>1, <1>4 DEF TablesTyped
<1>7. \A h \in Threads : /\ thread'[h] \in {thread[h], Gone}
                         /\ Range(messages'[h]) \subseteq Range(messages[h])
                         /\ thread'[h] \in {Unused, Gone} => messages'[h] = <<>>
                         /\ memory'[h].covers \subseteq memory[h].covers
  BY <1>2, <1>4 DEF ChatInv, ThreadsOK, Live
<1> QED
  BY <1>5, <1>6, <1>7, RowsLeave

LEMMA PurgeSteps == ChatInv /\ PurgeStep => ChatInv'
<1> SUFFICES ASSUME ChatInv, PurgeStep PROVE ChatInv'
  OBVIOUS
<1>1. purge \in PurgeRecords /\ IdlePurge \in PurgeRecords
  BY DEF ChatInv, Typed, TablesTyped, IdlePurge, PurgeRecords
<1>2. CASE PurgeAccelerated \/ PurgeMessages
  <2>1. purge' \in PurgeRecords /\ purge'.pc # "threads"
    BY <1>1, <1>2 DEF PurgeAccelerated, PurgeMessages, PurgeGo, PurgeRecords
  <2> QED
    BY <1>2, <2>1, ExpiryStep DEF PurgeAccelerated, PurgeMessages, PurgeQuiet
<1>3. CASE FindEmptyThreads
  BY <1>3, FindEmptyThreadsStep
<1>4. CASE RemoveEmptyThreads
  <2>1. purge' \in PurgeRecords /\ purge'.pc # "threads"
    BY <1>1, <1>4 DEF RemoveEmptyThreads, PurgeGo, PurgeRecords
  <2>2. {th \in purge.empty : Live(th)} \subseteq Threads
    BY <1>1 DEF PurgeRecords
  <2>3. chatDoc' \in BOOLEAN
    BY <1>4 DEF RemoveEmptyThreads, PurgeQuiet, ChatInv, Typed, TablesTyped
  <2> QED
    BY <1>4, <2>1, <2>2, <2>3, RowsRemoved DEF RemoveEmptyThreads, PurgeQuiet
<1>5. CASE LoadMemories
  <2> DEFINE rows == {<<th, memory[th].old>> : th \in {h \in Threads : memory[h] # NoMemory}}
  <2>1. purge' = [IdlePurge EXCEPT !.pc = "removing", !.loaded = rows]
    BY <1>5 DEF LoadMemories
  <2>2. rows \subseteq Threads \X BOOLEAN
    BY HeldAreTurns DEF ChatInv, MemoryRecords
  <2> HIDE DEF rows
  <2>3. purge' \in PurgeRecords /\ purge'.pc # "threads"
    BY <1>1, <2>1, <2>2 DEF PurgeRecords
  <2> QED
    BY <1>5, <2>3, ExpiryStep DEF LoadMemories, PurgeQuiet
<1>6. CASE PurgeMemory
  <2>1. UNCHANGED <<chatDoc, noLogs, thread, messages, turn, age>> /\ purge.pc = "removing"
    BY <1>6 DEF PurgeMemory, PurgeQuiet
  <2>2. ASSUME NEW row \in purge.loaded, JudgeMemory(row[1], row[2]) PROVE ChatInv'
    <3>1. row[1] \in Threads
      BY <1>1 DEF PurgeRecords
    <3>2. purge' \in PurgeRecords /\ purge'.pc # "threads"
      BY <1>1, <2>1, <2>2 DEF JudgeMemory, PurgeRecords
    <3>3. ForgetMemory(row[1]) \/ UNCHANGED <<memory, job>>
      BY <2>2 DEF JudgeMemory
    <3> QED
      BY <2>1, <3>1, <3>2, <3>3, ForgetMemoryStep
  <2>3. ASSUME purge' = IdlePurge, UNCHANGED <<memory, job>> PROVE ChatInv'
    <3>1. purge' \in PurgeRecords /\ purge'.pc # "threads"
      BY <1>1, <2>3 DEF IdlePurge
    <3> QED
      BY <2>1, <2>3, <3>1, ExpiryStep
  <2> QED
    BY <1>6, <2>2, <2>3 DEF PurgeMemory
<1> QED
  BY <1>2, <1>3, <1>4, <1>5, <1>6 DEF PurgeStep

LEMMA DeleteSteps ==
    ASSUME ChatInv,
           (\E th \in Threads : DeleteThread(th)) \/ DeleteChatDocument \/ ToggleNoLogs,
           UNCHANGED <<memory, job, age, purge>>
    PROVE  ChatInv'
<1>1. TablesTyped /\ job \in [Turns -> JobRecords]
  BY DEF ChatInv, Typed
<1>2. ASSUME NEW th \in Threads, DeleteThread(th) PROVE ChatInv'
  <2>1. chatDoc' \in BOOLEAN /\ purge' \in PurgeRecords
    BY <1>1, <1>2 DEF DeleteThread, TablesTyped
  <2> QED
    BY <1>2, <2>1, RowsRemoved DEF DeleteThread
<1>3. CASE DeleteChatDocument
  <2>1. chatDoc' \in BOOLEAN /\ purge' \in PurgeRecords
    BY <1>1, <1>3 DEF DeleteChatDocument, TablesTyped
  <2> QED
    BY <1>3, <2>1, RowsRemoved DEF DeleteChatDocument
<1>4. CASE ToggleNoLogs
  <2>1. UNCHANGED <<chatDoc, thread, messages, turn>> /\ TablesTyped'
    BY <1>1, <1>4 DEF ToggleNoLogs, TablesTyped
  <2> QED
    BY <1>1, <2>1, RowsLeave DEF ChatInv, ThreadsOK, Live
<1> QED
  BY <1>2, <1>3, <1>4

LEMMA GrowSteps ==
    ASSUME ChatInv,
           (\E t \in Turns : GrowOld(t)) \/ (\E th \in Threads : MemoryGrowsOld(th))
           \/ UNCHANGED chatVars
    PROVE  ChatInv'
<1>1. TablesTyped /\ job \in [Turns -> JobRecords]
  BY DEF ChatInv, Typed
<1>2. UNCHANGED <<chatDoc, noLogs, thread, messages, turn, job, purge>>
  BY DEF GrowOld, MemoryGrowsOld, chatVars, chatTables
<1>3. age' \in [Turns -> 0 .. 2]
  BY <1>1 DEF GrowOld, MemoryGrowsOld, chatVars, TablesTyped
<1>4. /\ memory' \in [Threads -> MemoryRecords]
      /\ \A th \in Threads : memory'[th].covers \subseteq memory[th].covers
  <2>1. ASSUME NEW th \in Threads, MemoryGrowsOld(th)
        PROVE  /\ memory' \in [Threads -> MemoryRecords]
               /\ \A h \in Threads : memory'[h].covers \subseteq memory[h].covers
    <3> DEFINE row == [memory[th] EXCEPT !.old = TRUE]
    <3>1. memory' = [memory EXCEPT ![th] = row] /\ memory \in [Threads -> MemoryRecords]
      BY <1>1, <2>1 DEF MemoryGrowsOld, TablesTyped
    <3>2. row \in MemoryRecords /\ row.covers = memory[th].covers
      BY <3>1 DEF MemoryRecords
    <3> HIDE DEF row
    <3> QED
      BY <3>1, <3>2
  <2>2. CASE UNCHANGED memory
    BY <1>1, <2>2 DEF TablesTyped
  <2> QED
    BY <2>1, <2>2 DEF GrowOld, chatVars
<1>5. TablesTyped'
  BY <1>1, <1>2, <1>3, <1>4 DEF TablesTyped
<1>6. \A th \in Threads : /\ thread'[th] \in {thread[th], Gone}
                          /\ Range(messages'[th]) \subseteq Range(messages[th])
                          /\ thread'[th] \in {Unused, Gone} => messages'[th] = <<>>
  BY <1>2 DEF ChatInv, ThreadsOK, Live
<1> QED
  BY <1>1, <1>2, <1>4, <1>5, <1>6, RowsLeave

LEMMA RestartStep == ChatInv /\ RestartApi => ChatInv'
<1> SUFFICES ASSUME ChatInv, RestartApi PROVE ChatInv'
  OBVIOUS
<1>1. /\ turn' = [t \in Turns |-> IF turn[t].pc = "idle" THEN turn[t]
                                  ELSE Finished(t, turn[t].events)]
      /\ purge' = IdlePurge
      /\ UNCHANGED <<chatDoc, noLogs, thread, messages, memory, job, age>>
  BY DEF RestartApi, chatTables
<1>2. \A t \in Turns : /\ turn[t] \in TurnRecords
                       /\ turn[t].events \in Seq({"done", "error"})
                       /\ EventsFit(turn[t]) /\ OwnThread(t, turn[t])
  BY DEF ChatInv, Typed, TurnsOK, TurnRecords
<1>3. \A t \in Turns : /\ turn'[t] \in TurnRecords
                       /\ turn'[t].events = turn[t].events
                       /\ turn'[t].thread = turn[t].thread
                       /\ turn[t].pc = "over" => turn'[t].pc = "over"
                       /\ EventsFit(turn'[t]) /\ OwnThread(t, turn'[t])
  BY <1>1, <1>2, FinishedFits DEF EventsFit
<1>4. turn' \in [Turns -> TurnRecords]
  BY <1>1, <1>3
<1>5. purge' \in PurgeRecords /\ purge'.pc = "idle"
  BY <1>1 DEF IdlePurge, PurgeRecords
<1>6. Typed'
  BY <1>1, <1>4, <1>5 DEF ChatInv, Typed, TablesTyped
<1>7. TurnsOK'
  BY <1>1, <1>3 DEF TurnsOK, EventsFit, OwnThread
<1>8. JobsOK'
  BY <1>1, <1>3 DEF ChatInv, JobsOK, JobFits
<1>9. ThreadsOK'
  <2>1. \A h \in Threads : Range(messages[h]) \subseteq Turns
    BY HeldAreTurns DEF ChatInv
  <2> QED
    BY <1>1, <1>3, <2>1 DEF ChatInv, ThreadsOK, Live
<1>10. PurgeOK'
  BY <1>5 DEF PurgeOK
<1> QED
  BY <1>6, <1>7, <1>8, <1>9, <1>10 DEF ChatInv

-----------------------------------------------------------------------------
(* The theorems.                                                           *)

Bounded == chatFaults \in 0 .. ChatFaults

LEMMA ChatInitial == ConversationInit => ChatInv /\ Bounded
<1> SUFFICES ASSUME ConversationInit PROVE ChatInv /\ Bounded
  OBVIOUS
<1> USE DEF ConversationInit, ChatInit, MemoryInit
<1>1. IdleTurn \in TurnRecords
  BY EmptySeq DEF IdleTurn, TurnRecords
<1>2. NoJob \in JobRecords /\ NoMemory \in MemoryRecords /\ IdlePurge \in PurgeRecords
  BY MemoryAssumption DEF NoJob, JobRecords, NoMemory, MemoryRecords, IdlePurge, PurgeRecords
<1>3. Typed
  <2>1. messages \in [Threads -> Seq(Turns)]
    BY EmptySeq
  <2>2. chatDoc \in BOOLEAN /\ noLogs \in BOOLEAN
    BY Zenon
  <2>3. age \in [Turns -> 0 .. 2]
    OBVIOUS
  <2>4. thread \in [Threads -> Users \cup {Unused, Gone}]
    OBVIOUS
  <2>5. /\ turn \in [Turns -> TurnRecords] /\ job \in [Turns -> JobRecords]
        /\ memory \in [Threads -> MemoryRecords] /\ purge \in PurgeRecords
    BY <1>1, <1>2
  <2> QED
    BY <2>1, <2>2, <2>3, <2>4, <2>5 DEF Typed, TablesTyped
<1>4. TurnsOK
  BY EmptyRange, EmptySeq, ChatAssumption
  DEF TurnsOK, IdleTurn, EventsFit, OwnThread, Talking, Unused
<1>5. JobsOK
  BY MemoryAssumption DEF JobsOK, JobFits, NoJob
<1>6. ThreadsOK
  BY EmptyRange DEF ThreadsOK, NoMemory
<1>7. PurgeOK
  BY DEF PurgeOK, IdlePurge
<1>8. Bounded
  BY ChatBoundsAssumption DEF Bounded
<1> QED
  BY <1>3, <1>4, <1>5, <1>6, <1>7, <1>8 DEF ChatInv

LEMMA ChatStep == ChatInv /\ [ConversationNext]_chatVars => ChatInv'
<1> SUFFICES ASSUME ChatInv, [ConversationNext]_chatVars PROVE ChatInv'
  OBVIOUS
<1>1. ASSUME NEW t \in Turns, TurnStep(t), UNCHANGED <<memory, job, age, purge>>
      PROVE  ChatInv'
  BY <1>1, OpenNewThreadStep, OpenThreadStep, RecallStep, AnswerStep, OtherTurnSteps DEF TurnStep
<1>2. ASSUME NEW t \in Turns, SaveExchange(t), UNCHANGED purge PROVE ChatInv'
  BY <1>2, SaveExchangeStep
<1>3. ASSUME NEW t \in Turns, JobStep(t), UNCHANGED purge PROVE ChatInv'
  BY <1>3, StartJobStep, ReadThreadStep, FindMemoryStep, SaveMemoryStep DEF JobStep
<1>4. CASE (\E t \in Turns : GrowOld(t)) \/ (\E th \in Threads : MemoryGrowsOld(th))
           \/ UNCHANGED chatVars
  BY <1>4, GrowSteps
<1>5. CASE PurgeStep
  BY <1>5, PurgeSteps
<1>6. ASSUME UserStep, UNCHANGED <<memory, job, age, purge>> PROVE ChatInv'
  <2>1. ASSUME NEW th \in Threads, NEW u \in Users, CreateThread(th, u) PROVE ChatInv'
    BY <1>6, <2>1, CreateThreadStep
  <2>2. CASE (\E th \in Threads : DeleteThread(th)) \/ DeleteChatDocument \/ ToggleNoLogs
    BY <1>6, <2>2, DeleteSteps
  <2>3. ASSUME NEW t \in Turns, AnswerFails(t) \/ Disconnect(t) PROVE ChatInv'
    BY <1>6, <2>3, OtherTurnSteps
  <2> QED
    BY <1>6, <2>1, <2>2, <2>3 DEF UserStep
<1>7. ASSUME NEW t \in Turns, JobThrows(t) \/ JobStalls(t), UNCHANGED purge PROVE ChatInv'
  BY <1>7, RetryStep, JobStallsStep DEF JobThrows, JobQuiet
<1>8. CASE RestartApi
  BY <1>8, RestartStep
<1>9. CASE ChatFault
  BY <1>6, <1>7, <1>8, <1>9 DEF ChatFault
<1> QED
  BY <1>1, <1>2, <1>3, <1>4, <1>5, <1>9 DEF ConversationNext

LEMMA BoundedStep == Bounded /\ [ConversationNext]_chatVars => Bounded'
<1> SUFFICES ASSUME Bounded, [ConversationNext]_chatVars PROVE Bounded'
  OBVIOUS
<1>1. CASE PurgeStep
  BY <1>1 DEF PurgeStep, PurgeAccelerated, PurgeMessages, FindEmptyThreads, RemoveEmptyThreads,
              LoadMemories, PurgeMemory, PurgeQuiet, Bounded
<1>2. CASE ChatFault
  BY <1>2, ChatBoundsAssumption DEF ChatFault, Bounded
<1> QED
  BY <1>1, <1>2 DEF ConversationNext, GrowOld, MemoryGrowsOld, chatVars, Bounded

(* The inductive invariant of the conversations: turns, summarize jobs,    *)
(* threads and the purge know no exchange of another user or thread, hold  *)
(* only what was asked and fit what the tables say; faults stay bounded.   *)
THEOREM ConversationSafe == ConversationSpec => [](ChatInv /\ Bounded)
BY ChatInitial, ChatStep, BoundedStep, PTL DEF ConversationSpec

(* Every reachable state of the conversations is well typed: the attempts  *)
(* and stalls of a summarize job stay within what the queue allows, for    *)
(* any number of requests, threads, users, workers and faults.             *)
THEOREM ConversationTypes == ConversationSpec => []ConversationTypeOK
<1>1. ChatInv /\ Bounded => ConversationTypeOK
  BY DEF ChatInv, Bounded, ConversationTypeOK, Typed, TablesTyped, TurnRecords, JobRecords,
         MemoryRecords, PurgeRecords
<1> QED
  BY <1>1, ConversationSafe, PTL

(* A client reads at most one terminal event, and what is stored was       *)
(* answered by done.                                                       *)
THEOREM TerminalEvents == ConversationSpec => []OneTerminalEvent
<1>1. ChatInv => OneTerminalEvent
  BY DEF ChatInv, TurnsOK, EventsFit, ThreadsOK, OneTerminalEvent, Stored
<1> QED
  BY <1>1, ConversationSafe, PTL

LEMMA RemovalSparesKept ==
    ChatInv /\ [ConversationNext]_chatVars =>
        (purge.pc = "threads" /\ purge'.pc = "memories" => purge.kept \cap Stored \subseteq Stored')
<1> SUFFICES ASSUME ChatInv, [ConversationNext]_chatVars,
                    purge.pc = "threads", purge'.pc = "memories"
             PROVE  purge.kept \cap Stored \subseteq Stored'
  OBVIOUS
<1>1. RemoveEmptyThreads
  <2>1. purge' # purge
    OBVIOUS
  <2>2. purge'.pc # IdlePurge.pc
    BY DEF IdlePurge
  <2>3. CASE PurgeStep
    <3>1. ~(PurgeAccelerated \/ PurgeMessages \/ FindEmptyThreads \/ LoadMemories \/ PurgeMemory)
      BY DEF PurgeAccelerated, PurgeMessages, FindEmptyThreads, LoadMemories, PurgeMemory
    <3> QED
      BY <2>3, <3>1 DEF PurgeStep
  <2>4. CASE ChatFault
    BY <2>1, <2>2, <2>4 DEF ChatFault, RestartApi
  <2> QED
    BY <2>1, <2>3, <2>4 DEF ConversationNext, GrowOld, MemoryGrowsOld, chatVars
<1>2. ASSUME NEW s \in purge.kept, NEW th \in Threads, s \in Range(messages[th])
      PROVE  s \in Range(messages'[th])
  <2>1. th \notin purge.empty
    BY <1>2 DEF ChatInv, PurgeOK
  <2>2. messages'[th] = messages[th]
    BY <1>1, <2>1 DEF RemoveEmptyThreads, DropThreads
  <2> QED
    BY <1>2, <2>2
<1> QED
  BY <1>2 DEF Stored

(* The purge takes no exchange that was saved when it looked for empty     *)
(* threads.                                                                *)
THEOREM PurgeSpares == ConversationSpec => PurgeSparesKnownExchanges
<1>1. ChatInv /\ [ConversationNext]_chatVars =>
        [purge.pc = "threads" /\ purge'.pc = "memories" => purge.kept \cap Stored \subseteq Stored']_chatVars
  BY RemovalSparesKept
<1> QED
  BY <1>1, ConversationSafe, PTL DEF ConversationSpec, PurgeSparesKnownExchanges

-----------------------------------------------------------------------------
(* What a summary forgets.  While a job works on a thread and no other job *)
(* has written the memory since it read the exchanges, every stored        *)
(* exchange that the memory covers is among those it read.                 *)

Busy(j) == j.st \in {"completing", "saving"} /\ ~j.raced

SummariesFit ==
    /\ \A t \in Turns : \A s \in job[t].read : turn[s].pc = "over"
    /\ \A th \in Threads : \A s \in memory[th].covers : turn[s].pc = "over"
    /\ \A t \in Turns : Busy(job[t]) =>
           memory[JobThread(t)].covers \cap Range(messages[JobThread(t)]) \subseteq job[t].read

\* A request that is over stays as it is.
LEMMA OverStays ==
    ASSUME ChatInv, [ConversationNext]_chatVars, NEW x \in Turns, turn[x].pc = "over"
    PROVE  turn'[x].pc = "over" /\ turn'[x].thread = turn[x].thread
<1>1. turn \in [Turns -> TurnRecords]
  BY DEF ChatInv, Typed
<1>2. ASSUME NEW t \in Turns, turn[t].pc # "over", NEW new, turn' = [turn EXCEPT ![t] = new]
      PROVE  turn'[x] = turn[x]
  BY <1>1, <1>2
<1>3. ASSUME NEW t \in Turns, turn[t].pc # "over",
             Finish(t) \/ FinishWithError(t) \/ Fail(t) \/ (\E pc \in Talking : Go(t, pc))
      PROVE  turn'[x] = turn[x]
  BY <1>2, <1>3 DEF Finish, FinishWithError, Fail, Go
<1>4. ASSUME NEW t \in Turns, TurnStep(t) PROVE turn'[x] = turn[x]
  <2>1. ASSUME NEW th \in Threads, OpenNewThread(t, th) \/ OpenThread(t, th)
        PROVE  turn'[x] = turn[x]
    BY <1>2, <1>3, <2>1 DEF OpenNewThread, OpenThread
  <2>2. ASSUME Recall(t) \/ Answer(t) PROVE turn'[x] = turn[x]
    BY <1>2, <1>3, <2>2 DEF Recall, Answer
  <2>3. ASSUME CacheAnswer(t) \/ EndResponse(t) \/ CheckLogs(t) PROVE turn'[x] = turn[x]
    BY <1>3, <2>3 DEF CacheAnswer, EndResponse, CheckLogs, Talking
  <2> QED
    BY <1>4, <2>1, <2>2, <2>3 DEF TurnStep
<1>5. ASSUME NEW t \in Turns, SaveExchange(t) PROVE turn'[x] = turn[x]
  BY <1>3, <1>5 DEF SaveExchange, SaveMessage
<1>6. ASSUME NEW t \in Turns, JobStep(t) \/ JobThrows(t) \/ JobStalls(t) PROVE turn'[x] = turn[x]
  BY <1>6 DEF JobStep, StartJob, ReadThread, FindMemory, SaveMemory, JobThrows, JobStalls, JobQuiet
<1>7. ASSUME UserStep PROVE turn'[x] = turn[x]
  <2>1. ASSUME NEW t \in Turns, AnswerFails(t) \/ Disconnect(t) PROVE turn'[x] = turn[x]
    BY <1>2, <1>3, <2>1 DEF AnswerFails, Disconnect
  <2> QED
    BY <1>7, <2>1 DEF UserStep, CreateThread, DeleteThread, DeleteChatDocument, ToggleNoLogs
<1>8. CASE PurgeStep
  BY <1>8 DEF PurgeStep, PurgeAccelerated, PurgeMessages, FindEmptyThreads, RemoveEmptyThreads,
              LoadMemories, PurgeMemory, PurgeQuiet
<1>9. CASE RestartApi
  <2>1. turn'[x] = Finished(x, turn[x].events)
    BY <1>9 DEF RestartApi
  <2>2. turn[x].events \in Seq({"done", "error"}) /\ Len(turn[x].events) <= 1
    BY DEF ChatInv, Typed, TurnRecords, TurnsOK, EventsFit
  <2> QED
    BY <2>1, <2>2, FinishedFits
<1>10. CASE ChatFault
  BY <1>6, <1>7, <1>9, <1>10 DEF ChatFault
<1> QED
  BY <1>4, <1>5, <1>6, <1>8, <1>10 DEF ConversationNext, GrowOld, MemoryGrowsOld, chatVars

\* Only a request that saves adds an exchange, to its thread.
LEMMA NewExchanges ==
    ASSUME ChatInv, [ConversationNext]_chatVars, NEW th \in Threads
    PROVE  \A s \in Range(messages'[th]) :
               s \in Range(messages[th]) \/ (turn[s].pc = "saving" /\ turn[s].thread = th)
<1>1. messages \in [Threads -> Seq(Turns)]
  BY DEF ChatInv, Typed, TablesTyped
<1>2. ASSUME NEW set, DropThreads(set) PROVE Range(messages'[th]) \subseteq Range(messages[th])
  BY <1>2, EmptyRange DEF DropThreads
<1>3. ASSUME NEW t \in Turns, TurnStep(t) PROVE messages' = messages
  BY <1>3 DEF TurnStep, OpenNewThread, OpenThread, Recall, Answer, CacheAnswer, EndResponse,
              CheckLogs, chatTables
<1>4. ASSUME NEW t \in Turns, SaveExchange(t)
      PROVE  \A s \in Range(messages'[th]) :
                 s \in Range(messages[th]) \/ (turn[s].pc = "saving" /\ turn[s].thread = th)
  <2>1. turn[t].pc = "saving" /\ Range(Append(messages[th], t)) = Range(messages[th]) \cup {t}
    BY <1>4, HeldAreTurns, RangeOfAppend DEF SaveExchange, SaveMessage, ChatInv
  <2>2. \/ messages'[th] = messages[th]
        \/ messages'[th] = Append(messages[th], t) /\ turn[t].thread = th
    BY <1>1, <1>4 DEF SaveExchange, SaveMessage
  <2> QED
    BY <2>1, <2>2
<1>5. ASSUME NEW t \in Turns, JobStep(t) \/ JobThrows(t) \/ JobStalls(t) PROVE messages' = messages
  BY <1>5 DEF JobStep, StartJob, ReadThread, FindMemory, SaveMemory, JobThrows, JobStalls,
              JobQuiet, chatTables
<1>6. ASSUME UserStep PROVE Range(messages'[th]) \subseteq Range(messages[th])
  <2>1. ASSUME NEW t \in Turns, AnswerFails(t) \/ Disconnect(t) PROVE messages' = messages
    BY <2>1 DEF AnswerFails, Disconnect, chatTables
  <2> QED
    BY <1>2, <1>6, <2>1 DEF UserStep, CreateThread, DeleteThread, DeleteChatDocument, ToggleNoLogs
<1>7. CASE PurgeStep
  <2>1. CASE RemoveEmptyThreads
    BY <1>2, <2>1 DEF RemoveEmptyThreads
  <2>2. ASSUME NEW expired, RemoveMessages(expired)
        PROVE  Range(messages'[th]) \subseteq Range(messages[th])
    BY <2>2, ExpiredLeave
  <2> QED
    BY <1>7, <2>1, <2>2 DEF PurgeStep, PurgeAccelerated, PurgeMessages, FindEmptyThreads,
                            LoadMemories, PurgeMemory
<1>8. CASE ChatFault
  BY <1>5, <1>6, <1>8 DEF ChatFault, RestartApi, chatTables
<1> QED
  BY <1>3, <1>4, <1>5, <1>7, <1>8 DEF ConversationNext, GrowOld, MemoryGrowsOld, chatVars,
                                      chatTables

\* Only a save gives a memory another content.
LEMMA OtherMemories ==
    ASSUME ChatInv, [ConversationNext]_chatVars, \A t \in Turns : ~SaveMemory(t),
           NEW th \in Threads
    PROVE  memory'[th].covers = memory[th].covers \/ memory'[th] = NoMemory
<1>1. memory \in [Threads -> MemoryRecords]
  BY DEF ChatInv, Typed, TablesTyped
<1>2. ASSUME NEW t \in Turns, JobStep(t) \/ JobThrows(t) \/ JobStalls(t) PROVE memory' = memory
  BY <1>2 DEF JobStep, StartJob, ReadThread, FindMemory, JobThrows, JobStalls
<1>3. ASSUME NEW h \in Threads, MemoryGrowsOld(h) PROVE memory'[th].covers = memory[th].covers
  <2> DEFINE row == [memory[h] EXCEPT !.old = TRUE]
  <2>1. memory' = [memory EXCEPT ![h] = row] /\ memory[h] \in MemoryRecords
    BY <1>1, <1>3 DEF MemoryGrowsOld
  <2>2. row.covers = memory[h].covers
    BY <2>1 DEF MemoryRecords
  <2> HIDE DEF row
  <2> QED
    BY <1>1, <2>1, <2>2
<1>4. ASSUME NEW h, ForgetMemory(h) PROVE memory'[th] \in {memory[th], NoMemory}
  BY <1>1, <1>4 DEF ForgetMemory
<1>5. CASE PurgeStep
  <2>1. ASSUME NEW row \in purge.loaded, JudgeMemory(row[1], row[2])
        PROVE  memory'[th] \in {memory[th], NoMemory}
    BY <1>4, <2>1 DEF JudgeMemory
  <2> QED
    BY <1>5, <2>1 DEF PurgeStep, PurgeAccelerated, PurgeMessages, FindEmptyThreads,
                      RemoveEmptyThreads, LoadMemories, PurgeMemory
<1>6. CASE ChatFault
  BY <1>2, <1>6 DEF ChatFault, RestartApi
<1> QED
  BY <1>2, <1>3, <1>5, <1>6 DEF ConversationNext, GrowOld, SaveExchange, chatVars

\* A job ends, or goes on with what it has read.
Quieter(old, new) ==
    /\ new.read \subseteq old.read
    /\ Busy(new) => Busy(old) /\ new.read = old.read

\* Only a read gives a job other exchanges.
LEMMA OtherJobs ==
    ASSUME ChatInv, [ConversationNext]_chatVars,
           \A t \in Turns : ~SaveMemory(t) /\ ~ReadThread(t), NEW x \in Turns
    PROVE  Quieter(job[x], job'[x])
<1>1. job \in [Turns -> JobRecords] /\ job[x] \in JobRecords
  BY DEF ChatInv, Typed
<1>2. job' = job => Quieter(job[x], job'[x])
  BY DEF Quieter
<1>3. ASSUME NEW t \in Turns, NEW new, job' = [job EXCEPT ![t] = new], Quieter(job[t], new)
      PROVE  Quieter(job[x], job'[x])
  BY <1>1, <1>3 DEF Quieter
<1>4. ASSUME NEW t \in Turns, NEW st \in {"active", "queued"}, job' = [job EXCEPT ![t].st = st]
      PROVE  Quieter(job[x], job'[x])
  <2> DEFINE new == [job[t] EXCEPT !.st = st]
  <2>1. new.read = job[t].read /\ new.st = st
    BY <1>1 DEF JobRecords
  <2>2. job' = [job EXCEPT ![t] = new]
    BY <1>4
  <2> HIDE DEF new
  <2> QED
    BY <1>3, <2>1, <2>2 DEF Quieter, Busy
<1>5. ASSUME NEW t \in Turns, FindMemory(t) PROVE Quieter(job[x], job'[x])
  <2> DEFINE insert == memory[JobThread(t)] = NoMemory
             version == memory[JobThread(t)].version + 1
             new == [job[t] EXCEPT !.st = "saving", !.insert = insert, !.version = version]
  <2>1. job' = [job EXCEPT ![t] = new] /\ job[t] \in JobRecords /\ job[t].st = "completing"
    BY <1>1, <1>5 DEF FindMemory
  <2> HIDE DEF insert, version
  <2>2. new.read = job[t].read /\ new.raced = job[t].raced
    BY <2>1 DEF JobRecords
  <2> HIDE DEF new
  <2> QED
    BY <1>3, <2>1, <2>2 DEF Quieter, Busy
<1>6. ASSUME NEW t \in Turns, JobThrows(t) \/ JobStalls(t) PROVE Quieter(job[x], job'[x])
  <2> DEFINE thrown == [Return(t, job[t].tries + 1 < SummaryAttempts) EXCEPT !.tries = @ + 1]
             stalled == [Return(t, job[t].stalled < 1) EXCEPT !.stalled = @ + 1]
  <2>1. thrown.read = {} /\ thrown.st \in {"queued", "failed"}
    BY DEF Return, NoJob
  <2>2. stalled.read = {} /\ stalled.st \in {"queued", "failed"}
    BY DEF Return, NoJob
  <2>3. job' = [job EXCEPT ![t] = thrown] \/ job' = [job EXCEPT ![t] = stalled]
    BY <1>6 DEF JobThrows, Retry, JobStalls
  <2> HIDE DEF thrown, stalled
  <2> QED
    BY <1>3, <2>1, <2>2, <2>3 DEF Quieter, Busy
<1>7. ASSUME NEW t \in Turns, SaveExchange(t) PROVE Quieter(job[x], job'[x])
  BY <1>2, <1>4, <1>7 DEF SaveExchange, Enqueue
<1>8. ASSUME NEW h, ForgetMemory(h) PROVE Quieter(job[x], job'[x])
  <2> DEFINE new == [job[x] EXCEPT !.insert = TRUE]
  <2>1. job'[x] = new \/ job'[x] = job[x]
    BY <1>8 DEF ForgetMemory
  <2>2. new.read = job[x].read /\ new.raced = job[x].raced /\ new.st = job[x].st
    BY <1>1 DEF JobRecords
  <2> HIDE DEF new
  <2> QED
    BY <2>1, <2>2 DEF Quieter, Busy
<1>9. CASE PurgeStep
  BY <1>2, <1>8, <1>9 DEF PurgeStep, PurgeAccelerated, PurgeMessages, FindEmptyThreads,
                          RemoveEmptyThreads, LoadMemories, PurgeMemory, JudgeMemory
<1>10. ASSUME NEW t \in Turns, JobStep(t) PROVE Quieter(job[x], job'[x])
  BY <1>4, <1>5, <1>10 DEF JobStep, StartJob, JobGo
<1>11. CASE ChatFault
  BY <1>2, <1>6, <1>11 DEF ChatFault, RestartApi
<1> QED
  BY <1>2, <1>7, <1>9, <1>10, <1>11 DEF ConversationNext, GrowOld, MemoryGrowsOld, chatVars

LEMMA SummariesInitial == ConversationInit => SummariesFit
BY DEF ConversationInit, ChatInit, MemoryInit, SummariesFit, NoMemory, NoJob, Busy

\* Exchanges leave, memories and jobs keep or lose what they hold.
LEMMA SummariesKept ==
    ASSUME ChatInv, SummariesFit,
           \A x \in Turns : turn[x].pc = "over" =>
               turn'[x].pc = "over" /\ turn'[x].thread = turn[x].thread,
           \A th \in Threads : \A s \in Range(messages'[th]) :
               s \in Range(messages[th]) \/ turn[s].pc = "saving",
           \A th \in Threads :
               memory'[th].covers = memory[th].covers \/ memory'[th] = NoMemory,
           \A x \in Turns : Quieter(job[x], job'[x])
    PROVE  SummariesFit'
<1>1. \A th \in Threads : memory'[th].covers \subseteq memory[th].covers
  BY DEF NoMemory
<1>2. \A x \in Turns : \A s \in job'[x].read : turn'[s].pc = "over"
  <2>1. \A x \in Turns : job[x].read \subseteq Turns
    BY DEF ChatInv, Typed, JobRecords
  <2> QED
    BY <2>1 DEF SummariesFit, Quieter
<1>3. \A th \in Threads : \A s \in memory'[th].covers : turn'[s].pc = "over"
  BY <1>1, HeldAreTurns DEF SummariesFit, ChatInv
<1>4. ASSUME NEW x \in Turns, Busy(job'[x])
      PROVE  memory'[turn'[x].thread].covers \cap Range(messages'[turn'[x].thread])
               \subseteq job'[x].read
  <2>1. Busy(job[x]) /\ job'[x].read = job[x].read
    BY <1>4 DEF Quieter
  <2>2. turn[x].thread \in Threads /\ turn'[x].thread = turn[x].thread
    BY <2>1 DEF Busy, ChatInv, JobsOK
  <2>3. memory[turn[x].thread].covers \cap Range(messages[turn[x].thread]) \subseteq job[x].read
    BY <2>1 DEF SummariesFit, JobThread
  <2>4. \A s \in memory[turn[x].thread].covers : turn[s].pc = "over"
    BY <2>2 DEF SummariesFit
  <2> QED
    BY <1>1, <2>1, <2>2, <2>3, <2>4
<1> QED
  BY <1>2, <1>3, <1>4 DEF SummariesFit, JobThread

LEMMA ReadThreadFits ==
    ASSUME ChatInv, SummariesFit, NEW t \in Turns, ReadThread(t)
    PROVE  SummariesFit'
<1> DEFINE said == Range(messages[JobThread(t)])
           new == [job[t] EXCEPT !.st = "completing", !.read = said, !.raced = FALSE]
<1>1. /\ job' = [job EXCEPT ![t] = IF said = {} THEN DoneJob ELSE new]
      /\ UNCHANGED <<messages, turn, memory>> /\ job[t].st = "active"
  BY DEF ReadThread, JobQuiet, chatTables
<1>2. job \in [Turns -> JobRecords] /\ JobThread(t) \in Threads
  BY <1>1, JobHolds DEF ChatInv, Typed
<1>3. new.read = said
  BY <1>2 DEF JobRecords
<1>4. \A s \in said : turn[s].pc = "over"
  BY <1>2 DEF ChatInv, ThreadsOK
<1> HIDE DEF new
<1>5. \A x \in Turns : x # t => job'[x] = job[x]
  BY <1>1, <1>2
<1>6. job'[t] \in {DoneJob, new}
  BY <1>1, <1>2
<1>7. Busy(job'[t]) => job'[t].read = said
  BY <1>3, <1>6, DoneFits DEF Busy
<1>8. \A s \in job'[t].read : turn[s].pc = "over"
  BY <1>3, <1>4, <1>6, DoneFits
<1> QED
  BY <1>1, <1>5, <1>7, <1>8 DEF SummariesFit, JobThread

\* What a save forgets, an overlapping job had written; every other job on
\* the thread is from now on overlapped.
LEMMA SaveMemoryFits ==
    ASSUME ChatInv, SummariesFit, NEW t \in Turns, SaveMemory(t)
    PROVE  /\ SummariesFit'
           /\ \A h \in Threads :
                  (memory[h].covers \ memory'[h].covers) \cap Range(messages'[h]) # {} =>
                      job[t].st = "saving" /\ job'[t].st = "done" /\ job[t].raced
<1> DEFINE th == JobThread(t)
           row == [covers |-> job[t].read, version |-> job[t].version, old |-> FALSE]
<1>1. job[t].st = "saving" /\ UNCHANGED <<messages, turn>>
  BY DEF SaveMemory, JobQuiet, chatTables
<1>2. /\ job \in [Turns -> JobRecords] /\ th \in Threads
      /\ memory \in [Threads -> MemoryRecords]
  BY <1>1, JobHolds DEF ChatInv, Typed, TablesTyped
<1>3. CASE job[t].insert /\ memory[th] # NoMemory
  <2> DEFINE thrown == [Return(t, job[t].tries + 1 < SummaryAttempts) EXCEPT !.tries = @ + 1]
  <2>1. memory' = memory /\ job' = [job EXCEPT ![t] = thrown]
    BY <1>3 DEF SaveMemory, Retry
  <2>2. thrown.read = {} /\ thrown.st \in {"queued", "failed"}
    BY DEF Return, NoJob
  <2> HIDE DEF thrown
  <2>3. \A x \in Turns : Quieter(job[x], job'[x])
    BY <1>2, <2>1, <2>2 DEF Quieter, Busy
  <2>4. SummariesFit'
    BY <1>1, <2>1, <2>3, SummariesKept
  <2> QED
    BY <2>1, <2>4
<1>4. CASE ~(job[t].insert /\ memory[th] # NoMemory)
  <2> DEFINE others == {s \in Turns \ {t} :
                           JobThread(s) = th /\ job[s].st \in {"completing", "saving"}}
  <2>1. /\ memory' = [memory EXCEPT ![th] = row]
        /\ job' = [s \in Turns |-> IF s = t THEN DoneJob
                                   ELSE IF s \in others THEN [job[s] EXCEPT !.raced = TRUE]
                                   ELSE job[s]]
    BY <1>4 DEF SaveMemory
  <2>2. row.covers = job[t].read
    OBVIOUS
  <2> HIDE DEF row
  <2>3. \A h \in Threads : memory'[h] = IF h = th THEN row ELSE memory[h]
    BY <1>2, <2>1
  <2>4. job'[t] = DoneJob
    BY <2>1
  <2>5. ASSUME NEW s \in others PROVE job'[s].read = job[s].read /\ ~Busy(job'[s])
    <3> DEFINE marked == [job[s] EXCEPT !.raced = TRUE]
    <3>1. job'[s] = marked /\ job[s] \in JobRecords
      BY <1>2, <2>1
    <3>2. marked.read = job[s].read /\ marked.raced
      BY <3>1 DEF JobRecords
    <3> HIDE DEF marked
    <3> QED
      BY <3>1, <3>2 DEF Busy
  <2>6. \A s \in Turns : s # t /\ s \notin others => job'[s] = job[s]
    BY <2>1
  <2>7. ASSUME NEW s \in Turns, Busy(job'[s])
        PROVE  job'[s] = job[s] /\ turn[s].thread # th /\ turn[s].thread \in Threads
    <3>1. s # t /\ s \notin others
      BY <2>4, <2>5, <2>7, DoneFits DEF Busy
    <3>2. job'[s] = job[s] /\ job[s].st \in {"completing", "saving"}
      BY <2>6, <2>7, <3>1 DEF Busy
    <3> QED
      BY <3>1, <3>2 DEF JobThread, ChatInv, JobsOK
  <2>8. \A s \in Turns : job'[s].read \subseteq job[s].read
    BY <2>4, <2>5, <2>6, DoneFits
  <2>9. SummariesFit'
    <3>1. \A s \in Turns : \A x \in job'[s].read : turn'[x].pc = "over"
      BY <1>1, <2>8 DEF SummariesFit
    <3>2. \A h \in Threads : \A x \in memory'[h].covers : turn'[x].pc = "over"
      BY <1>1, <2>2, <2>3 DEF SummariesFit
    <3>3. \A s \in Turns : Busy(job'[s]) =>
              memory'[turn[s].thread].covers \cap Range(messages[turn[s].thread])
                  \subseteq job'[s].read
      BY <2>3, <2>7 DEF SummariesFit, JobThread
    <3> QED
      BY <1>1, <3>1, <3>2, <3>3 DEF SummariesFit, JobThread
  <2>10. ~job[t].raced => memory[th].covers \cap Range(messages[th]) \subseteq job[t].read
    BY <1>1 DEF SummariesFit, Busy
  <2> QED
    BY <1>1, <2>2, <2>3, <2>4, <2>9, <2>10, DoneFits
<1> QED
  BY <1>3, <1>4

LEMMA SummariesStep ==
    ASSUME ChatInv, SummariesFit, [ConversationNext]_chatVars
    PROVE  SummariesFit'
<1>1. CASE \E t \in Turns : ReadThread(t)
  BY <1>1, ReadThreadFits
<1>2. CASE \E t \in Turns : SaveMemory(t)
  BY <1>2, SaveMemoryFits
<1>3. CASE \A t \in Turns : ~SaveMemory(t) /\ ~ReadThread(t)
  <2>1. \A th \in Threads : memory'[th].covers = memory[th].covers \/ memory'[th] = NoMemory
    BY <1>3, OtherMemories
  <2>2. \A x \in Turns : Quieter(job[x], job'[x])
    BY <1>3, OtherJobs
  <2> QED
    BY <2>1, <2>2, OverStays, NewExchanges, SummariesKept
<1> QED
  BY <1>1, <1>2, <1>3

(* A summary forgets a stored exchange only if another job has written the *)
(* memory of the thread since this one read its exchanges.                 *)
THEOREM SummariesForget == ConversationSpec => SummaryForgetsOnlyByOverlap
<1>1. ConversationSpec => [](ChatInv /\ SummariesFit)
  BY ChatInitial, ChatStep, SummariesInitial, SummariesStep, PTL DEF ConversationSpec
<1>2. ASSUME ChatInv, SummariesFit, [ConversationNext]_chatVars, NEW th \in Threads,
             memory'[th] # NoMemory,
             (memory[th].covers \ memory'[th].covers) \cap Range(messages'[th]) # {}
      PROVE  \E t \in Turns : job[t].st = "saving" /\ job'[t].st = "done" /\ job[t].raced
  <2>1. PICK t \in Turns : SaveMemory(t)
    BY <1>2, OtherMemories
  <2> QED
    BY <1>2, <2>1, SaveMemoryFits
<1>3. ChatInv /\ SummariesFit /\ [ConversationNext]_chatVars =>
        [\A th \in Threads :
           LET lost == (memory[th].covers \ memory'[th].covers) \cap Range(messages'[th])
           IN memory'[th] # NoMemory /\ lost # {} =>
                \E t \in Turns : job[t].st = "saving" /\ job'[t].st = "done" /\ job[t].raced]_chatVars
  BY <1>2
<1> QED
  BY <1>1, <1>3, PTL DEF ConversationSpec, SummaryForgetsOnlyByOverlap

-----------------------------------------------------------------------------
(* Whose exchanges a memory holds.  A thread has one asker, although it    *)
(* may be gone, so what is said in it, what a job has read of it and what  *)
(* its memory covers are that asker's.                                     *)

OneAsker ==
    \A t, s \in Turns :
        turn[t].thread \in Threads /\ turn[s].thread = turn[t].thread => Asker[s] = Asker[t]

SaidThere ==
    /\ \A th \in Threads : \A s \in Range(messages[th]) \cup memory[th].covers : turn[s].thread = th
    /\ \A t \in Turns : /\ job[t].read # {} => turn[t].pc = "over"
                        /\ \A s \in job[t].read : turn[s].thread = turn[t].thread

LEMMA ThereInitial == ConversationInit => OneAsker /\ SaidThere
<1> SUFFICES ASSUME ConversationInit PROVE OneAsker /\ SaidThere
  OBVIOUS
<1>1. \A t \in Turns : turn[t].thread = Unused /\ job[t].read = {}
  BY DEF ConversationInit, ChatInit, MemoryInit, IdleTurn, NoJob
<1>2. \A th \in Threads : Range(messages[th]) = {} /\ memory[th].covers = {}
  BY EmptyRange DEF ConversationInit, ChatInit, MemoryInit, NoMemory
<1> QED
  BY <1>1, <1>2, ChatAssumption DEF OneAsker, SaidThere

\* A request comes to a thread once, and only as its user's.
LEMMA NewThreads ==
    ASSUME ChatInv, [ConversationNext]_chatVars, NEW x \in Turns, turn'[x].thread # turn[x].thread
    PROVE  turn[x].pc = "idle" /\ turn'[x].thread \in Threads /\ thread'[turn'[x].thread] = Asker[x]
<1>1. turn \in [Turns -> TurnRecords] /\ thread \in [Threads -> Users \cup {Unused, Gone}]
  BY DEF ChatInv, Typed, TablesTyped
<1>2. ASSUME NEW t \in Turns, NEW new, turn' = [turn EXCEPT ![t] = new], new.thread = turn[t].thread
      PROVE  FALSE
  BY <1>1, <1>2
<1>3. ASSUME NEW t \in Turns,
             Finish(t) \/ FinishWithError(t) \/ Fail(t) \/ (\E pc \in Talking : Go(t, pc))
      PROVE  FALSE
  <2>1. ASSUME NEW ev PROVE Finished(t, ev).thread = turn[t].thread
    BY DEF Finished, IdleTurn
  <2>2. ASSUME NEW pc, Go(t, pc) PROVE FALSE
    <3>1. [turn[t] EXCEPT !.pc = pc].thread = turn[t].thread
      BY <1>1 DEF TurnRecords
    <3> QED
      BY <1>2, <2>2, <3>1 DEF Go
  <2> QED
    BY <1>2, <1>3, <2>1, <2>2 DEF Finish, FinishWithError, Fail
<1>4. ASSUME NEW t \in Turns, TurnStep(t)
      PROVE  turn[x].pc = "idle" /\ turn'[x].thread \in Threads /\ thread'[turn'[x].thread] = Asker[x]
  <2>1. ASSUME NEW th \in Threads, turn' = [turn EXCEPT ![t] = [@ EXCEPT !.pc = "recalling", !.thread = th]],
               thread'[th] = Asker[t], turn[t].pc = "idle"
        PROVE  turn[x].pc = "idle" /\ turn'[x].thread \in Threads /\ thread'[turn'[x].thread] = Asker[x]
    <3>1. [turn[t] EXCEPT !.pc = "recalling", !.thread = th].thread = th
      BY <1>1 DEF TurnRecords
    <3>2. x = t /\ turn'[x].thread = th
      BY <1>1, <2>1, <3>1
    <3> QED
      BY <2>1, <3>2
  <2>2. ASSUME NEW th \in Threads, OpenNewThread(t, th) \/ OpenThread(t, th)
        PROVE  turn[x].pc = "idle" /\ turn'[x].thread \in Threads /\ thread'[turn'[x].thread] = Asker[x]
    BY <1>1, <1>3, <2>1, <2>2 DEF OpenNewThread, OpenThread, Finds, chatTables
  <2>3. ASSUME Recall(t) \/ Answer(t) PROVE FALSE
    <3>1. ASSUME NEW h PROVE [turn[t] EXCEPT !.pc = "answering", !.history = h].thread = turn[t].thread
      BY <1>1 DEF TurnRecords
    <3>2. ASSUME NEW pc, NEW ev PROVE [turn[t] EXCEPT !.pc = pc, !.events = ev].thread = turn[t].thread
      BY <1>1 DEF TurnRecords
    <3>3. CASE Recall(t)
      <4>1. \/ \E h : turn' = [turn EXCEPT ![t] = [turn[t] EXCEPT !.pc = "answering", !.history = h]]
            \/ Fail(t)
        BY <3>3 DEF Recall
      <4> QED
        BY <1>2, <1>3, <3>1, <4>1
    <3>4. CASE Answer(t)
      <4>1. \E pc, ev : turn' = [turn EXCEPT ![t] = [turn[t] EXCEPT !.pc = pc, !.events = ev]]
        BY <3>4 DEF Answer
      <4> QED
        BY <1>2, <3>2, <4>1
    <3> QED
      BY <2>3, <3>3, <3>4
  <2>4. ASSUME CacheAnswer(t) \/ EndResponse(t) \/ CheckLogs(t) PROVE FALSE
    BY <1>3, <2>4 DEF CacheAnswer, EndResponse, CheckLogs, Talking
  <2> QED
    BY <1>4, <2>2, <2>3, <2>4 DEF TurnStep
<1>5. ASSUME NEW t \in Turns, SaveExchange(t) PROVE FALSE
  BY <1>3, <1>5 DEF SaveExchange, SaveMessage
<1>6. ASSUME NEW t \in Turns, JobStep(t) \/ JobThrows(t) \/ JobStalls(t) PROVE FALSE
  BY <1>6 DEF JobStep, StartJob, ReadThread, FindMemory, SaveMemory, JobThrows, JobStalls, JobQuiet
<1>7. ASSUME UserStep PROVE FALSE
  <2>1. ASSUME NEW t \in Turns, AnswerFails(t) PROVE FALSE
    BY <1>3, <2>1 DEF AnswerFails
  <2>2. ASSUME NEW t \in Turns, Disconnect(t) PROVE FALSE
    <3>1. [turn[t] EXCEPT !.aborted = TRUE].thread = turn[t].thread
      BY <1>1 DEF TurnRecords
    <3> QED
      BY <1>2, <2>2, <3>1 DEF Disconnect
  <2> QED
    BY <1>7, <2>1, <2>2 DEF UserStep, CreateThread, DeleteThread, DeleteChatDocument, ToggleNoLogs
<1>8. CASE PurgeStep
  BY <1>8 DEF PurgeStep, PurgeAccelerated, PurgeMessages, FindEmptyThreads, RemoveEmptyThreads,
              LoadMemories, PurgeMemory, PurgeQuiet
<1>9. CASE RestartApi
  BY <1>9 DEF RestartApi, Finished, IdleTurn
<1>10. CASE ChatFault
  BY <1>6, <1>7, <1>9, <1>10 DEF ChatFault
<1> QED
  BY <1>4, <1>5, <1>6, <1>8, <1>10 DEF ConversationNext, GrowOld, MemoryGrowsOld, chatVars

\* A save leaves every job no more than it had read, and one memory what was read.
LEMMA SaveMemoryKeeps ==
    ASSUME ChatInv, NEW t \in Turns, SaveMemory(t)
    PROVE  /\ \A x \in Turns : job'[x].read \subseteq job[x].read
           /\ \A th \in Threads : \/ memory'[th].covers = memory[th].covers
                                  \/ th = turn[t].thread /\ memory'[th].covers = job[t].read
<1> DEFINE here == JobThread(t)
           row == [covers |-> job[t].read, version |-> job[t].version, old |-> FALSE]
           thrown == [Return(t, job[t].tries + 1 < SummaryAttempts) EXCEPT !.tries = @ + 1]
           others == {s \in Turns \ {t} : JobThread(s) = here /\ job[s].st \in {"completing", "saving"}}
<1>1. job \in [Turns -> JobRecords] /\ memory \in [Threads -> MemoryRecords]
  BY DEF ChatInv, Typed, TablesTyped
<1>2. CASE job[t].insert /\ memory[here] # NoMemory
  <2>1. memory' = memory /\ job' = [job EXCEPT ![t] = thrown]
    BY <1>2 DEF SaveMemory, Retry
  <2>2. thrown.read = {}
    BY DEF Return, NoJob
  <2> HIDE DEF thrown
  <2> QED
    BY <1>1, <2>1, <2>2
<1>3. CASE ~(job[t].insert /\ memory[here] # NoMemory)
  <2>1. /\ memory' = [memory EXCEPT ![here] = row]
        /\ job' = [s \in Turns |-> IF s = t THEN DoneJob
                                   ELSE IF s \in others THEN [job[s] EXCEPT !.raced = TRUE]
                                   ELSE job[s]]
    BY <1>3 DEF SaveMemory
  <2>2. ASSUME NEW x \in Turns PROVE job'[x].read \subseteq job[x].read
    <3>1. [job[x] EXCEPT !.raced = TRUE].read = job[x].read
      BY <1>1 DEF JobRecords
    <3> HIDE DEF others
    <3> QED
      BY <2>1, <3>1, DoneFits
  <2>3. row.covers = job[t].read
    OBVIOUS
  <2> HIDE DEF row
  <2>4. \A th \in Threads : memory'[th] = memory[th] \/ (th = here /\ memory'[th] = row)
    BY <1>1, <2>1
  <2> QED
    BY <2>2, <2>3, <2>4 DEF JobThread
<1> QED
  BY <1>2, <1>3

LEMMA OneAskerStep ==
    ASSUME ChatInv, OneAsker, [ConversationNext]_chatVars
    PROVE  OneAsker'
<1> SUFFICES ASSUME NEW t \in Turns, NEW s \in Turns, turn'[t].thread \in Threads,
                    turn'[s].thread = turn'[t].thread
             PROVE  Asker[s] = Asker[t]
  BY DEF OneAsker
<1>1. ChatInv'
  BY ChatStep
<1>2. \A x \in {t, s} : thread'[turn'[t].thread] \in {Asker[x], Gone}
  BY <1>1 DEF ChatInv, TurnsOK, OwnThread
<1>3. CASE turn'[t].thread # turn[t].thread \/ turn'[s].thread # turn[s].thread
  BY <1>2, <1>3, NewThreads, AskersAreUsers
<1>4. CASE turn'[t].thread = turn[t].thread /\ turn'[s].thread = turn[s].thread
  BY <1>4 DEF OneAsker
<1> QED
  BY <1>3, <1>4

LEMMA SaidThereStep ==
    ASSUME ChatInv, SummariesFit, SaidThere, [ConversationNext]_chatVars
    PROVE  SaidThere'
<1>1. job \in [Turns -> JobRecords] /\ \A t \in Turns : job[t].read \subseteq Turns
  BY DEF ChatInv, Typed, JobRecords
<1>2. \A th \in Threads : Range(messages[th]) \cup memory[th].covers \subseteq Turns
  BY HeldAreTurns DEF ChatInv
<1>3. ASSUME NEW x \in Turns, turn[x].pc \in {"over", "saving"} PROVE turn'[x].thread = turn[x].thread
  BY <1>3, NewThreads
<1>4. ASSUME NEW th \in Threads, NEW s \in Range(messages'[th]) PROVE turn'[s].thread = th
  <2>1. CASE s \in Range(messages[th])
    BY <1>2, <1>3, <2>1 DEF SaidThere, ChatInv, ThreadsOK
  <2>2. CASE turn[s].pc = "saving" /\ turn[s].thread = th
    <3>1. s \in Turns
      <4>1. messages'[th] \in Seq(Turns)
        BY ChatStep DEF ChatInv, Typed, TablesTyped
      <4> QED
        BY <1>4, <4>1, RangeOfSeq
    <3> QED
      BY <1>3, <2>2, <3>1
  <2> QED
    BY <1>4, <2>1, <2>2, NewExchanges
<1>5. \A t \in Turns : \A s \in job[t].read :
          turn'[t].thread = turn[t].thread /\ turn'[s].thread = turn[t].thread
  BY <1>1, <1>3 DEF SaidThere, SummariesFit
<1>6. \A th \in Threads : \A s \in memory[th].covers : turn'[s].thread = th
  BY <1>2, <1>3 DEF SaidThere, SummariesFit
<1>7. ASSUME \A x \in Turns : job'[x].read \subseteq job[x].read
      PROVE  \A x \in Turns : /\ job'[x].read # {} => turn'[x].pc = "over"
                              /\ \A s \in job'[x].read : turn'[s].thread = turn'[x].thread
  BY <1>5, <1>7, OverStays DEF SaidThere
<1>8. CASE \E t \in Turns : ReadThread(t)
  <2>1. PICK t \in Turns : ReadThread(t)
    BY <1>8
  <2>2. /\ UNCHANGED <<messages, turn, memory>> /\ job[t].st = "active"
        /\ \A x \in Turns : x # t => job'[x] = job[x]
        /\ job'[t].read \subseteq Range(messages[JobThread(t)])
    <3> DEFINE said == Range(messages[JobThread(t)])
               new == [job[t] EXCEPT !.st = "completing", !.read = said, !.raced = FALSE]
    <3>1. /\ job' = [job EXCEPT ![t] = IF said = {} THEN DoneJob ELSE new]
          /\ UNCHANGED <<messages, turn, memory>> /\ job[t].st = "active"
      BY <2>1 DEF ReadThread, JobQuiet, chatTables
    <3>2. new.read = said
      BY <1>1 DEF JobRecords
    <3> HIDE DEF new
    <3> QED
      BY <1>1, <3>1, <3>2, DoneFits
  <2>3. turn[t].pc = "over" /\ turn[t].thread \in Threads
    BY <2>2 DEF ChatInv, JobsOK
  <2> QED
    BY <2>2, <2>3 DEF SaidThere, JobThread
<1>9. CASE \E t \in Turns : SaveMemory(t)
  <2>1. PICK t \in Turns : SaveMemory(t)
    BY <1>9
  <2>2. /\ \A x \in Turns : job'[x].read \subseteq job[x].read
        /\ \A th \in Threads : memory'[th].covers = memory[th].covers
                               \/ (th = turn[t].thread /\ memory'[th].covers = job[t].read)
    BY <2>1, SaveMemoryKeeps
  <2> QED
    BY <1>4, <1>5, <1>6, <1>7, <2>2 DEF SaidThere
<1>10. CASE \A t \in Turns : ~SaveMemory(t) /\ ~ReadThread(t)
  <2>1. \A th \in Threads : memory'[th].covers \subseteq memory[th].covers
    BY <1>10, OtherMemories DEF NoMemory
  <2>2. \A x \in Turns : job'[x].read \subseteq job[x].read
    BY <1>10, OtherJobs DEF Quieter
  <2> QED
    BY <1>4, <1>6, <1>7, <2>1, <2>2 DEF SaidThere
<1> QED
  BY <1>8, <1>9, <1>10

(* Streamed prompts, threads and memories hold exchanges one user asked.   *)
THEOREM PrivatePrompts == ConversationSpec => []StreamedPromptIsPrivate
<1>1. ConversationSpec => [](ChatInv /\ SummariesFit /\ OneAsker /\ SaidThere)
  BY ChatInitial, ChatStep, SummariesInitial, SummariesStep, ThereInitial, OneAskerStep, SaidThereStep,
     PTL DEF ConversationSpec
<1>2. ASSUME ChatInv, OneAsker, SaidThere PROVE StreamedPromptIsPrivate
  <2>1. \A t \in Turns : \A s \in Range(turn[t].history) : Asker[s] = Asker[t]
    BY <1>2 DEF ChatInv, TurnsOK, OwnThread
  <2>2. ASSUME NEW t \in Turns, turn[t].pc = "answering", NEW s \in memory[turn[t].thread].covers
        PROVE  Asker[s] = Asker[t]
    <3>1. turn[t].thread \in Threads
      BY <1>2, <2>2 DEF ChatInv, TurnsOK, OwnThread, Talking
    <3>2. s \in Turns /\ turn[s].thread = turn[t].thread
      BY <1>2, <2>2, <3>1, HeldAreTurns DEF ChatInv, SaidThere
    <3> QED
      BY <1>2, <3>1, <3>2 DEF OneAsker
  <2>3. \A th \in Threads : Live(th) =>
            \A s \in Range(messages[th]) \cup memory[th].covers : Asker[s] = thread[th]
    BY <1>2 DEF ChatInv, ThreadsOK, Live
  <2> QED
    BY <2>1, <2>2, <2>3 DEF StreamedPromptIsPrivate
<1> QED
  BY <1>1, <1>2, PTL

(* How a request ends, and whose exchanges it is told.                     *)
THEOREM RequestsApart == ConversationSpec => []RequestsAreKeptApart
<1>1. OneTerminalEvent /\ StreamedPromptIsPrivate => RequestsAreKeptApart
  BY DEF RequestsAreKeptApart
<1> QED
  BY <1>1, TerminalEvents, PrivatePrompts, PTL

(* What neither the purge nor a summary forgets.                           *)
THEOREM KeptIsKept == ConversationSpec => NothingKeptIsLost
BY PurgeSpares, SummariesForget, PTL DEF NothingKeptIsLost
=============================================================================
