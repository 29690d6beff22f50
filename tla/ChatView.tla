------------------------------ MODULE ChatView ------------------------------
(***************************************************************************)
(* The chat tab of the browser: the list of messages it shows, the thread  *)
(* it has selected, and the requests in flight.  The answer to a question  *)
(* is written to the position its message had when it was asked, whatever  *)
(* the list holds by then.  The server is external: it keeps the exchanges *)
(* of each thread, and answers requests in any order.                      *)
(***************************************************************************)
EXTENDS Naturals, Sequences, Functions

CONSTANTS Questions,    \* each asked once
          ViewThreads,
          ViewBudget    \* bound: clicks of the user and failures

NoThread == "no thread"
ASSUME ViewAssumption == ViewBudget \in Nat /\ NoThread \notin ViewThreads

VARIABLES shown,      \* chatMessages
          selected,   \* activeThreadId
          asked,      \* what became of each question
          loads,      \* loadMessagesForThread: threads whose messages are awaited
          kept,       \* external: the exchanges saved in each thread that exists
          overlapped, \* history: the user moved on while something was in flight
          clicks

viewVars == <<shown, selected, asked, loads, kept, overlapped, clicks>>

Unasked == [pc |-> "unasked", thread |-> NoThread, at |-> 0]
Message(q, answer, streaming) ==
    [question |-> q, home |-> asked[q].thread, answer |-> answer, streaming |-> streaming]

ViewInit ==
    /\ shown = <<>> /\ selected = NoThread
    /\ asked = [q \in Questions |-> Unasked]
    /\ loads = {} /\ kept = [th \in {} |-> <<>>]
    /\ overlapped = FALSE /\ clicks = 0

Streams == {q \in Questions : asked[q].pc = "streaming"}
Pending == {q \in Questions : asked[q].pc \in {"creating", "preparing", "offered", "executing"}}

Click == clicks < ViewBudget /\ clicks' = clicks + 1
\* Switching the thread stops no request; asking stops the stream of before.
Overlap(flight) == overlapped' = (overlapped \/ flight # {} \/ loads # {})
Settle(q) == asked' = [asked EXCEPT ![q].pc = "over"]

-----------------------------------------------------------------------------
(* Threads.                                                                *)
\* Mutant: the messages of the thread before stay on show.
MutantNewConversation ==
    /\ Click
    /\ selected' = NoThread
    /\ Overlap(Streams \cup Pending)
    /\ UNCHANGED <<shown, asked, loads, kept>>

NewConversation ==
    /\ Click
    /\ selected' = NoThread /\ shown' = <<>>
    /\ Overlap(Streams \cup Pending)
    /\ UNCHANGED <<asked, loads, kept>>

\* onSelectThread: the old messages stay until the new ones have come.
SelectThread(th) ==
    /\ th \in DOMAIN kept /\ Click
    /\ selected' = th /\ loads' = loads \cup {th}
    /\ Overlap(Streams \cup Pending)
    /\ UNCHANGED <<shown, asked, kept>>

\* They were read at any time since: up to an exchange kept by now.
MessagesLoaded(th) ==
    /\ th \in loads
    /\ loads' = loads \ {th}
    /\ \E n \in 0 .. IF th \in DOMAIN kept THEN Len(kept[th]) ELSE 0 :
           shown' = [i \in 1 .. n |-> Message(kept[th][i], {kept[th][i]}, FALSE)]
    /\ UNCHANGED <<selected, asked, kept, overlapped, clicks>>

LoadFails(th) ==
    /\ th \in loads /\ Click
    /\ loads' = loads \ {th} /\ overlapped' = TRUE
    /\ UNCHANGED <<shown, selected, asked, kept>>

\* The thread on show is gone: as for a new conversation.
ThreadDeleted(th) ==
    /\ th \in DOMAIN kept /\ Click
    /\ kept' = Restrict(kept, DOMAIN kept \ {th})
    /\ IF selected = th THEN selected' = NoThread /\ shown' = <<>>
       ELSE UNCHANGED <<selected, shown>>
    /\ Overlap(Streams \cup Pending)
    /\ UNCHANGED <<asked, loads>>

-----------------------------------------------------------------------------
(* Questions.                                                              *)
\* runStreamingChat: a message that is being answered, appended or in the
\* place of the one that is asked again.
Place(q, pos, pc, others) ==
    LET at == IF pos = 0 THEN Len(shown) + 1 ELSE pos
        message == [Message(q, {}, TRUE) EXCEPT !.home = others[q].thread]
    IN /\ asked' = [others EXCEPT ![q].pc = pc, ![q].at = at]
       /\ shown' = IF pos = 0 THEN Append(shown, message)
                   ELSE IF pos <= Len(shown) THEN [shown EXCEPT ![pos] = message] ELSE shown

\* sendQuestion from the input, a transcript, or "get fresh response" of the
\* message at pos: what the last controller governs is aborted, a thread that
\* is being created is not.
SendQuestion(q, pos) ==
    LET Governed(p) == asked[p].pc \in {"streaming", "preparing", "executing"}
        others == [p \in Questions |->
                     IF p = q THEN [asked[q] EXCEPT !.thread = selected, !.at = pos]
                     ELSE IF Governed(p) THEN [asked[p] EXCEPT !.pc = "over"] ELSE asked[p]]
    IN /\ asked[q].pc = "unasked" /\ pos \in 0 .. Len(shown)
       /\ IF selected = NoThread
          THEN asked' = [others EXCEPT ![q].pc = "creating"] /\ UNCHANGED shown
          ELSE \/ Place(q, pos, "streaming", others)
               \/ asked' = [others EXCEPT ![q].pc = "preparing"] /\ UNCHANGED shown
       /\ Overlap(Pending)
       /\ UNCHANGED <<selected, loads, kept, clicks>>

\* createChatThread answers: the new thread becomes the selected one.
ThreadCreated(q, th) ==
    LET others == [asked EXCEPT ![q].thread = th]
    IN /\ asked[q].pc = "creating" /\ th \in ViewThreads \ DOMAIN kept
       /\ \A p \in Questions : asked[p].thread # th
       /\ selected' = th /\ kept' = [t \in DOMAIN kept \cup {th} |->
                                        IF t = th THEN <<>> ELSE kept[t]]
       /\ \/ Place(q, asked[q].at, "streaming", others)
          \/ asked' = [others EXCEPT ![q].pc = "preparing"] /\ UNCHANGED shown
       /\ UNCHANGED <<loads, overlapped, clicks>>

Put(q, message) ==
    shown' = IF asked[q].at <= Len(shown) THEN [shown EXCEPT ![asked[q].at] = message] ELSE shown
Here(q) == shown[asked[q].at]
Save(q) == \/ UNCHANGED kept
           \/ /\ asked[q].thread \in DOMAIN kept
              /\ kept' = [kept EXCEPT ![asked[q].thread] = Append(@, q)]

\* Events of the stream are not checked against the list they go to.
Chunk(q) ==
    /\ asked[q].pc = "streaming"
    /\ IF asked[q].at <= Len(shown)
       THEN Put(q, [Here(q) EXCEPT !.answer = @ \cup {q}]) ELSE UNCHANGED shown
    /\ UNCHANGED <<selected, asked, loads, kept, overlapped, clicks>>

Done(q) ==
    /\ asked[q].pc = "streaming"
    /\ Put(q, Message(q, {q}, FALSE))
    /\ Settle(q) /\ Save(q)
    /\ UNCHANGED <<selected, loads, overlapped, clicks>>

\* An error event; a connection that breaks leaves the message as it is.
StreamFails(q) ==
    /\ asked[q].pc = "streaming" /\ Click
    /\ \/ UNCHANGED shown
       \/ asked[q].at <= Len(shown) /\ Put(q, [Here(q) EXCEPT !.streaming = FALSE])
    /\ Settle(q)
    /\ UNCHANGED <<selected, loads, kept, overlapped>>

-----------------------------------------------------------------------------
(* The payload dialog of the developer mode.                               *)
\* chatPrepare answers, or its endpoint is disabled and the question streams.
Prepared(q) ==
    /\ asked[q].pc = "preparing"
    /\ \/ asked' = [p \in Questions |->
             IF p = q THEN [asked[q] EXCEPT !.pc = "offered"]
             ELSE IF asked[p].pc = "offered" THEN [asked[p] EXCEPT !.pc = "over"] ELSE asked[p]]
          /\ UNCHANGED shown
       \/ Place(q, asked[q].at, "streaming", asked)
    /\ UNCHANGED <<selected, loads, kept, overlapped, clicks>>

\* onLlmPayloadApproved, and onLlmPayloadCancelled.
CloseDialog(q) ==
    /\ asked[q].pc = "offered"
    /\ \/ asked' = [p \in Questions |->
             IF p = q THEN [asked[q] EXCEPT !.pc = "executing"]
             ELSE IF asked[p].pc \in {"streaming", "preparing", "executing"}
                  THEN [asked[p] EXCEPT !.pc = "over"] ELSE asked[p]]
       \/ Settle(q)
    /\ UNCHANGED <<shown, selected, loads, kept, overlapped, clicks>>

\* The answer is appended to whatever is on show, and closes any dialog.
Executed(q) ==
    /\ asked[q].pc = "executing"
    /\ shown' = Append(shown, Message(q, {q}, FALSE))
    /\ asked' = [p \in Questions |-> IF p = q \/ asked[p].pc = "offered"
                                    THEN [asked[p] EXCEPT !.pc = "over"] ELSE asked[p]]
    /\ Save(q)
    /\ UNCHANGED <<selected, loads, overlapped, clicks>>

RequestFails(q) ==
    /\ asked[q].pc \in {"creating", "preparing", "executing"} /\ Click
    /\ Settle(q)
    /\ UNCHANGED <<shown, selected, loads, kept, overlapped>>

ViewNext ==
    \/ NewConversation
    \/ \E th \in ViewThreads :
        SelectThread(th) \/ MessagesLoaded(th) \/ LoadFails(th) \/ ThreadDeleted(th)
    \/ \E q \in Questions :
        \/ \E pos \in 0 .. Len(shown) : SendQuestion(q, pos)
        \/ \E th \in ViewThreads : ThreadCreated(q, th)
        \/ Chunk(q) \/ Done(q) \/ StreamFails(q)
        \/ Prepared(q) \/ CloseDialog(q) \/ Executed(q) \/ RequestFails(q)

ViewSpec == ViewInit /\ [][ViewNext]_viewVars

-----------------------------------------------------------------------------
ViewTypeOK ==
    /\ shown \in Seq([question : Questions, home : ViewThreads \cup {NoThread},
                      answer : SUBSET Questions, streaming : BOOLEAN])
    /\ selected \in ViewThreads \cup {NoThread}
    /\ asked \in [Questions -> [pc : {"unasked", "creating", "preparing", "offered", "executing",
                                      "streaming", "over"},
                                thread : ViewThreads \cup {NoThread}, at : Nat]]
    /\ loads \subseteq ViewThreads
    /\ \A th \in DOMAIN kept : th \in ViewThreads /\ kept[th] \in Seq(Questions)
    /\ overlapped \in BOOLEAN /\ clicks \in 0 .. ViewBudget

(* As long as the user changed the view only while nothing was in flight,  *)
(* or asked again over a stream, every message on show belongs to the      *)
(* selected thread and holds no words of another question's answer.        *)
ShownBelongs ==
    ~overlapped /\ loads = {} =>
        \A i \in DOMAIN shown : /\ shown[i].home = selected
                                /\ shown[i].answer \subseteq {shown[i].question}
=============================================================================
