---------------------------- MODULE PreparedChat ----------------------------
(***************************************************************************)
(* Asking in two requests: chat/prepare stores the retrieved context and   *)
(* the prompts in Redis under a fresh request id; chat/execute takes the   *)
(* payload, calls the model and saves the exchange before it responds.     *)
(***************************************************************************)
EXTENDS Naturals, FiniteSets

CONSTANTS RequestIds,  \* payload keys, randomUUID
          Executes,    \* calls of chat/execute
          Callers,     \* members of the workspace who call it
          OldThreads,  \* threads of the document, each with a memory
          Owner        \* whose each of them is

Unnamed == "unnamed"
NewThread == "new thread"
ASSUME PreparedAssumption ==
    Owner \in [OldThreads -> Callers] /\ {Unnamed, NewThread} \cap OldThreads = {}

VARIABLES payload,   \* the Redis key of each request id, and the memory its prompt holds
          execute,   \* the state of each call's handler
          preparable \* the document row exists

preparedVars == <<payload, execute, preparable>>

IdleExecute == [pc |-> "idle", request |-> "none", thread |-> Unnamed, overlap |-> {}]

PreparedInit ==
    /\ payload = [r \in RequestIds |-> [st |-> "none", memory |-> Unnamed]]
    /\ execute = [e \in Executes |-> IdleExecute]
    /\ preparable = TRUE

-----------------------------------------------------------------------------
\* prepareForChat ends in SET with a time to live; every failure before it
\* stores nothing, and the semantic cache is probed, not used.  The body may
\* name a thread, which is passed on as it is: the memory there is of it goes
\* into the prompt, and into the response.
Prepare(r) ==
    /\ preparable /\ payload[r].st = "none"
    /\ \E memory \in OldThreads \cup {Unnamed} :
          payload' = [payload EXCEPT ![r] = [st |-> "stored", memory |-> memory]]
    /\ UNCHANGED <<execute, preparable>>

Spend(r) == payload' = [payload EXCEPT ![r].st = "gone"]

\* Redis drops the key when its time is over.
ExpirePayload(r) ==
    /\ payload[r].st = "stored"
    /\ Spend(r)
    /\ UNCHANGED <<execute, preparable>>

DeletePrepared ==
    /\ preparable
    /\ preparable' = FALSE
    /\ UNCHANGED <<payload, execute>>

ExecuteGo(e, pc) == execute' = [execute EXCEPT ![e].pc = pc]

\* The document is found, and the thread the body names, which has to be the
\* caller's, whichever the payload was prepared with; or a new one is made.
StartExecute(e, r, caller, thread) ==
    /\ execute[e].pc = "idle" /\ payload[r].st # "none"
    /\ IF preparable /\ (thread = NewThread \/ Owner[thread] = caller)
       THEN execute' = [execute EXCEPT ![e] = [@ EXCEPT !.pc = "reading", !.request = r,
                                                        !.thread = thread]]
       ELSE ExecuteGo(e, "failed")
    /\ UNCHANGED <<payload, preparable>>

\* getAndDelete: GET ...
ReadPayload(e) ==
    LET r == execute[e].request
        holders == {h \in Executes \ {e} : execute[h].request = r /\ execute[h].pc = "taking"}
    IN /\ execute[e].pc = "reading"
       /\ IF payload[r].st = "stored"
          THEN execute' = [x \in Executes |->
                 IF x = e THEN [execute[e] EXCEPT !.pc = "taking", !.overlap = @ \cup holders]
                 ELSE IF x \in holders THEN [execute[x] EXCEPT !.overlap = @ \cup {e}]
                 ELSE execute[x]]
          ELSE ExecuteGo(e, "failed")
       /\ UNCHANGED <<payload, preparable>>

\* Mutant: the payload is left to expire.
MutantTakePayload(e) ==
    /\ execute[e].pc = "taking"
    /\ ExecuteGo(e, "asking")
    /\ UNCHANGED <<payload, preparable>>

\* ... then DEL, in a second command.
TakePayload(e) ==
    /\ execute[e].pc = "taking"
    /\ Spend(execute[e].request)
    /\ ExecuteGo(e, "asking")
    /\ UNCHANGED preparable

\* The model answers, or throws: the payload is spent either way.
AskModel(e) ==
    /\ execute[e].pc = "asking"
    /\ \E next \in {"saving", "failed"} : ExecuteGo(e, next)
    /\ UNCHANGED <<payload, preparable>>

\* saveChatMessage is awaited here: it throws without the row of the document
\* or of the thread, which may have been deleted meanwhile.
SaveAnswer(e) ==
    /\ execute[e].pc = "saving"
    /\ \/ preparable /\ ExecuteGo(e, "saved")
       \/ ExecuteGo(e, "failed")
    /\ UNCHANGED <<payload, preparable>>

\* The audit row, then the response.
Respond(e) ==
    /\ execute[e].pc = "saved"
    /\ ExecuteGo(e, "responded")
    /\ UNCHANGED <<payload, preparable>>

PreparedNext ==
    \/ \E r \in RequestIds : Prepare(r) \/ ExpirePayload(r)
    \/ DeletePrepared
    \/ \E e \in Executes :
        \/ \E r \in RequestIds, caller \in Callers, thread \in OldThreads \cup {NewThread} :
               StartExecute(e, r, caller, thread)
        \/ ReadPayload(e) \/ TakePayload(e) \/ AskModel(e) \/ SaveAnswer(e) \/ Respond(e)

PreparedSpec == PreparedInit /\ [][PreparedNext]_preparedVars

-----------------------------------------------------------------------------
PreparedTypeOK ==
    /\ payload \in [RequestIds -> [st : {"none", "stored", "gone"},
                                   memory : OldThreads \cup {Unnamed}]]
    /\ execute \in [Executes -> [pc : {"idle", "reading", "taking", "asking", "saving", "saved",
                                       "responded", "failed"},
                                 request : RequestIds \cup {"none"},
                                 thread : OldThreads \cup {NewThread, Unnamed},
                                 overlap : SUBSET Executes]]
    /\ preparable \in BOOLEAN

Served(e) == execute[e].pc \in {"taking", "asking", "saving", "saved", "responded"}

(* A prepared payload is asked once: two calls are served the same one     *)
(* only if both had read it before either deleted it, so a double click    *)
(* may be answered twice and a later retry never is.                       *)
PayloadServedOnce ==
    \A e1, e2 \in Executes :
        /\ e1 # e2 /\ Served(e1) /\ Served(e2)
        /\ execute[e1].request = execute[e2].request
        => e2 \in execute[e1].overlap
=============================================================================
