------------------------------ MODULE Answering ------------------------------
(***************************************************************************)
(* How a question is answered from what the index holds (rag.service.ts):  *)
(* generateAnswerStream, and prepareForChat with executePreparedChat.      *)
(* Beside them the index and the workspace's choice of a provider change.  *)
(*                                                                         *)
(* A chunk is blank until it has a vector and then has a rank: how similar *)
(* it is to the question, from 0 (at most the relaxed floor) over 1 (at    *)
(* most the floor) and 2 to 3 (above 0.7).  The texts, the prompts and the *)
(* citations are data; the cache, the payload and the web search have      *)
(* modules of their own.                                                   *)
(***************************************************************************)
EXTENDS Integers, FiniteSets, FiniteSetsExt

CONSTANTS
    Asked,         \* BOUND on the questions
    Providers,     \* the providers a workspace may choose
    OpenAI,        \* the one whose model is chatModel
    Overridden,    \* those with a LEGAL_REVIEW_MODEL of their own
    SeenRanks,     \* BOUND on the ranks of chunks and of legal sources
    ChunkIds,      \* BOUND on the chunks of the document
    ChoiceBudget,  \* BOUND on changes of the workspace's provider
    IndexBudget    \* BOUND on changes of the index

ASSUME AnsweringAssumption ==
    /\ OpenAI \in Providers /\ Overridden \subseteq Providers
    /\ {"none", "default", "chat"} \cap Providers = {}
    /\ SeenRanks \subseteq 0 .. 3 /\ ChoiceBudget \in Nat /\ IndexBudget \in Nat

VARIABLES
    legalMode,   \* LEGAL_REVIEW_MODE: no setting of a workspace carries it
    trigger,     \* WEB_SEARCH_TRIGGER, with a web search that is enabled
    chosen,      \* defaultLlmProvider
    chunkRanks,  \* the rank of each chunk, Blank or Absent
    answers,     \* where each question stands, and what it knows
    choices, indexings,  \* changes made so far
    rechosen,    \* HISTORY: the questions during which the provider changed
    reindexed    \* HISTORY: those whose reason was read before or after a change

answeringVars == <<legalMode, trigger, chosen, chunkRanks, answers,
                   choices, indexings, rechosen, reindexed>>

Absent  == -2
Blank   == -1
Ranks   == 0 .. 3
Floor   == 1
Relaxed == 0

Unread == [pc |-> "idle", path |-> "stream", todo |-> {}, provider |-> "none", reason |-> "unread",
           kept |-> 0, best |-> Absent, law |-> 0, asksWeb |-> FALSE, web |-> FALSE,
           found |-> "unread",
           model |-> "default", called |-> "none", confidence |-> "none", notFound |-> FALSE]

\* What a question learns replaces what it knew.
Know(q, what) ==
    answers' = [answers EXCEPT ![q] =
        [x \in DOMAIN @ |-> IF x \in DOMAIN what THEN what[x] ELSE @[x]]]

-----------------------------------------------------------------------------
(* The workspace and the index *)

ChooseProvider ==
    /\ choices < ChoiceBudget /\ choices' = choices + 1
    /\ chosen' \in Providers \ {chosen}
    /\ rechosen' = rechosen \cup {q \in Asked : answers[q].pc \notin {"idle", "replied"}}
    /\ UNCHANGED <<legalMode, trigger, chunkRanks, answers, indexings, reindexed>>

\* Between the reading of the reason and the search, whichever comes first.
Between(q) ==
    \/ answers[q].path = "stream" /\ answers[q].pc = "reading" /\ answers[q].reason # "unread"
    \/ answers[q].path = "prepare" /\ answers[q].pc \in {"searched", "prepared", "called"}

\* Chunks are replaced or deleted all at once, and get their vectors one by one.
IndexChanges ==
    /\ indexings < IndexBudget /\ indexings' = indexings + 1
    /\ \/ \E blank \in SUBSET ChunkIds :
             chunkRanks' = [c \in ChunkIds |-> IF c \in blank THEN Blank ELSE Absent]
       \/ \E c \in ChunkIds, rank \in SeenRanks :
             chunkRanks[c] = Blank /\ chunkRanks' = [chunkRanks EXCEPT ![c] = rank]
    /\ reindexed' = reindexed \cup {q \in Asked : Between(q)}
    /\ UNCHANGED <<legalMode, trigger, chosen, answers, choices, rechosen>>

\* getDocumentChunkStats and classifyChunkState
ChunkState ==
    IF \A c \in ChunkIds : chunkRanks[c] = Absent THEN "no_chunks"
    ELSE IF \E c \in ChunkIds : chunkRanks[c] = Blank THEN "embeddings_pending"
    ELSE "below_floor"

-----------------------------------------------------------------------------
(* From the question to its context *)

\* A stream reads the settings and the state of the index at once.
AskStream(q) ==
    /\ answers[q].pc = "idle"
    /\ Know(q, [pc |-> "reading", path |-> "stream", todo |-> {"settings", "chunks"}])
    /\ UNCHANGED <<legalMode, trigger, chosen, chunkRanks, choices, indexings,
                   rechosen, reindexed>>

AskPrepare(q) ==
    /\ answers[q].pc = "idle"
    /\ Know(q, [pc |-> "reading", path |-> "prepare", todo |-> {"chunks"}])
    /\ UNCHANGED <<legalMode, trigger, chosen, chunkRanks, choices, indexings,
                   rechosen, reindexed>>

ReadSettings(q) ==
    /\ answers[q].pc = "reading" /\ "settings" \in answers[q].todo
    /\ Know(q, [provider |-> chosen, todo |-> answers[q].todo \ {"settings"}])
    /\ UNCHANGED <<legalMode, trigger, chosen, chunkRanks, choices, indexings,
                   rechosen, reindexed>>

ReadChunkState(q) ==
    /\ answers[q].pc = "reading" /\ "chunks" \in answers[q].todo
    /\ Know(q, [reason |-> ChunkState, todo |-> answers[q].todo \ {"chunks"}])
    /\ UNCHANGED <<legalMode, trigger, chosen, chunkRanks, choices, indexings,
                   rechosen, reindexed>>

Above(floor) == {c \in ChunkIds : chunkRanks[c] > floor}

\* applyFloorWithFallback
Kept == IF Above(Floor) # {} THEN Above(Floor) ELSE Above(Relaxed)

Best == IF Kept = {} THEN Absent ELSE Max({chunkRanks[c] : c \in Kept})

\* shouldRunWebSearch
RunsWeb == trigger = "always" \/ (trigger = "fallback" /\ Cardinality(Kept) < 2)

\* The stream searches the web first and applies the gate to the results.
CallsWeb(q) == IF answers[q].path = "stream" THEN trigger # "off" ELSE RunsWeb

\* law is the rank of the best legal source above the floor, 0 for none.
Search(q, law, hits) ==
    /\ answers[q].pc = "reading" /\ answers[q].todo = {}
    /\ Know(q, [pc |-> "searched", kept |-> Cardinality(Kept), best |-> Best, law |-> law,
                asksWeb |-> CallsWeb(q),
                web |-> hits /\ RunsWeb, found |-> ChunkState])
    /\ UNCHANGED <<legalMode, trigger, chosen, chunkRanks, choices, indexings, rechosen, reindexed>>

-----------------------------------------------------------------------------
(* From the context to the answer *)

\* Mutant: without a model of its own a provider is sent chatModel.
MutantReviewModel(p) == IF p \in Overridden THEN p ELSE "chat"

\* LegalReviewModelResolver.resolve
ReviewModel(p) == IF p \in Overridden THEN p ELSE "default"

\* The payload keeps the model of the provider the workspace has now.
ResolveModel(q) ==
    /\ answers[q].pc = "searched" /\ answers[q].path = "prepare"
    /\ Know(q, [pc |-> "prepared", provider |-> chosen,
                model |-> IF legalMode THEN ReviewModel(chosen) ELSE "chat"])
    /\ UNCHANGED <<legalMode, trigger, chosen, chunkRanks, choices, indexings,
                   rechosen, reindexed>>

\* callLlmStructured looks the provider up again; the answer carries a confidence
\* of its own, low when it is degraded after a retry.
CallStructured(q, named) ==
    /\ Know(q, [pc |-> "called", called |-> chosen, confidence |-> "its own",
                model |-> IF named # "default" THEN named ELSE ReviewModel(chosen)])
    /\ UNCHANGED <<legalMode, trigger, chosen, chunkRanks, choices, indexings,
                   rechosen, reindexed>>

CallLegal(q) ==
    /\ answers[q].pc = "searched" /\ answers[q].path = "stream" /\ legalMode
    /\ CallStructured(q, ReviewModel(answers[q].provider))

CallPrepared(q) ==
    /\ answers[q].pc = "prepared"
    /\ CallStructured(q, answers[q].model)

\* The confidence of a streamed answer is that of its context.
Confidence(a) ==
    IF a.best = Floor THEN "low"
    ELSE IF a.best > 2 \/ a.law > 2 THEN "high"
    ELSE IF a.best > 1 \/ a.law > 1 \/ a.kept > 1 THEN "medium"
    ELSE "low"

CallStream(q) ==
    /\ answers[q].pc = "searched" /\ answers[q].path = "stream" /\ ~legalMode
    /\ Know(q, [pc |-> "called", called |-> answers[q].provider, model |-> "chat",
                confidence |-> Confidence(answers[q])])
    /\ UNCHANGED <<legalMode, trigger, chosen, chunkRanks, choices, indexings,
                   rechosen, reindexed>>

\* Only a stream counts what the web said.
Empty(a) == a.kept = 0 /\ a.law = 0 /\ (a.path = "stream" => ~a.web)

\* The execute reads the state of the chunks anew.
Reason(q) == IF answers[q].path = "stream" THEN answers[q].reason ELSE ChunkState

Reply(q) ==
    /\ answers[q].pc = "called"
    /\ Know(q, [pc |-> "replied", notFound |-> Empty(answers[q]),
                reason |-> IF Empty(answers[q]) THEN Reason(q) ELSE "unread"])
    /\ UNCHANGED <<legalMode, trigger, chosen, chunkRanks, choices, indexings,
                   rechosen, reindexed>>

\* An error ends either.
AnsweringFails(q) ==
    /\ answers[q].pc \notin {"idle", "replied"}
    /\ Know(q, [pc |-> "replied", notFound |-> FALSE, reason |-> "unread"])
    /\ UNCHANGED <<legalMode, trigger, chosen, chunkRanks, choices, indexings,
                   rechosen, reindexed>>

-----------------------------------------------------------------------------
AnsweringInit ==
    /\ legalMode \in BOOLEAN /\ trigger \in {"off", "fallback", "always"}
    /\ chosen \in Providers /\ chunkRanks = [c \in ChunkIds |-> Absent]
    /\ answers = [q \in Asked |-> Unread]
    /\ choices = 0 /\ indexings = 0 /\ rechosen = {} /\ reindexed = {}

AnsweringNext ==
    \/ \E q \in Asked :
          \/ AskStream(q) \/ AskPrepare(q) \/ ReadSettings(q) \/ ReadChunkState(q)
          \/ \E law \in {0} \cup (SeenRanks \cap {2, 3}), hits \in BOOLEAN : Search(q, law, hits)
          \/ ResolveModel(q) \/ CallStream(q) \/ CallLegal(q) \/ CallPrepared(q)
          \/ Reply(q) \/ AnsweringFails(q)
    \/ ChooseProvider \/ IndexChanges

AnsweringSpec == AnsweringInit /\ [][AnsweringNext]_answeringVars

-----------------------------------------------------------------------------
(* Properties. *)

Reasons == {"unread", "no_chunks", "embeddings_pending", "below_floor"}

AnsweringTypeOK ==
    /\ chosen \in Providers
    /\ chunkRanks \in [ChunkIds -> Ranks \cup {Blank, Absent}]
    /\ \A q \in Asked :
          /\ answers[q].pc \in {"idle", "reading", "searched", "prepared", "called", "replied"}
          /\ answers[q].reason \in Reasons /\ answers[q].found \in Reasons
          /\ answers[q].model \in Providers \cup {"default", "chat"}
          /\ answers[q].called \in Providers \cup {"none"}

\* "never fall back to this.chatModel for non-OpenAI providers" (callLlm): in
\* legal review mode a provider is asked for its default model or for the one
\* configured for it, unless the workspace chose another provider between two of
\* the readings of one request.
ModelFitsProvider ==
    \A q \in Asked \ rechosen :
        legalMode /\ answers[q].called # "none" =>
            answers[q].model \in {"default", answers[q].called}

\* "the diagnostic root cause" of an answer without context (executePreparedChat)
\* is the state the chunks were in when they were searched, however long ago,
\* unless they changed before or since the reason was read.
ReasonFitsSearch ==
    \A q \in Asked \ reindexed :
        answers[q].pc = "replied" /\ answers[q].notFound =>
            answers[q].reason = answers[q].found

\* An answer is made by the model that was chosen, and an answer that found
\* nothing says why.
AnswersAreExplained == ModelFitsProvider /\ ReasonFitsSearch
=============================================================================
