------------------------------- MODULE RagCache -------------------------------
(***************************************************************************)
(* The semantic cache of chat answers (cache/rag-cache.service.ts) for one *)
(* document, in the Redis instance that all API processes share.           *)
(*                                                                         *)
(* A lookup (get) changes nothing: it returns an answer that some index    *)
(* lists and whose data key still lives.  Which one depends on embeddings, *)
(* so the model only says which answers can be returned (Servable), and a  *)
(* request appears when it misses, or bypasses the cache, and generates an *)
(* answer of its own.                                                      *)
(***************************************************************************)
EXTENDS Naturals, Sequences, Functions

CONSTANTS
    Answers,          \* answers generated, each stored under a UUID of its own
    Indexes,          \* the pairs jurisdiction:language of the document
    MaxEntries,       \* RAG_CACHE_MAX_ENTRIES_PER_DOCUMENT, the cap of an index
    Requests,         \* chat requests that may run at the same time
    Invalidations,    \* invalidateDocument() calls that may run at the same time
    MaxInvalidations  \* BOUND on the calls of invalidateDocument()

ASSUME MaxEntriesAssumption == MaxEntries \in Nat \ {0}
ASSUME CacheBoundAssumption == MaxInvalidations \in Nat

VARIABLES
    live,         \* answers whose data key exists
    expiring,     \* those whose data key was set with a time to live
    index,        \* each index list, newest answer first
    docKeys,      \* rag:doc:{id}:keys
    docIndexes,   \* rag:doc:{id}:indexes
    request,      \* the answer each request is generating, and for which index
    inval,        \* what each invalidation has read
    calls,        \* invalidations begun
    asked,        \* HISTORY: answers whose generation began
    stored,       \* HISTORY: answers stored
    raced,        \* HISTORY: answers stored while an invalidation was running
    superseded,   \* HISTORY: answers stored before a completed invalidation began
    outdated      \* HISTORY: answers begun before an invalidation completed

redis   == <<live, expiring, index, docKeys, docIndexes>>
history == <<asked, stored, raced, superseded, outdated>>
vars    == <<redis, request, inval, calls, history>>

Answering == [pc : {"answering"}, key : Answers, index : Indexes]
Idle      == [pc |-> "idle"]

Invalidating ==
    [pc : {"keys", "indexes", "exec"}, keys : SUBSET Answers,
     indexes : SUBSET Indexes, before : SUBSET Answers]

Running(v) == inval[v].pc # "idle"

-----------------------------------------------------------------------------
(* The request path: rag.service.ts, generateAnswerStream. *)

\* get() missed, or forceFresh bypassed it: the answer is generated from what
\* the document's chunks are now.
Ask(r) ==
    /\ request[r].pc = "idle"
    /\ \E k \in Answers \ asked, i \in Indexes :
        /\ request' = [request EXCEPT ![r] = [pc |-> "answering", key |-> k, index |-> i]]
        /\ asked' = asked \cup {k}
    /\ UNCHANGED <<redis, inval, calls, stored, raced, superseded, outdated>>

\* LPUSH and LTRIM 0 .. cap - 1.
Push(k, list) ==
    IF Len(list) < MaxEntries
    THEN <<k>> \o list
    ELSE SubSeq(<<k>> \o list, 1, MaxEntries)

\* The ghost part of a store: who stored what, and when.
Record(r) ==
    /\ request' = [request EXCEPT ![r] = Idle]
    /\ stored' = stored \cup {request[r].key}
    /\ raced' = IF \E v \in Invalidations : Running(v)
                THEN raced \cup {request[r].key} ELSE raced
    /\ UNCHANGED <<inval, calls, asked, superseded, outdated>>

\* Mutant: the answer is not recorded for invalidation.
MutantStoreUntracked(r) ==
    LET k == request[r].key  i == request[r].index
    IN /\ request[r].pc = "answering"
       /\ live' = live \cup {k}
       /\ expiring' = expiring \cup {k}
       /\ index' = [index EXCEPT ![i] = Push(k, @)]
       /\ UNCHANGED <<docKeys, docIndexes>>
       /\ Record(r)

\* Mutant: the answer is set without EX.
MutantStoreForever(r) ==
    LET k == request[r].key  i == request[r].index
    IN /\ request[r].pc = "answering"
       /\ live' = live \cup {k}
       /\ index' = [index EXCEPT ![i] = Push(k, @)]
       /\ docKeys' = docKeys \cup {k}
       /\ docIndexes' = docIndexes \cup {i}
       /\ UNCHANGED expiring
       /\ Record(r)

\* set(): SET EX, LPUSH, LTRIM and two SADD in one MULTI.
StoreAnswer(r) ==
    LET k == request[r].key  i == request[r].index
    IN /\ request[r].pc = "answering"
       /\ live' = live \cup {k}
       /\ expiring' = expiring \cup {k}
       /\ index' = [index EXCEPT ![i] = Push(k, @)]
       /\ docKeys' = docKeys \cup {k}
       /\ docIndexes' = docIndexes \cup {i}
       /\ Record(r)

\* Nothing is stored: nothing was found, the generation failed or was aborted,
\* or Redis rejected the transaction, which set() only logs.
StoreNothing(r) ==
    /\ request[r].pc = "answering"
    /\ request' = [request EXCEPT ![r] = Idle]
    /\ UNCHANGED <<redis, inval, calls, history>>

\* The time to live of a data key ends; the index lists keep the entry.
Expire(k) ==
    /\ k \in live \cap expiring
    /\ live' = live \ {k}
    /\ expiring' = expiring \ {k}
    /\ UNCHANGED <<index, docKeys, docIndexes, request, inval, calls, history>>

-----------------------------------------------------------------------------
(* invalidateDocument(): two reads, sent together but not in a transaction, *)
(* then one MULTI.                                                          *)

Begin(v) ==
    /\ ~Running(v)
    /\ calls < MaxInvalidations
    /\ calls' = calls + 1
    /\ inval' = [inval EXCEPT ![v] = [pc |-> "keys", keys |-> {}, indexes |-> {},
                                      before |-> stored]]
    /\ UNCHANGED <<redis, request, history>>

ReadKeys(v) ==
    /\ inval[v].pc = "keys"
    /\ inval' = [inval EXCEPT ![v].pc = "indexes", ![v].keys = docKeys]
    /\ UNCHANGED <<redis, request, calls, history>>

Completed(v) ==
    /\ inval' = [inval EXCEPT ![v] = Idle]
    /\ superseded' = superseded \cup inval[v].before
    /\ outdated' = asked
    /\ UNCHANGED <<request, calls, asked, stored, raced>>

\* Nothing to delete: an early return, which completes the call.
ReadIndexes(v) ==
    /\ inval[v].pc = "indexes"
    /\ IF inval[v].keys = {} /\ docIndexes = {}
       THEN Completed(v)
       ELSE /\ inval' = [inval EXCEPT ![v].pc = "exec", ![v].indexes = docIndexes]
            /\ UNCHANGED <<request, calls, history>>
    /\ UNCHANGED redis

Delete(v) ==
    /\ inval[v].pc = "exec"
    /\ live' = live \ inval[v].keys
    /\ expiring' = expiring \ inval[v].keys
    /\ index' = [i \in Indexes |-> IF i \in inval[v].indexes THEN <<>> ELSE index[i]]
    /\ docKeys' = {}
    /\ docIndexes' = {}
    /\ Completed(v)

\* Redis fails, or the process dies: the callers go on without an error.
Abort(v) ==
    /\ Running(v)
    /\ inval' = [inval EXCEPT ![v] = Idle]
    /\ UNCHANGED <<redis, request, calls, history>>

-----------------------------------------------------------------------------
Init ==
    /\ live = {} /\ expiring = {}
    /\ index = [i \in Indexes |-> <<>>]
    /\ docKeys = {} /\ docIndexes = {}
    /\ request = [r \in Requests |-> Idle]
    /\ inval = [v \in Invalidations |-> Idle]
    /\ calls = 0
    /\ asked = {} /\ stored = {} /\ raced = {} /\ superseded = {} /\ outdated = {}

RequestStep(r) == Ask(r) \/ StoreAnswer(r) \/ StoreNothing(r)

InvalidationStep(v) ==
    Begin(v) \/ ReadKeys(v) \/ ReadIndexes(v) \/ Delete(v) \/ Abort(v)

Next ==
    \/ \E r \in Requests : RequestStep(r)
    \/ \E v \in Invalidations : InvalidationStep(v)
    \/ \E k \in Answers : Expire(k)

Spec == Init /\ [][Next]_vars

\* Redis removes what has expired; nothing is assumed of clients or workers.
FairSpec == Spec /\ \A k \in Answers : WF_vars(Expire(k))

-----------------------------------------------------------------------------
(* Properties. *)

\* What get() can return: an index lists the answer and its data key lives.
Listed(k, i) == k \in Range(index[i])
Servable(k)  == k \in live /\ \E i \in Indexes : Listed(k, i)

TypeOK ==
    /\ live \subseteq stored /\ expiring \subseteq live
    /\ index \in [Indexes -> Seq(stored)]
    /\ \A i \in Indexes : Len(index[i]) <= MaxEntries
    /\ docKeys \subseteq stored /\ docIndexes \subseteq Indexes
    /\ request \in [Requests -> Answering \cup {Idle}]
    /\ inval \in [Invalidations -> Invalidating \cup {Idle}]
    /\ calls \in 0 .. MaxInvalidations
    /\ asked \subseteq Answers /\ stored \subseteq Answers
    /\ raced \subseteq stored /\ superseded \subseteq Answers
    /\ outdated \subseteq asked

\* Once an invalidateDocument() that met no error returned, get() returns no
\* answer that was stored before it began and while no invalidation was running.
\* Other invalidations and stores may overlap this one in any order.
SupersededIsGone == \A k \in superseded \ raced : ~Servable(k)

\* Why it holds.  Requests store answers of their own:
OwnAnswers ==
    /\ stored \subseteq asked
    /\ \A r \in Requests : request[r].pc = "answering" =>
          request[r].key \in asked \ stored
    /\ \A r, q \in Requests :
          /\ request[r].pc = "answering"
          /\ request[q].pc = "answering"
          /\ request[r].key = request[q].key
          => r = q

\* an answer that raced with nothing is in a recorded index or in none;
Recorded ==
    \A k \in stored \ raced, i \in Indexes : Listed(k, i) => i \in docIndexes

\* a running invalidation knows every earlier answer, and, once it has read the
\* indexes, all that list one;
Reaches ==
    \A v \in Invalidations : Running(v) =>
        /\ stored \ inval[v].before \subseteq raced
        /\ inval[v].before \subseteq stored
        /\ inval[v].pc = "exec" =>
              \A k \in inval[v].before \ raced, i \in Indexes :
                  Listed(k, i) => i \in inval[v].indexes

\* and what an invalidation has deleted is listed nowhere.
Unlisted ==
    /\ superseded \subseteq stored
    /\ \A k \in superseded \ raced, i \in Indexes : ~Listed(k, i)

Coverage == OwnAnswers /\ Recorded /\ Reaches /\ Unlisted

\* The same without the proviso, which is what docs/architecture/rag-cache.md
\* (Invalidation) and the comment on invalidateDocument promise.
InvalidationDeletesAll == \A k \in superseded : ~Servable(k)

\* A full index drops its oldest answers, as set() says ("FIFO cap"): an answer
\* just stored can be returned, whatever the index held.
StoredIsServable ==
    [][\A k \in Answers : k \in stored' \ stored => Servable(k)']_vars

\* After every step what was invalidated cannot be found, and what the step
\* stored can.
CacheIsHonest ==
    [][SupersededIsGone' /\ \A k \in Answers : k \in stored' \ stored => Servable(k)']_vars

\* Whatever raced or failed, an answer generated from what the document was
\* before an invalidation does not outlive its time to live.
OutdatedExpires == \A k \in Answers : (k \in outdated) ~> [](~Servable(k))
=============================================================================
