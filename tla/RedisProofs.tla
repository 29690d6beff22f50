----------------------------- MODULE RedisProofs -----------------------------
(***************************************************************************)
(* Proofs about what the processes share through Redis.  The cache, for any *)
(* sets of answers, indexes, requests and invalidations: its types, and that *)
(* an invalidation reaches every answer whose store it did not race with.  *)
(* The stream of progress, for any processes, consumer names and numbers of *)
(* messages and faults: its types and at-least-once delivery.              *)
(***************************************************************************)
EXTENDS RagCache, JobProgressStream, SequenceTheorems, WellFoundedInduction, TLAPS

-----------------------------------------------------------------------------
(* LPUSH followed by LTRIM. *)

\* What Push returns lists the new answer and otherwise only what was listed,
\* and stays within the cap.
LEMMA PushProperties ==
    ASSUME NEW S, NEW k \in S, NEW list \in Seq(S), Len(list) <= MaxEntries
    PROVE  /\ Push(k, list) \in Seq(S)
           /\ Len(Push(k, list)) <= MaxEntries
           /\ k \in Range(Push(k, list))
           /\ Range(Push(k, list)) \subseteq {k} \cup Range(list)
<1> DEFINE pushed == <<k>> \o list
<1>1. /\ <<k>> \in Seq(S) /\ Len(<<k>>) = 1 /\ <<k>>[1] = k
      /\ Len(list) \in Nat /\ list \in [1 .. Len(list) -> S]
  BY LenProperties
<1>2. /\ pushed \in Seq(S)
      /\ Len(pushed) = Len(list) + 1
      /\ \A n \in 1 .. Len(pushed) : pushed[n] = IF n <= 1 THEN k ELSE list[n - 1]
  BY <1>1, ConcatProperties
<1>3. CASE Len(list) < MaxEntries
  <2>1. Push(k, list) = pushed
    BY <1>3 DEF Push
  <2>2. DOMAIN pushed = 1 .. Len(list) + 1 /\ DOMAIN list = 1 .. Len(list)
    BY <1>1, <1>2, LenProperties
  <2>3. pushed[1] = k /\ 1 \in DOMAIN pushed
    BY <1>1, <1>2, <2>2
  <2>4. \A n \in DOMAIN pushed : pushed[n] = k \/ \E m \in DOMAIN list : pushed[n] = list[m]
    BY <1>1, <1>2, <2>2
  <2>5. Len(pushed) <= MaxEntries
    BY <1>1, <1>2, <1>3, MaxEntriesAssumption
  <2> QED
    BY <1>2, <2>1, <2>3, <2>4, <2>5 DEF Range
<1>4. CASE ~(Len(list) < MaxEntries)
  <2> DEFINE cut == SubSeq(pushed, 1, MaxEntries)
  <2>1. Push(k, list) = cut
    BY <1>4 DEF Push
  <2>2. MaxEntries \in 1 .. Len(pushed)
    BY <1>1, <1>2, <1>4, MaxEntriesAssumption
  <2>3. /\ cut \in Seq(S)
        /\ Len(cut) = MaxEntries
        /\ \A n \in 1 .. MaxEntries : cut[n] = pushed[n]
    <3>1. \A n \in 1 .. MaxEntries : pushed[n] \in S
      BY <1>2, <2>2, ElementOfSeq
    <3>2. MaxEntries \in Int /\ 1 \in Int /\ 1 <= MaxEntries /\ MaxEntries - 1 + 1 = MaxEntries
      BY MaxEntriesAssumption
    <3>3. /\ cut \in Seq(S)
          /\ Len(cut) = MaxEntries - 1 + 1
          /\ \A n \in 1 .. MaxEntries - 1 + 1 : cut[n] = pushed[1 + n - 1]
      <4> HIDE DEF pushed
      <4> QED
        BY <3>1, <3>2, SubSeqProperties
    <3>4. \A n \in 1 .. MaxEntries : 1 + n - 1 = n
      BY MaxEntriesAssumption
    <3> HIDE DEF cut, pushed
    <3> QED
      BY <3>2, <3>3, <3>4
  <2>4. DOMAIN cut = 1 .. MaxEntries /\ DOMAIN list = 1 .. Len(list)
    BY <1>1, <2>3, LenProperties
  <2>5. cut[1] = k /\ 1 \in DOMAIN cut
    BY <1>2, <2>2, <2>3, <2>4, MaxEntriesAssumption
  <2>6. \A n \in DOMAIN cut : cut[n] = k \/ \E m \in DOMAIN list : cut[n] = list[m]
    BY <1>1, <1>2, <2>2, <2>3, <2>4, MaxEntriesAssumption
  <2> HIDE DEF cut
  <2>7. k \in Range(cut) /\ Range(cut) \subseteq {k} \cup Range(list)
    BY <2>5, <2>6 DEF Range
  <2> QED
    BY <2>1, <2>3, <2>7, MaxEntriesAssumption
<1> QED
  BY <1>3, <1>4

-----------------------------------------------------------------------------
(* Types. *)

\* Every reachable state is type-correct: what an index lists was stored and
\* what lives expires, and no index outgrows its cap.
THEOREM CacheTypes == Spec => []TypeOK
<1>1. Init => TypeOK
  <2> SUFFICES ASSUME Init PROVE TypeOK
    OBVIOUS
  <2>1. \A i \in Indexes : index[i] = <<>> /\ Len(index[i]) = 0 /\ <<>> \in Seq(stored)
    BY EmptySeq DEF Init
  <2> QED
    BY <2>1, MaxEntriesAssumption, CacheBoundAssumption DEF Init, TypeOK
<1>2. TypeOK /\ [Next]_vars => TypeOK'
  <2> SUFFICES ASSUME TypeOK, [Next]_vars PROVE TypeOK'
    OBVIOUS
  <2> USE DEF TypeOK, redis, history
  <2>1. ASSUME NEW r \in Requests, Ask(r) PROVE TypeOK'
    BY <2>1 DEF Ask, Answering, Idle
  <2>2. ASSUME NEW r \in Requests, StoreAnswer(r) PROVE TypeOK'
    <3> DEFINE k == request[r].key  i == request[r].index
    <3>1. k \in Answers /\ i \in Indexes
      BY <2>2 DEF StoreAnswer, Answering, Idle
    <3>2. stored' = stored \cup {k} /\ stored \subseteq stored' /\ k \in stored'
      BY <2>2 DEF StoreAnswer, Record
    <3>3. \A j \in Indexes : index[j] \in Seq(stored')
      BY <3>2, SeqMonotonic
    <3>4. /\ Push(k, index[i]) \in Seq(stored')
          /\ Len(Push(k, index[i])) <= MaxEntries
      <4> HIDE DEF k, i
      <4> QED
        BY <3>1, <3>2, <3>3, PushProperties
    <3>5. index' = [index EXCEPT ![i] = Push(k, index[i])]
      BY <2>2 DEF StoreAnswer
    <3>6. /\ index' \in [Indexes -> Seq(stored')]
          /\ \A j \in Indexes : Len(index'[j]) <= MaxEntries
      <4> HIDE DEF k, i
      <4> QED
        BY <3>1, <3>3, <3>4, <3>5
    <3>7. live' \subseteq stored' /\ expiring' \subseteq live'
      BY <2>2, <3>2 DEF StoreAnswer
    <3>8. docKeys' \subseteq stored' /\ docIndexes' \subseteq Indexes
      BY <2>2, <3>1, <3>2 DEF StoreAnswer
    <3>9. /\ request' \in [Requests -> Answering \cup {Idle}]
          /\ raced' \subseteq stored' /\ superseded' \subseteq Answers
          /\ UNCHANGED <<inval, calls, asked, outdated>>
          /\ stored' \subseteq Answers
      BY <2>2, <3>1, <3>2 DEF StoreAnswer, Record
    <3> QED
      BY <3>6, <3>7, <3>8, <3>9
  <2>3. ASSUME NEW r \in Requests, StoreNothing(r) PROVE TypeOK'
    BY <2>3 DEF StoreNothing
  <2>4. ASSUME NEW v \in Invalidations, Begin(v) PROVE TypeOK'
    BY <2>4, CacheBoundAssumption DEF Begin, Invalidating, Running
  <2>5. ASSUME NEW v \in Invalidations, ReadKeys(v) PROVE TypeOK'
    <3>1. inval[v] \in Invalidating
      BY <2>5 DEF ReadKeys, Idle
    <3>2. [inval[v] EXCEPT !.pc = "indexes", !.keys = docKeys] \in Invalidating
      BY <3>1 DEF Invalidating
    <3> QED
      BY <2>5, <3>2 DEF ReadKeys
  <2>6. ASSUME NEW v \in Invalidations, ReadIndexes(v) PROVE TypeOK'
    <3>1. inval[v] \in Invalidating
      BY <2>6 DEF ReadIndexes, Idle
    <3>2. [inval[v] EXCEPT !.pc = "exec", !.indexes = docIndexes] \in Invalidating
      BY <3>1 DEF Invalidating
    <3>3. inval[v].before \subseteq Answers
      BY <3>1 DEF Invalidating
    <3>4. CASE inval[v].keys = {} /\ docIndexes = {}
      BY <2>6, <3>3, <3>4 DEF ReadIndexes, Completed
    <3>5. CASE ~(inval[v].keys = {} /\ docIndexes = {})
      BY <2>6, <3>2, <3>5 DEF ReadIndexes
    <3> QED
      BY <3>4, <3>5
  <2>7. ASSUME NEW v \in Invalidations, Delete(v) PROVE TypeOK'
    <3>1. inval[v] \in Invalidating
      BY <2>7 DEF Delete, Idle
    <3>2. inval[v].before \subseteq Answers
      BY <3>1 DEF Invalidating
    <3>3. <<>> \in Seq(stored) /\ Len(<<>>) = 0 /\ Len(<<>>) <= MaxEntries
      BY EmptySeq, MaxEntriesAssumption
    <3>4. /\ index' \in [Indexes -> Seq(stored)]
          /\ \A i \in Indexes : Len(index'[i]) <= MaxEntries
      BY <2>7, <3>3 DEF Delete
    <3>5. UNCHANGED <<request, calls, asked, stored, raced>>
      BY <2>7 DEF Delete, Completed
    <3>6. /\ inval' \in [Invalidations -> Invalidating \cup {Idle}]
          /\ superseded' \subseteq Answers /\ outdated' \subseteq asked
      BY <2>7, <3>2 DEF Delete, Completed
    <3>7. /\ live' \subseteq stored /\ expiring' \subseteq live'
          /\ docKeys' = {} /\ docIndexes' = {}
      BY <2>7 DEF Delete
    <3> QED
      BY <3>4, <3>5, <3>6, <3>7
  <2>8. ASSUME NEW v \in Invalidations, Abort(v) PROVE TypeOK'
    BY <2>8 DEF Abort, Running
  <2>9. ASSUME NEW k \in Answers, Expire(k) PROVE TypeOK'
    BY <2>9 DEF Expire
  <2>10. CASE UNCHANGED vars
    BY <2>10 DEF vars
  <2> QED
    BY <2>1, <2>2, <2>3, <2>4, <2>5, <2>6, <2>7, <2>8, <2>9, <2>10
       DEF Next, RequestStep, InvalidationStep
<1> QED
  BY <1>1, <1>2, PTL DEF Spec

-----------------------------------------------------------------------------
(* Coverage is inductive: one lemma per kind of step. *)

\* An index lists only answers that were stored.
LEMMA ListedAreStored ==
    ASSUME TypeOK, NEW i \in Indexes, NEW k, Listed(k, i)
    PROVE  k \in stored
<1>1. index[i] \in Seq(stored)
  BY DEF TypeOK
<1> QED
  BY <1>1, LenProperties, ElementOfSeq DEF Listed, Range

\* Beginning an answer concerns OwnAnswers only: the answer is a new one.
LEMMA AskCovers ==
    ASSUME TypeOK, Coverage, NEW r \in Requests, Ask(r)
    PROVE  Coverage'
<1> USE DEF Coverage
<1>1. PICK k \in Answers \ asked, i \in Indexes :
        /\ request' = [request EXCEPT ![r] = [pc |-> "answering", key |-> k, index |-> i]]
        /\ asked' = asked \cup {k}
  BY DEF Ask
<1>2. UNCHANGED <<redis, inval, stored, raced, superseded>>
  BY DEF Ask
<1>3. OwnAnswers'
  <2>1. request'[r].key = k /\ \A q \in Requests \ {r} : request'[q] = request[q]
    BY <1>1 DEF TypeOK
  <2>2. k \notin stored
    BY DEF OwnAnswers
  <2> QED
    BY <1>1, <1>2, <2>1, <2>2 DEF OwnAnswers
<1>4. Recorded' /\ Reaches' /\ Unlisted'
  BY <1>2 DEF redis, Recorded, Reaches, Unlisted, Listed, Running
<1> QED
  BY <1>3, <1>4

\* A stored answer is recorded with its index, and it raced with whatever
\* invalidation is running.
LEMMA StoreCovers ==
    ASSUME TypeOK, Coverage, NEW r \in Requests, StoreAnswer(r)
    PROVE  Coverage'
<1> DEFINE k == request[r].key  i == request[r].index
<1> USE DEF Coverage
<1>1. k \in Answers /\ i \in Indexes /\ k \in asked /\ k \notin stored
  BY DEF StoreAnswer, TypeOK, Answering, Idle, OwnAnswers
<1>2. /\ stored' = stored \cup {k}
      /\ docIndexes' = docIndexes \cup {i}
      /\ index' = [index EXCEPT ![i] = Push(k, index[i])]
      /\ request' = [request EXCEPT ![r] = Idle]
      /\ raced' = IF \E v \in Invalidations : Running(v) THEN raced \cup {k} ELSE raced
      /\ UNCHANGED <<inval, asked, superseded>>
  BY DEF StoreAnswer, Record
<1>3. \A a, j : j \in Indexes /\ Listed(a, j)' => Listed(a, j) \/ (a = k /\ j = i)
  <2>1. Range(Push(k, index[i])) \subseteq {k} \cup Range(index[i])
    <3>1. index[i] \in Seq(stored \cup {k}) /\ Len(index[i]) <= MaxEntries
      BY <1>1, SeqMonotonic DEF TypeOK
    <3> HIDE DEF k, i
    <3> QED
      BY <3>1, PushProperties
  <2>2. \A j \in Indexes : index'[j] = IF j = i THEN Push(k, index[i]) ELSE index[j]
    BY <1>1, <1>2 DEF TypeOK
  <2> HIDE DEF k, i
  <2> QED
    BY <1>1, <2>1, <2>2 DEF Listed
<1>4. OwnAnswers'
  <2>1. /\ request'[r].pc # "answering"
        /\ \A q \in Requests \ {r} : request'[q] = request[q]
    BY <1>2 DEF TypeOK, Idle
  <2>2. \A q \in Requests \ {r} : request[q].pc = "answering" => request[q].key # k
    BY DEF OwnAnswers, StoreAnswer
  <2> HIDE DEF k, i
  <2> QED
    BY <1>1, <1>2, <2>1, <2>2 DEF OwnAnswers
<1> HIDE DEF k, i
<1>5. Recorded'
  BY <1>1, <1>2, <1>3, ListedAreStored DEF Recorded
<1>6. Reaches'
  <2> SUFFICES ASSUME NEW v \in Invalidations, Running(v)
               PROVE  /\ stored' \ inval[v].before \subseteq raced'
                      /\ inval[v].before \subseteq stored'
                      /\ inval[v].pc = "exec" =>
                            \A a \in inval[v].before \ raced', j \in Indexes :
                                Listed(a, j)' => j \in inval[v].indexes
    BY <1>2 DEF Reaches, Running
  <2>1. raced' = raced \cup {k}
    BY <1>2
  <2>2. k \notin inval[v].before
    BY <1>1 DEF Reaches
  <2> QED
    BY <1>2, <1>3, <2>1, <2>2 DEF Reaches
<1>7. Unlisted'
  <2>1. superseded \subseteq stored
    BY DEF Unlisted
  <2> QED
    BY <1>1, <1>2, <1>3, <2>1 DEF Unlisted
<1> QED
  BY <1>4, <1>5, <1>6, <1>7

\* Dropping an answer frees its request and changes nothing else.
LEMMA NothingCovers ==
    ASSUME TypeOK, Coverage, NEW r \in Requests, StoreNothing(r)
    PROVE  Coverage'
<1>1. /\ request' = [request EXCEPT ![r] = Idle]
      /\ UNCHANGED <<redis, inval, history>>
  BY DEF StoreNothing
<1>2. OwnAnswers'
  <2>1. request'[r].pc # "answering" /\ \A q \in Requests \ {r} : request'[q] = request[q]
    BY <1>1 DEF TypeOK, Idle
  <2> QED
    BY <1>1, <2>1 DEF Coverage, OwnAnswers, history
<1>3. Recorded' /\ Reaches' /\ Unlisted'
  BY <1>1 DEF Coverage, redis, history, Recorded, Reaches, Unlisted, Listed, Running
<1> QED
  BY <1>2, <1>3 DEF Coverage

\* An invalidation that begins knows all that is stored; one that ends early
\* for any reason has nothing to know.
LEMMA BeginCovers ==
    ASSUME TypeOK, Coverage, NEW v \in Invalidations, Begin(v) \/ ReadKeys(v) \/ Abort(v)
    PROVE  Coverage'
<1>1. UNCHANGED <<redis, request, history>>
  BY DEF Begin, ReadKeys, Abort
<1>2. \A w \in Invalidations \ {v} : inval'[w] = inval[w]
  BY DEF Begin, ReadKeys, Abort, TypeOK
<1>3. Running(v)' => /\ inval'[v].pc # "exec"
                     /\ \/ inval'[v].before = stored
                        \/ Running(v) /\ inval'[v].before = inval[v].before
  <2>1. CASE Begin(v)
    BY <2>1 DEF Begin, TypeOK
  <2>2. CASE ReadKeys(v)
    BY <2>2 DEF ReadKeys, Running, TypeOK, Invalidating, Idle
  <2>3. CASE Abort(v)
    BY <2>3 DEF Abort, Running, TypeOK, Idle
  <2> QED
    BY <2>1, <2>2, <2>3
<1>4. OwnAnswers' /\ Recorded' /\ Unlisted'
  BY <1>1 DEF Coverage, redis, history, OwnAnswers, Recorded, Unlisted, Listed
<1>5. Reaches'
  BY <1>1, <1>2, <1>3 DEF Coverage, redis, history, Reaches, Running, Listed
<1> QED
  BY <1>4, <1>5 DEF Coverage

\* Reading the recorded indexes reaches every answer that raced with nothing;
\* if there is none, no earlier answer is listed.
LEMMA ReadIndexesCovers ==
    ASSUME TypeOK, Coverage, NEW v \in Invalidations, ReadIndexes(v)
    PROVE  Coverage'
<1> USE DEF Coverage
<1>1. /\ UNCHANGED <<redis, request, asked, stored, raced>>
      /\ \A w \in Invalidations \ {v} : inval'[w] = inval[w]
  BY DEF ReadIndexes, Completed, history, TypeOK
<1>2. /\ inval[v].before \subseteq stored
      /\ stored \ inval[v].before \subseteq raced
  BY DEF ReadIndexes, Reaches, Running
<1>3. OwnAnswers' /\ Recorded'
  BY <1>1 DEF redis, OwnAnswers, Recorded, Listed
<1>4. CASE inval[v].keys = {} /\ docIndexes = {}
  <2>1. /\ ~Running(v)'
        /\ superseded' = superseded \cup inval[v].before
    BY <1>4 DEF ReadIndexes, Completed, Running, TypeOK, Idle
  <2>2. Reaches'
    BY <1>1, <2>1 DEF Reaches, Running, redis, Listed
  <2>3. Unlisted'
    BY <1>1, <1>2, <1>4, <2>1 DEF Unlisted, Recorded, redis, Listed
  <2> QED
    BY <1>3, <2>2, <2>3
<1>5. CASE ~(inval[v].keys = {} /\ docIndexes = {})
  <2>1. /\ inval'[v].indexes = docIndexes
        /\ inval'[v].before = inval[v].before
        /\ UNCHANGED superseded
    BY <1>5 DEF ReadIndexes, history, TypeOK, Invalidating, Idle
  <2>2. Reaches'
    BY <1>1, <1>2, <2>1 DEF Reaches, Recorded, Running, redis, Listed
  <2>3. Unlisted'
    BY <1>1, <2>1 DEF Unlisted, redis, Listed
  <2> QED
    BY <1>3, <2>2, <2>3
<1> QED
  BY <1>4, <1>5

\* Deleting empties every index that lists an earlier answer which raced with
\* nothing, so forgetting what was recorded meanwhile does no harm to those.
LEMMA DeleteCovers ==
    ASSUME TypeOK, Coverage, NEW v \in Invalidations, Delete(v)
    PROVE  Coverage'
<1> USE DEF Coverage
<1>1. /\ UNCHANGED <<request, asked, stored, raced>>
      /\ superseded' = superseded \cup inval[v].before
      /\ docIndexes' = {}
      /\ ~Running(v)'
      /\ \A w \in Invalidations \ {v} : inval'[w] = inval[w]
  BY DEF Delete, Completed, TypeOK, Running, Idle
<1>2. \A k, i : i \in Indexes /\ Listed(k, i)' => Listed(k, i) /\ i \notin inval[v].indexes
  BY DEF Delete, Listed, Range
<1>3. /\ inval[v].before \subseteq stored
      /\ stored \ inval[v].before \subseteq raced
      /\ \A k \in inval[v].before \ raced, i \in Indexes :
            Listed(k, i) => i \in inval[v].indexes
  BY DEF Delete, Reaches, Running
<1>4. \A k \in stored \ raced, i \in Indexes : ~Listed(k, i)'
  BY <1>2, <1>3
<1>5. OwnAnswers'
  BY <1>1 DEF OwnAnswers
<1>6. Recorded'
  BY <1>1, <1>4 DEF Recorded
<1>7. Reaches'
  BY <1>1, <1>2 DEF Reaches, Running
<1>8. Unlisted'
  BY <1>1, <1>3, <1>4 DEF Unlisted
<1> QED
  BY <1>5, <1>6, <1>7, <1>8

\* A data key that expires is nobody's business.
LEMMA ExpireCovers ==
    ASSUME Coverage, NEW k \in Answers, Expire(k)
    PROVE  Coverage'
BY DEF Expire, Coverage, OwnAnswers, Recorded, Reaches, Unlisted, Listed, Running, history

-----------------------------------------------------------------------------
(* The theorems. *)

\* Coverage is an invariant.
THEOREM CacheCoverage == Spec => []Coverage
<1>1. Init => Coverage
  <2> SUFFICES ASSUME Init PROVE Coverage
    OBVIOUS
  <2>1. OwnAnswers /\ Recorded /\ Unlisted
    BY DEF Init, OwnAnswers, Recorded, Unlisted, Idle
  <2>2. Reaches
    BY DEF Init, Reaches, Running, Idle
  <2> QED
    BY <2>1, <2>2 DEF Coverage
<1>2. TypeOK /\ Coverage /\ [Next]_vars => Coverage'
  <2> SUFFICES ASSUME TypeOK, Coverage, [Next]_vars PROVE Coverage'
    OBVIOUS
  <2>1. CASE UNCHANGED vars
    BY <2>1 DEF vars, redis, history, Coverage, OwnAnswers, Recorded, Reaches,
                Unlisted, Listed, Running
  <2>2. CASE Next
    BY <2>2, AskCovers, StoreCovers, NothingCovers, BeginCovers, ReadIndexesCovers,
       DeleteCovers, ExpireCovers DEF Next, RequestStep, InvalidationStep
  <2> QED
    BY <2>1, <2>2
<1> QED
  BY <1>1, <1>2, CacheTypes, PTL DEF Spec

\* An invalidation that completes leaves no earlier answer that get() could
\* return, unless the store of that answer raced with an invalidation.
THEOREM SupersededNeverServed == Spec => []SupersededIsGone
<1>1. TypeOK /\ Coverage => SupersededIsGone
  BY DEF TypeOK, Coverage, Unlisted, SupersededIsGone, Servable
<1> QED
  BY <1>1, CacheTypes, CacheCoverage, PTL

\* However full its index, an answer is servable once it is stored.
THEOREM StoredAnswersServed == Spec => StoredIsServable
<1>1. TypeOK /\ [Next]_vars =>
        [\A k \in Answers : k \in stored' \ stored => Servable(k)']_vars
  <2> SUFFICES ASSUME TypeOK, Next, NEW k \in Answers, k \in stored' \ stored
               PROVE  Servable(k)'
    OBVIOUS
  <2>1. PICK r \in Requests : StoreAnswer(r) /\ k = request[r].key
    BY DEF Next, RequestStep, InvalidationStep, Ask, StoreAnswer, Record, StoreNothing,
           Begin, ReadKeys, ReadIndexes, Completed, Delete, Abort, Expire, history
  <2> DEFINE i == request[r].index
  <2>2. i \in Indexes
    BY <2>1 DEF StoreAnswer, TypeOK, Answering, Idle
  <2>3. index[i] \in Seq(stored \cup {k}) /\ Len(index[i]) <= MaxEntries
    BY <2>2, SeqMonotonic DEF TypeOK
  <2>4. k \in live' /\ index'[i] = Push(k, index[i])
    BY <2>1, <2>2 DEF StoreAnswer, TypeOK
  <2> HIDE DEF i
  <2>5. k \in Range(index'[i])
    BY <2>3, <2>4, PushProperties
  <2> QED
    BY <2>2, <2>4, <2>5 DEF Servable, Listed
<1> QED
  BY <1>1, CacheTypes, PTL DEF Spec, StoredIsServable

-----------------------------------------------------------------------------
(* The stream of progress. *)

\* The part of StreamTypeOK the argument needs: where each loop stands.
Shape ==
    /\ sent \in Nat /\ lastId \in Nat
    /\ lastId <= sent /\ sent <= MaxMessages
    /\ idle \subseteq Messages
    /\ loop \in [Procs -> [pc : {"down", "read", "emit", "ack"}, batch : SUBSET Messages]]
    /\ recovery \in [Procs -> [pc : {"off", "claim", "emit", "ack", "ack again"},
                               ids : SUBSET Messages]]

\* Every step leaves each loop at one of its steps, with messages in hand.
LEMMA StreamShape == StreamSpec => []Shape
<1>1. StreamInit => Shape
  BY StreamBoundsAssumption DEF StreamInit, Shape
<1>2. Shape /\ [StreamNext]_streamVars => Shape'
  <2> SUFFICES ASSUME Shape, [StreamNext]_streamVars PROVE Shape'
    OBVIOUS
  <2>0. /\ sent \in Nat /\ lastId \in Nat /\ MaxMessages \in Nat
        /\ lastId <= sent /\ sent <= MaxMessages
    BY StreamBoundsAssumption DEF Shape
  <2>1. CASE Publish
    <3>1. sent' \in Nat /\ lastId' \in Nat /\ lastId' <= sent' /\ sent' <= MaxMessages
      BY <2>0, <2>1 DEF Publish
    <3> QED
      BY <2>1, <3>1 DEF Publish, Shape
  <2>2. ASSUME NEW m \in Messages, Age(m) PROVE Shape'
    BY <2>2 DEF Age, Shape
  <2>3. ASSUME NEW p \in Procs, Read(p) \/ ReadLost(p) PROVE Shape'
    <3>1. lastId + 1 .. sent \subseteq Messages
      BY <2>0 DEF Messages
    <3>2. ASSUME NEW batch \in SUBSET Messages, ReadGroup(p, batch) PROVE Shape'
      <4>1. [pc |-> IF batch = {} THEN "read" ELSE "emit", batch |-> batch]
              \in [pc : {"down", "read", "emit", "ack"}, batch : SUBSET Messages]
        OBVIOUS
      <4>2. sent' \in Nat /\ lastId' \in Nat /\ lastId' <= sent' /\ sent' <= MaxMessages
        BY <2>0, <3>2 DEF ReadGroup
      <4> QED
        BY <3>2, <4>1, <4>2 DEF ReadGroup, Shape
    <3> QED
      BY <2>3, <3>1, <3>2 DEF Read, ReadLost
  <2>4. ASSUME NEW p \in Procs, Emit(p) \/ PassOver(p) PROVE Shape'
    BY <2>4 DEF Emit, PassOver, Shape
  <2>5. ASSUME NEW p \in Procs, Ack(p) \/ HandlingFails(p) PROVE Shape'
    <3> DEFINE rest == loop[p].batch \ {Current(p)}
    <3>1. rest \in SUBSET Messages
      BY DEF Shape
    <3> HIDE DEF rest
    <3>2. [pc |-> IF rest = {} THEN "read" ELSE "emit", batch |-> rest]
            \in [pc : {"down", "read", "emit", "ack"}, batch : SUBSET Messages]
      BY <3>1
    <3>3. loop' = [loop EXCEPT ![p] = [pc |-> IF rest = {} THEN "read" ELSE "emit",
                                       batch |-> rest]]
      BY <2>5 DEF Ack, HandlingFails, NextOfBatch, rest
    <3> QED
      BY <2>5, <3>2, <3>3 DEF Ack, HandlingFails, Acknowledge, Shape
  <2>6. ASSUME NEW p \in Procs, Restart(p) PROVE Shape'
    BY <2>6 DEF Restart, Shape
  <2>7. ASSUME NEW p \in Procs, Crash(p) PROVE Shape'
    BY <2>7 DEF Crash, Shape
  <2>8. ASSUME NEW p \in Procs,
               RecoveryStep(p) \/ ClaimLost(p) \/ PassOverClaimed(p) \/ AckClaimedFails(p)
        PROVE  Shape'
    <3> DEFINE ids == recovery[p].ids
               pcs == {"off", "claim", "emit", "ack", "ack again"}
    <3>1. ids \subseteq Messages /\ ids \cap idle \subseteq Messages
      BY DEF Shape
    <3>2. ids \ {Claimed(p)} \subseteq Messages
      BY <3>1
    <3>3. PICK pc \in pcs, ms \in SUBSET Messages : Recover(p, pc, ms)
      <4>1. CASE Scan(p)
        <5>1. {m \in idle : pending[m] # ConsumerId[p]} \subseteq Messages
          BY DEF Shape
        <5> QED
          BY <4>1, <5>1 DEF Scan
      <4>2. CASE Claim(p)
        BY <4>2, <3>1 DEF Claim
      <4>3. CASE EmitClaimed(p)
        BY <4>3, <3>1 DEF EmitClaimed
      <4>4. CASE AckClaimed(p)
        BY <4>4, <3>2 DEF AckClaimed
      <4>5. CASE ClaimLost(p)
        BY <4>5 DEF ClaimLost
      <4>6. CASE AckClaimedFails(p)
        BY <4>6, <3>1 DEF AckClaimedFails
      <4>7. CASE PassOverClaimed(p)
        BY <4>7, <3>1 DEF PassOverClaimed
      <4> QED
        BY <2>8, <4>1, <4>2, <4>3, <4>4, <4>5, <4>6, <4>7 DEF RecoveryStep
    <3>4. UNCHANGED <<sent, lastId, loop>> /\ idle' \subseteq idle
      BY <2>8 DEF RecoveryStep, Scan, Claim, ClaimIdle, ClaimLost, EmitClaimed, AckClaimed,
                  PassOverClaimed, AckClaimedFails, Acknowledge
    <3>5. [pc |-> "off", ids |-> {}] \in [pc : pcs, ids : SUBSET Messages]
      OBVIOUS
    <3>6. [pc |-> pc, ids |-> ms] \in [pc : pcs, ids : SUBSET Messages]
      OBVIOUS
    <3> QED
      BY <3>3, <3>4, <3>5, <3>6 DEF Recover, Shape
  <2>9. CASE UNCHANGED streamVars
    BY <2>9 DEF streamVars, Shape
  <2> QED
    BY <2>1, <2>2, <2>3, <2>4, <2>5, <2>6, <2>7, <2>8, <2>9
       DEF StreamNext, LoopStep, RecoveryStep, FaultStep
<1> QED
  BY <1>1, <1>2, PTL DEF StreamSpec

\* Recover puts one recovery at a step with its messages, or ends it.
LEMMA RecoverProperties ==
    ASSUME Shape, NEW p \in Procs, NEW pc, NEW ids, Recover(p, pc, ids)
    PROVE  /\ \/ recovery'[p].pc = "off"
              \/ recovery'[p].pc = pc /\ recovery'[p].ids = ids
           /\ \A q \in Procs \ {p} : recovery'[q] = recovery[q]
<1>1. CASE ids = {}
  BY <1>1 DEF Recover, Shape
<1>2. CASE ids # {}
  BY <1>2 DEF Recover, Shape
<1> QED
  BY <1>1, <1>2

\* NextOfBatch moves one loop on to its next message or to its next read.
LEMMA NextOfBatchProperties ==
    ASSUME Shape, NEW p \in Procs, NextOfBatch(p)
    PROVE  loop'[p].pc # "ack" /\ \A q \in Procs \ {p} : loop'[q] = loop[q]
<1> DEFINE rest == loop[p].batch \ {Current(p)}
<1>1. loop' = [loop EXCEPT ![p] = [pc |-> IF rest = {} THEN "read" ELSE "emit",
                                   batch |-> rest]]
  BY DEF NextOfBatch
<1> HIDE DEF rest
<1> QED
  BY <1>1 DEF Shape

\* Whatever crashes or fails and whoever claims what, a message is acknowledged
\* only after it was emitted or passed over (AcksWhatItEmitted is the inductive form).
THEOREM AtLeastOnce == StreamSpec => []AckedWasEmitted
<1>1. StreamInit => AcksWhatItEmitted
  <2> SUFFICES ASSUME StreamInit PROVE AcksWhatItEmitted
    OBVIOUS
  <2>1. \A p \in Procs : loop[p].pc = "read" /\ recovery[p].pc = "off"
    BY DEF StreamInit
  <2>2. acked = {}
    BY DEF StreamInit
  <2> QED
    BY <2>1, <2>2 DEF AcksWhatItEmitted, AckedWasEmitted
<1>2. Shape /\ AcksWhatItEmitted /\ [StreamNext]_streamVars => AcksWhatItEmitted'
  <2> SUFFICES ASSUME Shape, AcksWhatItEmitted, [StreamNext]_streamVars PROVE AcksWhatItEmitted'
    OBVIOUS
  <2>1. SUFFICES ASSUME NEW A, NEW E, acked' = A, E = emitted' \cup dropped'
                 PROVE  /\ A \subseteq E /\ emitted \cup dropped \subseteq E
                        /\ \A p \in Procs :
                             \/ loop'[p] = loop[p]
                             \/ loop'[p].pc = "ack" => Least(loop'[p].batch) \in E
                        /\ \A p \in Procs :
                             \/ recovery'[p] = recovery[p]
                             \/ recovery'[p].pc \in {"ack", "ack again"} =>
                                   Least(recovery'[p].ids) \in E
    <3>1. /\ acked' \subseteq emitted' \cup dropped'
          /\ emitted \cup dropped \subseteq emitted' \cup dropped'
          /\ \A p \in Procs :
               \/ loop'[p] = loop[p]
               \/ loop'[p].pc = "ack" => Least(loop'[p].batch) \in emitted' \cup dropped'
          /\ \A p \in Procs :
               \/ recovery'[p] = recovery[p]
               \/ recovery'[p].pc \in {"ack", "ack again"} =>
                     Least(recovery'[p].ids) \in emitted' \cup dropped'
      BY Zenon
    <3>2. /\ \A p \in Procs : loop'[p].pc = "ack" => Least(loop'[p].batch) \in emitted' \cup dropped'
          /\ \A p \in Procs : recovery'[p].pc \in {"ack", "ack again"} =>
                Least(recovery'[p].ids) \in emitted' \cup dropped'
      BY <3>1 DEF AcksWhatItEmitted, AckedWasEmitted, Current, Claimed
    <3> QED
      BY <3>1, <3>2 DEF AcksWhatItEmitted, AckedWasEmitted, Current, Claimed
  <2>2. acked \subseteq emitted \cup dropped
    BY DEF AcksWhatItEmitted, AckedWasEmitted
  <2>3. CASE Publish \/ UNCHANGED streamVars
    BY <2>1, <2>2, <2>3 DEF Publish, streamVars
  <2>4. ASSUME NEW m \in Messages, Age(m)
        PROVE  UNCHANGED <<acked, emitted, dropped, loop, recovery>>
    BY <2>4 DEF Age
  <2>5. ASSUME NEW p \in Procs, Crash(p) \/ Restart(p) \/ Read(p) \/ ReadLost(p) \/ HandlingFails(p)
        PROVE  /\ UNCHANGED <<acked, emitted, dropped>>
               /\ loop'[p].pc # "ack" /\ \A q \in Procs \ {p} : loop'[q] = loop[q]
               /\ recovery'[p].pc = "off" \/ recovery'[p] = recovery[p]
               /\ \A q \in Procs \ {p} : recovery'[q] = recovery[q]
    <3>0. CASE Crash(p)
      BY <3>0 DEF Crash, Shape
    <3>1. CASE Restart(p)
      <4>1. loop' = [loop EXCEPT ![p].pc = "read"] /\ UNCHANGED <<acked, emitted, dropped, recovery>>
        BY <3>1 DEF Restart
      <4> QED
        BY <4>1 DEF Shape
    <3>2. ASSUME NEW batch, ReadGroup(p, batch)
          PROVE  /\ UNCHANGED <<acked, emitted, dropped, recovery>>
                 /\ loop'[p].pc # "ack" /\ \A q \in Procs \ {p} : loop'[q] = loop[q]
      BY <3>2 DEF ReadGroup, Shape
    <3>3. CASE Read(p) \/ ReadLost(p)
      BY <3>2, <3>3 DEF Read, ReadLost
    <3>4. CASE HandlingFails(p)
      BY <3>4, NextOfBatchProperties DEF HandlingFails
    <3> QED
      BY <2>5, <3>0, <3>1, <3>3, <3>4
  <2>6. ASSUME NEW p \in Procs, Emit(p) \/ PassOver(p)
        PROVE  /\ UNCHANGED <<acked, recovery>>
               /\ emitted' \cup dropped' = emitted \cup dropped \cup {Least(loop[p].batch)}
               /\ loop'[p].batch = loop[p].batch /\ \A q \in Procs \ {p} : loop'[q] = loop[q]
    BY <2>6 DEF Emit, PassOver, Current, Shape
  <2>7. ASSUME NEW p \in Procs, Ack(p)
        PROVE  /\ UNCHANGED <<emitted, dropped, recovery>> /\ acked' \subseteq emitted \cup dropped
               /\ loop'[p].pc # "ack" /\ \A q \in Procs \ {p} : loop'[q] = loop[q]
    BY <2>2, <2>7, NextOfBatchProperties DEF Ack, Acknowledge, AcksWhatItEmitted
  <2>8. ASSUME NEW p \in Procs, Scan(p) \/ Claim(p) \/ ClaimLost(p)
        PROVE  /\ UNCHANGED <<acked, emitted, dropped, loop>>
               /\ recovery'[p].pc \notin {"ack", "ack again"}
               /\ \A q \in Procs \ {p} : recovery'[q] = recovery[q]
    <3>1. PICK pc, ids : pc \in {"off", "claim", "emit"} /\ Recover(p, pc, ids)
      BY <2>8 DEF Scan, Claim, ClaimLost
    <3>2. UNCHANGED <<acked, emitted, dropped, loop>>
      BY <2>8 DEF Scan, Claim, ClaimLost, ClaimIdle
    <3> QED
      BY <3>1, <3>2, RecoverProperties
  <2>9. ASSUME NEW p \in Procs, EmitClaimed(p) \/ PassOverClaimed(p)
        PROVE  /\ UNCHANGED <<acked, loop>>
               /\ emitted' \cup dropped' = emitted \cup dropped \cup {Least(recovery[p].ids)}
               /\ recovery'[p].pc = "off" \/ recovery'[p].ids = recovery[p].ids
               /\ \A q \in Procs \ {p} : recovery'[q] = recovery[q]
    BY <2>9, RecoverProperties DEF EmitClaimed, PassOverClaimed, Claimed
  <2>10. ASSUME NEW p \in Procs, AckClaimed(p)
         PROVE  /\ UNCHANGED <<emitted, dropped, loop>> /\ acked' \subseteq emitted \cup dropped
                /\ recovery'[p].pc \notin {"ack", "ack again"}
                /\ \A q \in Procs \ {p} : recovery'[q] = recovery[q]
    <3>1. PICK ids : Recover(p, "emit", ids)
      BY <2>10 DEF AckClaimed
    <3>2. /\ recovery'[p].pc \in {"off", "emit"}
          /\ \A q \in Procs \ {p} : recovery'[q] = recovery[q]
      BY <3>1, RecoverProperties
    <3>3. UNCHANGED <<emitted, dropped, loop>> /\ acked' = acked \cup {Claimed(p)}
      BY <2>10 DEF AckClaimed, Acknowledge
    <3>4. Claimed(p) \in emitted \cup dropped
      BY <2>10 DEF AckClaimed, AcksWhatItEmitted
    <3> QED
      BY <2>2, <3>2, <3>3, <3>4
  <2>11. ASSUME NEW p \in Procs, AckClaimedFails(p)
         PROVE  /\ UNCHANGED <<acked, emitted, dropped, loop>>
                /\ recovery[p].pc \in {"ack", "ack again"}
                /\ recovery'[p].pc = "off" \/ recovery'[p].ids = recovery[p].ids
                /\ \A q \in Procs \ {p} : recovery'[q] = recovery[q]
    BY <2>11, RecoverProperties DEF AckClaimedFails
  <2>12. ASSUME NEW p \in Procs, recovery[p].pc \in {"ack", "ack again"}
         PROVE  Least(recovery[p].ids) \in emitted \cup dropped
    BY <2>12 DEF AcksWhatItEmitted, Claimed
  <2> QED
    BY <2>1, <2>2, <2>3, <2>4, <2>5, <2>6, <2>7, <2>8, <2>9, <2>10, <2>11, <2>12
       DEF StreamNext, LoopStep, RecoveryStep, FaultStep
<1>3. StreamSpec => []AcksWhatItEmitted
  BY <1>1, <1>2, StreamShape, PTL DEF StreamSpec
<1>4. AcksWhatItEmitted => AckedWasEmitted
  BY DEF AcksWhatItEmitted
<1> QED
  BY <1>3, <1>4, PTL

(* What invalidates leaves nothing, what stores can be found.              *)
THEOREM CacheHonest == Spec => CacheIsHonest
<1> DEFINE Found == \A k \in Answers : k \in stored' \ stored => Servable(k)'
<1>1. SupersededIsGone' /\ [Found]_vars => [SupersededIsGone' /\ Found]_vars
  OBVIOUS
<1>2. Spec => [][Found]_vars
  BY StoredAnswersServed DEF StoredIsServable
<1>3. Spec => [][SupersededIsGone' /\ Found]_vars
  BY <1>1, <1>2, SupersededNeverServed, PTL
<1> QED
  BY <1>3 DEF CacheIsHonest

-----------------------------------------------------------------------------
(* What is pending, and who works on it.                                   *)
LoopAt(n) ==
    {l \in [pc : {"down", "read", "emit", "ack"}, batch : SUBSET (1 .. n)] :
        l.pc \in {"emit", "ack"} => l.batch # {}}
RecoveryAt(n) ==
    {r \in [pc : {"off", "claim", "emit", "ack", "ack again"}, ids : SUBSET (1 .. n)] :
        r.pc # "off" => r.ids # {}}

\* A message that was read is pending or acknowledged, and only such messages
\* are worked on.
EntriesKept ==
    /\ sent \in 0 .. MaxMessages /\ lastId \in 0 .. sent
    /\ pending \in [DOMAIN pending -> Ids]
    /\ DOMAIN pending \cup acked = 1 .. lastId
    /\ idle \subseteq DOMAIN pending
    /\ emitted \subseteq 1 .. lastId /\ dropped \subseteq 1 .. lastId
    /\ faults \in 0 .. MaxFaults

StreamInv ==
    /\ EntriesKept
    /\ loop \in [Procs -> LoopAt(lastId)]
    /\ recovery \in [Procs -> RecoveryAt(lastId)]

LEMMA StreamIsTyped == StreamInv => StreamTypeOK
<1> SUFFICES ASSUME StreamInv PROVE StreamTypeOK
  OBVIOUS
<1>1. 1 .. lastId \subseteq Messages
  BY StreamBoundsAssumption DEF StreamInv, EntriesKept, Messages
<1>2. \A l \in LoopAt(lastId) : l \in [pc : {"down", "read", "emit", "ack"}, batch : SUBSET Messages]
  BY <1>1 DEF LoopAt
<1>3. \A r \in RecoveryAt(lastId) :
          r \in [pc : {"off", "claim", "emit", "ack", "ack again"}, ids : SUBSET Messages]
  BY <1>1 DEF RecoveryAt
<1>4. loop \in [Procs -> [pc : {"down", "read", "emit", "ack"}, batch : SUBSET Messages]]
  BY <1>2 DEF StreamInv
<1>5. recovery \in [Procs -> [pc : {"off", "claim", "emit", "ack", "ack again"}, ids : SUBSET Messages]]
  BY <1>3 DEF StreamInv
<1> QED
  BY <1>4, <1>5 DEF StreamInv, EntriesKept, StreamTypeOK

LEMMA LeastMessage ==
  ASSUME NEW n \in Nat, NEW S \in SUBSET (1 .. n), S # {}
  PROVE  Least(S) \in S
<1>1. IsWellFoundedOn(OpToRel(<, Nat), Nat)
  BY NatLessThanWellFounded
<1>2. S \in SUBSET Nat
  OBVIOUS
<1>3. PICK i \in S : \A k \in S : <<k, i>> \notin OpToRel(<, Nat)
  BY <1>1, <1>2, WFMin
<1>4. \A k \in S : <<k, i>> \notin {ss \in Nat \X Nat : ss[1] < ss[2]}
  BY <1>3 DEF OpToRel
<1>5. \A k \in S : ~(k < i)
  BY <1>2, <1>4
<1>6. \A k \in S : i <= k
  BY <1>2, <1>5
<1> QED
  BY <1>6 DEF Least

\* A step that leaves the entries as they are, but for what was read.
LEMMA ReadIsKept ==
  ASSUME EntriesKept, NEW p \in Procs, NEW batch, ReadGroup(p, batch), faults' \in 0 .. MaxFaults
  PROVE  EntriesKept' /\ lastId' = sent /\ lastId <= lastId' /\ lastId' \in Nat /\ lastId \in Nat
<1>1. /\ lastId < sent /\ lastId' = sent /\ UNCHANGED <<sent, idle, acked, emitted, dropped>>
      /\ pending' = Pend(lastId + 1 .. sent, ConsumerId[p])
  BY DEF ReadGroup
<1>2. /\ lastId \in Nat /\ sent \in Nat /\ sent \in 0 .. MaxMessages
      /\ pending \in [DOMAIN pending -> Ids] /\ DOMAIN pending \cup acked = 1 .. lastId
      /\ idle \subseteq DOMAIN pending /\ emitted \cup dropped \subseteq 1 .. lastId
  BY StreamBoundsAssumption DEF EntriesKept
<1>3. ConsumerId[p] \in Ids
  BY DEF Ids
<1> DEFINE more == lastId + 1 .. sent
<1>4. 1 .. sent = (1 .. lastId) \cup more
  BY <1>1, <1>2
<1> HIDE DEF more
<1>5. pending' = [m \in more \cup DOMAIN pending |-> IF m \in more THEN ConsumerId[p] ELSE pending[m]]
  BY <1>1 DEF Pend, more
<1>6. pending' \in [DOMAIN pending' -> Ids] /\ DOMAIN pending' = more \cup DOMAIN pending
  BY <1>2, <1>3, <1>5
<1>7. DOMAIN pending' \cup acked' = 1 .. lastId'
  BY <1>1, <1>2, <1>4, <1>6
<1>8. idle' \subseteq DOMAIN pending' /\ emitted' \cup dropped' \subseteq 1 .. lastId'
  BY <1>1, <1>2, <1>4, <1>6
<1>9. lastId' \in 0 .. sent' /\ sent' \in 0 .. MaxMessages /\ lastId <= lastId'
  BY <1>1, <1>2
<1> QED
  BY <1>1, <1>2, <1>6, <1>7, <1>8, <1>9 DEF EntriesKept

LEMMA AckIsKept ==
  ASSUME EntriesKept, NEW m \in 1 .. lastId, Acknowledge(m),
         UNCHANGED <<sent, lastId, emitted, dropped, faults>>
  PROVE  EntriesKept'
<1>1. /\ acked' = acked \cup {m} /\ idle' = idle \ {m}
      /\ pending' = [n \in DOMAIN pending \ {m} |-> pending[n]]
  BY DEF Acknowledge, Unpend
<1>2. pending' \in [DOMAIN pending' -> Ids] /\ DOMAIN pending' = DOMAIN pending \ {m}
  BY <1>1 DEF EntriesKept
<1>3. DOMAIN pending' \cup acked' = 1 .. lastId /\ idle' \subseteq DOMAIN pending'
  BY <1>1, <1>2 DEF EntriesKept
<1> QED
  BY <1>2, <1>3 DEF EntriesKept

LEMMA ClaimIsKept ==
  ASSUME EntriesKept, NEW p \in Procs, ClaimIdle(p), faults' \in 0 .. MaxFaults
  PROVE  EntriesKept'
<1> DEFINE ids == recovery[p].ids \cap idle
<1>1. /\ idle' = idle \ ids /\ UNCHANGED <<sent, lastId, acked, emitted, dropped>>
      /\ pending' = [m \in ids \cup DOMAIN pending |-> IF m \in ids THEN ConsumerId[p] ELSE pending[m]]
  BY DEF ClaimIdle, Pend
<1>2. ConsumerId[p] \in Ids
  BY DEF Ids
<1>3. ids \subseteq DOMAIN pending
  BY DEF EntriesKept
<1> HIDE DEF ids
<1>4. pending' \in [DOMAIN pending' -> Ids] /\ DOMAIN pending' = DOMAIN pending
  BY <1>1, <1>2, <1>3 DEF EntriesKept
<1> QED
  BY <1>1, <1>4 DEF EntriesKept

\* Only what was read is worked on, and a loop at work has something to do.
LEMMA LoopMoves ==
  ASSUME StreamInv, EntriesKept', UNCHANGED lastId, NEW p \in Procs, NEW l \in LoopAt(lastId),
         loop' = [loop EXCEPT ![p] = l], UNCHANGED recovery
  PROVE  StreamInv'
BY DEF StreamInv

LEMMA RecoveryMoves ==
  ASSUME StreamInv, EntriesKept', UNCHANGED <<lastId, loop>>, NEW p \in Procs, NEW pc, NEW ids \in SUBSET (1 .. lastId),
         pc \in {"claim", "emit", "ack", "ack again", "off"}, pc = "off" => ids = {}, Recover(p, pc, ids)
  PROVE  StreamInv'
<1> DEFINE r == IF ids = {} THEN [pc |-> "off", ids |-> {}] ELSE [pc |-> pc, ids |-> ids]
<1>1. recovery' = [recovery EXCEPT ![p] = r]
  BY DEF Recover
<1>2. r \in RecoveryAt(lastId)
  BY DEF RecoveryAt
<1> HIDE DEF r
<1> QED
  BY <1>1, <1>2 DEF StreamInv

LEMMA StreamStep == StreamInv /\ [StreamNext]_streamVars => StreamInv'
<1> SUFFICES ASSUME StreamInv, [StreamNext]_streamVars PROVE StreamInv'
  OBVIOUS
<1>1. /\ EntriesKept /\ loop \in [Procs -> LoopAt(lastId)] /\ recovery \in [Procs -> RecoveryAt(lastId)]
      /\ lastId \in Nat /\ sent \in Nat
  BY StreamBoundsAssumption DEF StreamInv, EntriesKept
<1>2. Fault => faults' \in 0 .. MaxFaults
  BY <1>1, StreamBoundsAssumption DEF Fault, EntriesKept
<1>3. faults \in 0 .. MaxFaults
  BY <1>1 DEF EntriesKept
<1>4. ASSUME NEW p \in Procs
      PROVE  /\ loop[p] \in LoopAt(lastId) /\ loop[p].batch \in SUBSET (1 .. lastId)
             /\ loop[p].pc \in {"emit", "ack"} => Current(p) \in loop[p].batch
             /\ recovery[p] \in RecoveryAt(lastId) /\ recovery[p].ids \in SUBSET (1 .. lastId)
             /\ recovery[p].pc # "off" => recovery[p].ids # {} /\ Claimed(p) \in recovery[p].ids
  <2>1. loop[p] \in LoopAt(lastId) /\ recovery[p] \in RecoveryAt(lastId)
    BY <1>1
  <2>2. /\ loop[p].batch \in SUBSET (1 .. lastId) /\ (loop[p].pc \in {"emit", "ack"} => loop[p].batch # {})
        /\ recovery[p].ids \in SUBSET (1 .. lastId) /\ (recovery[p].pc # "off" => recovery[p].ids # {})
    BY <2>1 DEF LoopAt, RecoveryAt
  <2> QED
    BY <1>1, <2>1, <2>2, LeastMessage DEF Current, Claimed
<1>5. CASE Publish
  <2>1. EntriesKept' /\ UNCHANGED <<lastId, loop, recovery>>
    <3>1. /\ sent < MaxMessages /\ sent' = sent + 1
          /\ UNCHANGED <<lastId, pending, idle, acked, emitted, dropped, loop, recovery, faults>>
      BY <1>5 DEF Publish
    <3>2. sent' \in 0 .. MaxMessages /\ lastId' \in 0 .. sent'
      BY <1>1, <3>1, StreamBoundsAssumption DEF EntriesKept
    <3> QED
      BY <1>1, <3>1, <3>2 DEF EntriesKept
  <2> QED
    BY <1>1, <2>1 DEF StreamInv
<1>6. ASSUME NEW m \in Messages, Age(m) PROVE StreamInv'
  BY <1>1, <1>6 DEF Age, EntriesKept, StreamInv
<1>7. ASSUME NEW p \in Procs, Crash(p) PROVE StreamInv'
  <2>1. [pc |-> "down", batch |-> {}] \in LoopAt(lastId) /\ [pc |-> "off", ids |-> {}] \in RecoveryAt(lastId)
    BY DEF LoopAt, RecoveryAt
  <2>2. EntriesKept' /\ UNCHANGED lastId
    BY <1>1, <1>2, <1>7 DEF Crash, EntriesKept
  <2> QED
    BY <1>1, <1>7, <2>1, <2>2 DEF Crash, StreamInv
<1>8. ASSUME NEW p \in Procs, Restart(p) PROVE StreamInv'
  <2> DEFINE l == [loop[p] EXCEPT !.pc = "read"]
  <2>1. l \in LoopAt(lastId)
    BY <1>4 DEF LoopAt
  <2>2. EntriesKept' /\ UNCHANGED <<lastId, recovery>> /\ loop' = [loop EXCEPT ![p] = l]
    BY <1>1, <1>8 DEF Restart, EntriesKept
  <2> QED
    BY <2>1, <2>2, LoopMoves
<1>9. ASSUME NEW p \in Procs, NEW batch \in {{}, lastId + 1 .. sent}, ReadGroup(p, batch), faults' \in 0 .. MaxFaults
      PROVE  StreamInv'
  <2>1. EntriesKept' /\ lastId' = sent /\ lastId <= lastId' /\ lastId' \in Nat /\ UNCHANGED recovery
    BY <1>1, <1>9, ReadIsKept DEF ReadGroup
  <2>2. 1 .. lastId \subseteq 1 .. lastId'
    BY <1>1, <2>1
  <2>3. batch \in SUBSET (1 .. lastId')
    BY <1>1, <2>1
  <2> DEFINE l == [pc |-> IF batch = {} THEN "read" ELSE "emit", batch |-> batch]
  <2>4. loop' = [loop EXCEPT ![p] = l]
    BY <1>9 DEF ReadGroup
  <2>5. l \in LoopAt(lastId')
    BY <2>3 DEF LoopAt
  <2> HIDE DEF l
  <2>6. LoopAt(lastId) \subseteq LoopAt(lastId') /\ RecoveryAt(lastId) \subseteq RecoveryAt(lastId')
    BY <2>2 DEF LoopAt, RecoveryAt
  <2>7. loop' \in [Procs -> LoopAt(lastId')] /\ recovery' \in [Procs -> RecoveryAt(lastId')]
    BY <1>1, <2>1, <2>4, <2>5, <2>6
  <2> QED
    BY <2>1, <2>7 DEF StreamInv
<1>10. ASSUME NEW p \in Procs, Read(p) \/ ReadLost(p) PROVE StreamInv'
  BY <1>2, <1>3, <1>9, <1>10 DEF Read, ReadLost
<1>11. ASSUME NEW p \in Procs, Emit(p) \/ PassOver(p) PROVE StreamInv'
  <2> DEFINE l == [loop[p] EXCEPT !.pc = "ack"]
  <2>1. loop[p].pc = "emit" /\ Current(p) \in 1 .. lastId
    BY <1>4, <1>11 DEF Emit, PassOver
  <2>2. l \in LoopAt(lastId)
    BY <1>4, <2>1 DEF LoopAt
  <2>3. EntriesKept' /\ UNCHANGED <<lastId, recovery>>
    BY <1>1, <1>2, <1>11, <2>1 DEF Emit, PassOver, EntriesKept
  <2>4. loop' = [loop EXCEPT ![p] = l]
    BY <1>11 DEF Emit, PassOver
  <2> HIDE DEF l
  <2> QED
    BY <2>2, <2>3, <2>4, LoopMoves
<1>12. ASSUME NEW p \in Procs, NextOfBatch(p), EntriesKept', UNCHANGED <<lastId, recovery>> PROVE StreamInv'
  <2> DEFINE rest == loop[p].batch \ {Current(p)}
             l == [pc |-> IF rest = {} THEN "read" ELSE "emit", batch |-> rest]
  <2>1. rest \in SUBSET (1 .. lastId)
    BY <1>4
  <2>2. loop' = [loop EXCEPT ![p] = l]
    BY <1>12 DEF NextOfBatch
  <2> HIDE DEF rest
  <2>3. l \in LoopAt(lastId)
    BY <2>1 DEF LoopAt
  <2> HIDE DEF l
  <2> QED
    BY <1>12, <2>2, <2>3, LoopMoves
<1>13. ASSUME NEW p \in Procs, Ack(p) PROVE StreamInv'
  <2>1. Current(p) \in 1 .. lastId
    BY <1>4, <1>13 DEF Ack
  <2>2. EntriesKept'
    BY <1>1, <1>13, <2>1, AckIsKept DEF Ack
  <2> QED
    BY <1>12, <1>13, <2>2 DEF Ack
<1>14. ASSUME NEW p \in Procs, HandlingFails(p) PROVE StreamInv'
  <2>1. EntriesKept'
    BY <1>1, <1>2, <1>14 DEF HandlingFails, EntriesKept
  <2> QED
    BY <1>12, <1>14, <2>1 DEF HandlingFails
<1>15. ASSUME NEW p \in Procs, Scan(p) PROVE StreamInv'
  <2> DEFINE ids == {m \in idle : pending[m] # ConsumerId[p]}
  <2>1. ids \in SUBSET (1 .. lastId)
    BY <1>1 DEF EntriesKept
  <2>2. EntriesKept' /\ UNCHANGED <<lastId, loop>> /\ Recover(p, "claim", ids)
    BY <1>1, <1>15 DEF Scan, EntriesKept
  <2> HIDE DEF ids
  <2> QED
    BY <2>1, <2>2, RecoveryMoves
<1>16. ASSUME NEW p \in Procs, Claim(p) PROVE StreamInv'
  <2>1. EntriesKept' /\ UNCHANGED <<lastId, loop>>
    BY <1>1, <1>3, <1>16, ClaimIsKept DEF Claim, ClaimIdle
  <2> DEFINE ids == recovery[p].ids \cap idle
  <2>2. ids \in SUBSET (1 .. lastId) /\ Recover(p, "emit", ids)
    BY <1>4, <1>16 DEF Claim
  <2> HIDE DEF ids
  <2> QED
    BY <2>1, <2>2, RecoveryMoves
<1>17. ASSUME NEW p \in Procs, ClaimLost(p) PROVE StreamInv'
  <2>1. EntriesKept' /\ UNCHANGED <<lastId, loop>>
    BY <1>1, <1>2, <1>17, ClaimIsKept DEF ClaimLost, ClaimIdle
  <2>2. Recover(p, "off", {})
    BY <1>17 DEF ClaimLost
  <2>3. {} \in SUBSET (1 .. lastId)
    OBVIOUS
  <2> QED
    BY <2>1, <2>2, <2>3, RecoveryMoves
<1>18. ASSUME NEW p \in Procs, EmitClaimed(p) PROVE StreamInv'
  <2>1. recovery[p].pc = "emit" /\ recovery[p].ids \in SUBSET (1 .. lastId) /\ Claimed(p) \in 1 .. lastId
    BY <1>4, <1>18 DEF EmitClaimed
  <2>2. EntriesKept' /\ UNCHANGED <<lastId, loop>> /\ Recover(p, "ack", recovery[p].ids)
    BY <1>1, <1>18, <2>1 DEF EmitClaimed, EntriesKept
  <2> QED
    BY <2>1, <2>2, RecoveryMoves
<1>19. ASSUME NEW p \in Procs, AckClaimed(p) PROVE StreamInv'
  <2>1. recovery[p].ids \in SUBSET (1 .. lastId) /\ Claimed(p) \in 1 .. lastId
    BY <1>4, <1>19 DEF AckClaimed
  <2>2. EntriesKept' /\ UNCHANGED <<lastId, loop>>
    BY <1>1, <1>19, <2>1, AckIsKept DEF AckClaimed
  <2> DEFINE ids == recovery[p].ids \ {Claimed(p)}
  <2>3. ids \in SUBSET (1 .. lastId) /\ Recover(p, "emit", ids)
    BY <1>19, <2>1 DEF AckClaimed
  <2> HIDE DEF ids
  <2> QED
    BY <2>2, <2>3, RecoveryMoves
<1>20. ASSUME NEW p \in Procs, AckClaimedFails(p) PROVE StreamInv'
  <2>1. EntriesKept' /\ UNCHANGED <<lastId, loop>>
    BY <1>1, <1>2, <1>20 DEF AckClaimedFails, EntriesKept
  <2>2. recovery[p].ids \in SUBSET (1 .. lastId) /\ {} \in SUBSET (1 .. lastId)
    BY <1>4
  <2>3. Recover(p, "ack again", recovery[p].ids) \/ Recover(p, "off", {})
    BY <1>20 DEF AckClaimedFails
  <2> QED
    BY <2>1, <2>2, <2>3, RecoveryMoves
<1>21. ASSUME NEW p \in Procs, PassOverClaimed(p) PROVE StreamInv'
  <2>1. recovery[p].pc = "emit" /\ recovery[p].ids \in SUBSET (1 .. lastId) /\ Claimed(p) \in 1 .. lastId
    BY <1>4, <1>21 DEF PassOverClaimed
  <2>2. EntriesKept' /\ UNCHANGED <<lastId, loop>>
    BY <1>1, <1>2, <1>21, <2>1 DEF PassOverClaimed, EntriesKept
  <2>3. PICK pc \in {"ack", "ack again"} : Recover(p, pc, recovery[p].ids)
    BY <1>21 DEF PassOverClaimed
  <2> QED
    BY <2>1, <2>2, <2>3, RecoveryMoves
<1>22. CASE UNCHANGED streamVars
  BY <1>1, <1>22 DEF streamVars, StreamInv, EntriesKept
<1> QED
  BY <1>5, <1>6, <1>7, <1>8, <1>10, <1>11, <1>13, <1>14, <1>15, <1>16, <1>17, <1>18, <1>19, <1>20, <1>21, <1>22
     DEF StreamNext, LoopStep, RecoveryStep, FaultStep

(* Redis and the consumers of job-progress-stream.consumer.ts lose no      *)
(* message between them: whoever crashes or claims what, a message that    *)
(* was read is pending or acknowledged, and only such messages are         *)
(* emitted, passed over, or held by a loop or a recovery.                  *)
THEOREM EntriesAreKept == StreamSpec => []StreamTypeOK
<1>1. StreamInit => StreamInv
  <2> SUFFICES ASSUME StreamInit PROVE StreamInv
    OBVIOUS
  <2>1. DOMAIN pending = {} /\ 1 .. lastId = {} /\ lastId = 0 /\ sent = 0
    BY DEF StreamInit
  <2>2. 0 \in 0 .. MaxMessages /\ 0 \in 0 .. MaxFaults /\ 0 \in 0 .. 0
    BY StreamBoundsAssumption
  <2>3. pending \in [DOMAIN pending -> Ids]
    BY DEF StreamInit
  <2>4. EntriesKept
    BY <2>1, <2>2, <2>3 DEF StreamInit, EntriesKept
  <2>5. [pc |-> "read", batch |-> {}] \in LoopAt(lastId) /\ [pc |-> "off", ids |-> {}] \in RecoveryAt(lastId)
    BY DEF LoopAt, RecoveryAt
  <2> QED
    BY <2>4, <2>5 DEF StreamInit, StreamInv
<1> QED
  BY <1>1, StreamStep, StreamIsTyped, PTL DEF StreamSpec
=============================================================================
