--------------------------- MODULE QuestionProofs ---------------------------
(***************************************************************************)
(* Proofs about the smaller parts a question goes through: the payload of  *)
(* chat/prepare, taken at most once by calls that do not overlap; the      *)
(* chain of web searches with its monthly budget; the model and the reason *)
(* of an answer; the prompts it is asked with; and the chat tab, which     *)
(* shows it.                                                               *)
(***************************************************************************)
EXTENDS PreparedChat, WebSearch, Answering, Prompts, ChatView, FiniteSetTheorems, SequenceTheorems, TLAPS

-----------------------------------------------------------------------------
(* Prepared payloads.                                                      *)

Calls == [pc : {"idle", "reading", "taking", "asking", "saving", "saved", "responded", "failed"},
          request : RequestIds \cup {"none"}, thread : OldThreads \cup {NewThread, Unnamed},
          overlap : SUBSET Executes]

Payloads == [st : {"none", "stored", "gone"}, memory : OldThreads \cup {Unnamed}]

\* A call that has deleted the payload leaves nothing for a later one.
Spent(e) == Served(e) /\ execute[e].pc # "taking"
SpentIsGone ==
    \A e \in Executes :
        /\ execute[e].pc = "reading" \/ Served(e) => execute[e].request \in RequestIds
        /\ Spent(e) => payload[execute[e].request].st = "gone"

PreparedInv == PreparedTypeOK /\ SpentIsGone /\ PayloadServedOnce

LEMMA PreparedInitial == PreparedInit => PreparedInv
BY DEF PreparedInit, PreparedInv, PreparedTypeOK, SpentIsGone, PayloadServedOnce, Served, Spent,
       IdleExecute

\* A step that moves one call along changes neither its request nor who it
\* overlapped with.
LEMMA CallMoves ==
    ASSUME PreparedInv, NEW e \in Executes,
           NEW pc \in {"asking", "saving", "saved", "responded", "failed"},
           ExecuteGo(e, pc), preparable' \in BOOLEAN,
           payload' \in [RequestIds -> Payloads],
           pc # "failed" => Served(e),
           \A r \in RequestIds : payload[r].st = "gone" => payload'[r].st = "gone",
           pc # "failed" => payload'[execute[e].request].st = "gone"
    PROVE  PreparedInv'
<1>1. /\ execute \in [Executes -> Calls]
      /\ execute' = [execute EXCEPT ![e] = [execute[e] EXCEPT !.pc = pc]]
  BY DEF PreparedInv, PreparedTypeOK, Calls, ExecuteGo
<1>2. /\ execute' \in [Executes -> Calls]
      /\ \A x \in Executes : /\ execute'[x].request = execute[x].request
                             /\ execute'[x].overlap = execute[x].overlap
                             /\ execute'[x].pc = IF x = e THEN pc ELSE execute[x].pc
  BY <1>1 DEF Calls
<1>3. \A x \in Executes : Served(x)' => Served(x)
  BY <1>2 DEF Served
<1>4. \A x \in Executes : Spent(x)' => Spent(x) \/ (x = e /\ pc # "failed")
  BY <1>2 DEF Served, Spent
<1>5. PreparedTypeOK'
  BY <1>2 DEF PreparedTypeOK, Calls, Payloads
<1>6. ASSUME NEW x \in Executes
      PROVE  /\ execute'[x].pc = "reading" \/ Served(x)' => execute'[x].request \in RequestIds
             /\ Spent(x)' => payload'[execute'[x].request].st = "gone"
  <2>1. execute'[x].pc = "reading" => execute[x].pc = "reading"
    BY <1>2
  <2>2. /\ execute[x].pc = "reading" \/ Served(x) => execute[x].request \in RequestIds
        /\ Spent(x) => Served(x) /\ payload[execute[x].request].st = "gone"
    BY DEF PreparedInv, SpentIsGone, Spent
  <2> QED
    BY <1>2, <1>3, <1>4, <2>1, <2>2
<1>7. PayloadServedOnce'
  BY <1>2, <1>3 DEF PreparedInv, PayloadServedOnce
<1> QED
  BY <1>5, <1>6, <1>7 DEF PreparedInv, SpentIsGone

LEMMA PreparedStep == PreparedInv /\ [PreparedNext]_preparedVars => PreparedInv'
<1> SUFFICES ASSUME PreparedInv, [PreparedNext]_preparedVars PROVE PreparedInv'
  OBVIOUS
<1> USE DEF PreparedInv
<1>0. payload \in [RequestIds -> Payloads]
  BY DEF PreparedTypeOK, Payloads
<1>1. ASSUME NEW r \in RequestIds, Prepare(r) \/ ExpirePayload(r) PROVE PreparedInv'
  <2>1. PICK new \in Payloads : /\ payload' = [payload EXCEPT ![r] = new]
                                /\ payload[r].st = "gone" => new.st = "gone"
    <3>1. CASE Prepare(r)
      BY <1>0, <3>1 DEF Prepare, Payloads
    <3>2. CASE ExpirePayload(r)
      <4>1. [payload[r] EXCEPT !.st = "gone"] \in Payloads
        BY <1>0 DEF Payloads
      <4> QED
        BY <1>0, <3>2, <4>1 DEF ExpirePayload, Spend, Payloads
    <3> QED
      BY <1>1, <3>1, <3>2
  <2>2. UNCHANGED <<execute, preparable>>
    BY <1>1 DEF Prepare, ExpirePayload
  <2>3. /\ payload' \in [RequestIds -> Payloads]
        /\ \A x \in RequestIds : payload[x].st = "gone" => payload'[x].st = "gone"
    BY <1>0, <2>1
  <2>4. PreparedTypeOK'
    BY <2>2, <2>3 DEF PreparedTypeOK, Payloads
  <2>5. SpentIsGone'
    BY <2>2, <2>3 DEF SpentIsGone, Served, Spent
  <2>6. PayloadServedOnce'
    BY <2>2 DEF PayloadServedOnce, Served
  <2> QED
    BY <2>4, <2>5, <2>6
<1>2. CASE DeletePrepared \/ UNCHANGED preparedVars
  BY <1>2 DEF DeletePrepared, preparedVars, PreparedTypeOK, SpentIsGone, PayloadServedOnce,
              Served, Spent
<1>3. ASSUME NEW e \in Executes, NEW r \in RequestIds, NEW caller \in Callers,
             NEW thread \in OldThreads \cup {NewThread}, StartExecute(e, r, caller, thread)
      PROVE  PreparedInv'
  <2> DEFINE found == preparable /\ (thread = NewThread \/ Owner[thread] = caller)
  <2>1. CASE found
    <3>1. execute' = [execute EXCEPT
              ![e] = [@ EXCEPT !.pc = "reading", !.request = r, !.thread = thread]]
      BY <1>3, <2>1 DEF StartExecute
    <3>2. execute' \in [Executes -> Calls]
      BY <3>1 DEF PreparedTypeOK, Calls
    <3>3. \A x \in Executes : x # e => execute'[x] = execute[x]
      BY <3>1 DEF PreparedTypeOK
    <3>4. execute'[e].pc = "reading" /\ execute'[e].request = r
      BY <3>1 DEF PreparedTypeOK
    <3> QED
      BY <1>3, <3>2, <3>3, <3>4, ZenonT(60)
      DEF StartExecute, PreparedTypeOK, Calls, SpentIsGone, PayloadServedOnce, Served, Spent
  <2>2. CASE ~found
    BY <1>0, <1>3, <2>2, CallMoves DEF StartExecute, PreparedTypeOK
  <2> QED
    BY <2>1, <2>2
<1>4. ASSUME NEW e \in Executes, ReadPayload(e) PROVE PreparedInv'
  <2> DEFINE req == execute[e].request
             holders == {h \in Executes \ {e} : execute[h].request = req
                                                /\ execute[h].pc = "taking"}
  <2>1. CASE payload[req].st = "stored"
    <3>1. execute' = [x \in Executes |->
                 IF x = e THEN [execute[e] EXCEPT !.pc = "taking", !.overlap = @ \cup holders]
                 ELSE IF x \in holders THEN [execute[x] EXCEPT !.overlap = @ \cup {e}]
                 ELSE execute[x]]
      BY <1>4, <2>1 DEF ReadPayload
    <3>2. /\ execute \in [Executes -> Calls]
          /\ execute' \in [Executes -> Calls]
      BY <3>1, ZenonT(60) DEF PreparedTypeOK, Calls
    <3>3. \A x \in Executes : /\ execute[x] \in Calls
                              /\ execute'[x] = IF x = e THEN [execute[e] EXCEPT !.pc = "taking",
                                                              !.overlap = @ \cup holders]
                                 ELSE IF x \in holders THEN [execute[x] EXCEPT !.overlap = @ \cup {e}]
                                 ELSE execute[x]
      BY <3>1, <3>2
    <3>4. /\ execute'[e].pc = "taking" /\ execute'[e].request = execute[e].request
          /\ execute'[e].overlap = execute[e].overlap \cup holders
      BY <3>3 DEF Calls
    <3>5. \A x \in holders : /\ execute'[x].pc = execute[x].pc
                             /\ execute'[x].request = execute[x].request
                             /\ execute'[x].overlap = execute[x].overlap \cup {e}
      BY <3>3 DEF Calls
    <3>6. \A x \in Executes : x # e /\ x \notin holders => execute'[x] = execute[x]
      BY <3>3
    <3> HIDE DEF holders
    <3>7. \A x \in Executes :
             /\ execute'[x].request = execute[x].request
             /\ execute[x].overlap \subseteq execute'[x].overlap
             /\ execute'[x].pc = IF x = e THEN "taking" ELSE execute[x].pc
      BY <3>4, <3>5, <3>6
    <3>8. /\ \A h \in holders : e \in execute'[h].overlap
          /\ holders \subseteq execute'[e].overlap
      BY <3>4, <3>5
    <3>9. \A x \in Executes \ {e} :
             Served(x)' /\ execute'[x].request = req => x \in holders
      BY <2>1, <3>7 DEF holders, SpentIsGone, Served, Spent
    <3>10. PayloadServedOnce'
      BY <3>7, <3>8, <3>9 DEF PayloadServedOnce, Served
    <3>11. SpentIsGone' /\ PreparedTypeOK'
      BY <1>4, <3>2, <3>7 DEF ReadPayload, SpentIsGone, PreparedTypeOK, Served, Spent, Calls
    <3> QED
      BY <3>10, <3>11
  <2>2. CASE payload[req].st # "stored"
    BY <1>0, <1>4, <2>2, CallMoves DEF ReadPayload, PreparedTypeOK
  <2> QED
    BY <2>1, <2>2
<1>5. ASSUME NEW e \in Executes, TakePayload(e) PROVE PreparedInv'
  <2> DEFINE req == execute[e].request
             new == [payload[req] EXCEPT !.st = "gone"]
  <2>1. Served(e) /\ req \in RequestIds
    BY <1>5 DEF TakePayload, Served, SpentIsGone
  <2>2. new \in Payloads /\ new.st = "gone" /\ payload' = [payload EXCEPT ![req] = new]
    BY <1>0, <1>5, <2>1 DEF TakePayload, Spend, Payloads
  <2> HIDE DEF new
  <2>3. /\ payload' \in [RequestIds -> Payloads] /\ payload'[req].st = "gone"
        /\ \A r \in RequestIds : payload[r].st = "gone" => payload'[r].st = "gone"
    BY <1>0, <2>1, <2>2
  <2> QED
    BY <1>5, <2>1, <2>3, CallMoves DEF TakePayload, PreparedTypeOK
<1>6. ASSUME NEW e \in Executes, AskModel(e) \/ SaveAnswer(e) \/ Respond(e) PROVE PreparedInv'
  <2>1. Served(e) /\ payload[execute[e].request].st = "gone"
    BY <1>6 DEF AskModel, SaveAnswer, Respond, Served, Spent, SpentIsGone
  <2> QED
    BY <1>0, <1>6, <2>1, CallMoves DEF AskModel, SaveAnswer, Respond, PreparedTypeOK
<1> QED
  BY <1>1, <1>2, <1>3, <1>4, <1>5, <1>6 DEF PreparedNext

(* The handler of chat/execute keeps its state within its types.           *)
THEOREM PreparedTypes == PreparedSpec => []PreparedTypeOK
<1>1. PreparedInv => PreparedTypeOK
  BY DEF PreparedInv
<1> QED
  BY PreparedInitial, PreparedStep, <1>1, PTL DEF PreparedSpec

(* Two calls are served the payload of one chat/prepare only if both read  *)
(* it before either deleted it: a retry after an answer is never served.   *)
THEOREM PreparedOnce == PreparedSpec => []PayloadServedOnce
<1>1. PreparedInv => PayloadServedOnce
  BY DEF PreparedInv
<1> QED
  BY PreparedInitial, PreparedStep, <1>1, PTL DEF PreparedSpec

-----------------------------------------------------------------------------
(* Web searches.                                                           *)

\* A search waits at most once on the chain, so the chain is no longer than
\* there are searchers.
Distinct == \A i, j \in 1 .. Len(chain) : chain[i] = chain[j] => i = j

Waiting == IF calling THEN Len(chain) - 1 ELSE Len(chain)

\* The calls of a month and the searches still to be called were all let in
\* while the budget lasted, but for at most the searchers less one.
Charged ==
    IF MonthlyBudget = 0 THEN chain = <<>> /\ calls = 0
    ELSE calls + Waiting < MonthlyBudget + Cardinality(Searchers)

SearchInv ==
    /\ SearchTypeOK
    /\ calling => chain # <<>>
    /\ Distinct
    /\ Charged

LEMMA SearchersAreCounted == Cardinality(Searchers) \in Nat
BY SearchAssumption, FS_CardinalityType

LEMMA ChainIsShort ==
    ASSUME NEW s \in Seq(Searchers), \A i, j \in 1 .. Len(s) : s[i] = s[j] => i = j
    PROVE  Len(s) \in Nat /\ Len(s) <= Cardinality(Searchers)
<1>1. /\ Len(s) \in Nat /\ s \in [1 .. Len(s) -> Searchers]
  BY LenProperties
<1>2. s \in Injection(1 .. Len(s), Searchers)
  BY <1>1 DEF Injection, IsInjective
<1>3. Cardinality(1 .. Len(s)) = Len(s)
  BY <1>1, FS_Interval
<1> QED
  BY <1>1, <1>2, <1>3, SearchAssumption, FS_Injection

LEMMA SearchInitial == SearchInit => SearchInv
<1> SUFFICES ASSUME SearchInit PROVE SearchInv
  OBVIOUS
<1>1. chain = <<>> /\ Len(chain) = 0 /\ chain \in Seq(Searchers) /\ ~calling
  BY DEF SearchInit
<1>2. SearchTypeOK
  <2>1. since \in 0 .. Timeout
    BY SearchAssumption DEF SearchInit
  <2>2. calling \in BOOLEAN /\ aborted \subseteq Searchers /\ calls \in Nat /\ month \in Nat
    BY DEF SearchInit
  <2> QED
    BY <1>1, <2>1, <2>2 DEF SearchTypeOK
<1>3. Charged
  BY <1>1, SearchAssumption, SearchersAreCounted DEF Charged, Waiting, SearchInit
<1> QED
  BY <1>1, <1>2, <1>3 DEF SearchInv, Distinct

LEMMA AskStep == ASSUME SearchInv, NEW s \in Searchers, Ask(s) PROVE SearchInv'
<1> DEFINE n == Len(chain)
<1>1. /\ chain \in Seq(Searchers) /\ n \in Nat /\ DOMAIN chain = 1 .. n
      /\ MonthlyBudget \in Nat /\ calls \in Nat
  BY SearchAssumption, LenProperties DEF SearchInv, SearchTypeOK
<1>2. /\ chain' = Append(chain, s) /\ chain' \in Seq(Searchers) /\ Len(chain') = n + 1
      /\ \A i \in 1 .. n : chain'[i] = chain[i]
      /\ chain'[n + 1] = s
  BY <1>1 DEF Ask
<1>3. \A i \in 1 .. n : chain[i] # s
  BY <1>1 DEF Ask, Range
<1>4. Distinct'
  BY <1>1, <1>2, <1>3 DEF Distinct, SearchInv
<1>5. Len(chain') <= Cardinality(Searchers)
  BY <1>2, <1>4, ChainIsShort DEF Distinct
<1>6. Charged'
  BY <1>1, <1>2, <1>5, SearchersAreCounted DEF Ask, Charged, Waiting
<1>7. SearchTypeOK' /\ (calling' => chain' # <<>>)
  BY <1>1, <1>2 DEF Ask, SearchInv, SearchTypeOK
<1> QED
  BY <1>4, <1>6, <1>7 DEF SearchInv

LEMMA CallStep == ASSUME SearchInv, CallProvider PROVE SearchInv'
<1>1. /\ chain \in Seq(Searchers) /\ Len(chain) \in Nat /\ MonthlyBudget \in Nat /\ calls \in Nat
      /\ 0 \in 0 .. Timeout
  BY SearchAssumption, LenProperties DEF SearchInv, SearchTypeOK
<1>2. Charged'
  BY <1>1, SearchersAreCounted DEF SearchInv, CallProvider, Charged, Waiting
<1> QED
  BY <1>1, <1>2 DEF SearchInv, CallProvider, SearchTypeOK, Distinct

LEMMA EndStep == ASSUME SearchInv, EndCall PROVE SearchInv'
<1>1. /\ chain \in Seq(Searchers) /\ chain # <<>> /\ Len(chain) \in Nat
      /\ MonthlyBudget \in Nat /\ calls \in Nat
  BY SearchAssumption, LenProperties DEF SearchInv, SearchTypeOK, EndCall
<1>2. /\ chain' \in Seq(Searchers) /\ Len(chain') = Len(chain) - 1 /\ Len(chain') \in Nat
      /\ \A i \in 1 .. Len(chain') : chain'[i] = chain[i + 1]
  <2>1. Len(chain) \in Nat \ {0}
    BY <1>1, EmptySeq
  <2> QED
    BY <1>1, <2>1, HeadTailProperties DEF EndCall
<1>3. Distinct'
  <2> SUFFICES ASSUME NEW i \in 1 .. Len(chain'), NEW j \in 1 .. Len(chain'), chain'[i] = chain'[j]
               PROVE  i = j
    BY DEF Distinct
  <2>1. i + 1 \in 1 .. Len(chain) /\ j + 1 \in 1 .. Len(chain) /\ chain[i + 1] = chain[j + 1]
    BY <1>1, <1>2
  <2> QED
    BY <2>1 DEF SearchInv, Distinct
<1>4. Charged'
  BY <1>1, <1>2, SearchersAreCounted DEF SearchInv, EndCall, Charged, Waiting
<1> QED
  BY <1>1, <1>2, <1>3, <1>4 DEF SearchInv, EndCall, SearchTypeOK

LEMMA SearchStep == SearchInv /\ [SearchNext]_searchVars => SearchInv'
<1> SUFFICES ASSUME SearchInv, [SearchNext]_searchVars PROVE SearchInv'
  OBVIOUS
<1>1. ASSUME NEW s \in Searchers, AbortSearch(s) PROVE SearchInv'
  BY <1>1 DEF AbortSearch, SearchInv, SearchTypeOK, Distinct, Charged, Waiting
<1>2. CASE SearchTick
  BY <1>2, SearchAssumption DEF SearchTick, SearchInv, SearchTypeOK, Distinct, Charged, Waiting
<1>3. CASE NewMonth
  <2>1. Len(chain) \in Nat /\ Len(chain) <= Cardinality(Searchers)
    BY ChainIsShort DEF SearchInv, SearchTypeOK, Distinct
  <2>2. Charged'
    BY <1>3, <2>1, SearchAssumption, SearchersAreCounted
    DEF NewMonth, SearchInv, SearchTypeOK, Charged, Waiting
  <2> QED
    BY <1>3, <2>2 DEF NewMonth, SearchInv, SearchTypeOK, Distinct
<1>4. CASE UNCHANGED searchVars
  BY <1>4 DEF searchVars, SearchInv, SearchTypeOK, Distinct, Charged, Waiting
<1> QED
  BY <1>1, <1>2, <1>3, <1>4, AskStep, CallStep, EndStep DEF SearchNext

LEMMA SearchAlways == SearchSpec => []SearchInv
BY SearchInitial, SearchStep, PTL DEF SearchSpec

(* The chain holds searches, and the counters stay counters.               *)
THEOREM SearchTypes == SearchSpec => []SearchTypeOK
<1>1. SearchInv => SearchTypeOK
  BY DEF SearchInv
<1> QED
  BY SearchAlways, <1>1, PTL

(* A month's calls never reach the budget plus the number of searchers:    *)
(* what exceeds the budget was already waiting when it ran out.            *)
THEOREM SearchBudget == SearchSpec => []BudgetOverrun
<1>1. SearchInv => BudgetOverrun
  <2> SUFFICES ASSUME SearchInv, calls > 0 PROVE calls < MonthlyBudget + Cardinality(Searchers)
    BY DEF BudgetOverrun
  <2>1. Len(chain) \in Nat /\ (calling => Len(chain) > 0)
    BY LenProperties, EmptySeq DEF SearchInv, SearchTypeOK
  <2>2. Waiting \in Nat
    BY <2>1 DEF Waiting
  <2> QED
    BY <2>2, SearchAssumption, SearchersAreCounted DEF SearchInv, SearchTypeOK, Charged
<1> QED
  BY SearchAlways, <1>1, PTL

-----------------------------------------------------------------------------
(* The model and the reason of an answer.                                  *)

Fields == {"pc", "path", "todo", "provider", "reason", "kept", "best", "law", "asksWeb", "web",
           "found", "model", "called", "confidence", "notFound"}

AnswersAreRecords == DOMAIN answers = Asked /\ \A q \in Asked : DOMAIN answers[q] = Fields

\* What question q relies on of the provider the workspace has now, as long as
\* that did not change: a stream from the reading of the settings to the call, a
\* prepared request from the model in its payload to the call.
ProviderKept(q) ==
    LET a == answers[q]
    IN /\ a.called # "none" => a.pc \in {"called", "replied"}
       /\ a.pc = "prepared" => a.path = "prepare"
       /\ q \notin rechosen =>
             /\ a.path = "stream" /\ (a.pc = "searched" \/ (a.pc = "reading" /\ "settings" \notin a.todo))
                   => a.provider = chosen
             /\ legalMode /\ a.pc = "prepared" => a.model \in {"default", chosen}
             /\ legalMode /\ a.called # "none" => a.model \in {"default", a.called}

\* The same of the chunks: a stream from the reading of their state to the
\* search, a prepared request from the search to the reading.
ChunksKept(q) ==
    LET a == answers[q]
    IN /\ a.path \in {"stream", "prepare"}
       /\ a.pc = "idle" => a.reason = "unread"
       /\ a.path = "stream" /\ a.pc = "reading" /\ "chunks" \notin a.todo => a.reason # "unread"
       /\ a.pc = "replied" /\ a.notFound => q \in reindexed \/ a.reason = a.found
       /\ q \notin reindexed =>
             /\ a.path = "stream" /\ a.pc = "reading" /\ a.reason # "unread" => a.reason = ChunkState
             /\ a.path = "stream" /\ a.pc \in {"searched", "called"} => a.reason = a.found
             /\ a.path = "prepare" /\ a.pc \in {"searched", "prepared", "called"} => a.found = ChunkState

AnsweringInv == AnswersAreRecords /\ \A q \in Asked : ProviderKept(q) /\ ChunksKept(q)

LEMMA AnsweringInitial == AnsweringInit => AnsweringInv
<1> SUFFICES ASSUME AnsweringInit PROVE AnsweringInv
  OBVIOUS
<1>1. answers = [q \in Asked |-> Unread]
  BY DEF AnsweringInit
<1>2. AnswersAreRecords
  BY <1>1 DEF AnswersAreRecords, Unread, Fields
<1>3. ASSUME NEW q \in Asked PROVE ProviderKept(q) /\ ChunksKept(q)
  BY <1>1 DEF ProviderKept, ChunksKept, Unread
<1>4. QED
  BY <1>2, <1>3 DEF AnsweringInv

\* Know changes one record, in the fields it is given.
LEMMA Learned ==
    ASSUME AnswersAreRecords, NEW q \in Asked, NEW what, DOMAIN what \subseteq Fields,
           Know(q, what)
    PROVE  /\ AnswersAreRecords'
           /\ \A x \in Asked \ {q} : answers'[x] = answers[x]
           /\ \A k \in Fields : answers'[q][k] = IF k \in DOMAIN what THEN what[k] ELSE answers[q][k]
<1> DEFINE new == [x \in DOMAIN answers[q] |-> IF x \in DOMAIN what THEN what[x] ELSE answers[q][x]]
<1>1. answers' = [answers EXCEPT ![q] = new]
  BY DEF Know
<1>2. DOMAIN new = Fields /\ \A k \in Fields : new[k] = IF k \in DOMAIN what THEN what[k] ELSE answers[q][k]
  BY DEF AnswersAreRecords
<1> HIDE DEF new
<1>3. QED
  BY <1>1, <1>2 DEF AnswersAreRecords

LEMMA ChunkStateRead == ChunkState # "unread"
BY DEF ChunkState

\* So a step of one question keeps the invariant if it keeps that question's part.
LEMMA OneAnswer ==
    ASSUME AnsweringInv, NEW q \in Asked, NEW what, DOMAIN what \subseteq Fields, Know(q, what),
           UNCHANGED <<legalMode, chosen, chunkRanks, rechosen, reindexed>>,
           (\A k \in Fields : answers'[q][k] = IF k \in DOMAIN what THEN what[k] ELSE answers[q][k])
               => ProviderKept(q)' /\ ChunksKept(q)'
    PROVE  AnsweringInv'
<1>1. /\ AnswersAreRecords'
      /\ \A x \in Asked \ {q} : answers'[x] = answers[x]
      /\ ProviderKept(q)' /\ ChunksKept(q)'
  BY Learned DEF AnsweringInv
<1>2. ASSUME NEW x \in Asked \ {q}
      PROVE  ProviderKept(x)' /\ ChunksKept(x)'
  BY <1>1 DEF AnsweringInv, ProviderKept, ChunksKept, ChunkState
<1>3. QED
  BY <1>1, <1>2 DEF AnsweringInv

LEMMA AskStreamKeeps ==
    ASSUME AnsweringInv, NEW q \in Asked, AskStream(q)
    PROVE  AnsweringInv'
<1> DEFINE what == [pc |-> "reading", path |-> "stream", todo |-> {"settings", "chunks"}]
<1>1. /\ Know(q, what) /\ answers[q].pc = "idle"
      /\ UNCHANGED <<legalMode, chosen, chunkRanks, rechosen, reindexed>>
  BY DEF AskStream
<1>2. DOMAIN what \subseteq Fields
  BY DEF Fields
<1>3. ASSUME \A k \in Fields : answers'[q][k] = IF k \in DOMAIN what THEN what[k] ELSE answers[q][k]
      PROVE  ProviderKept(q)' /\ ChunksKept(q)'
  <2>1. ProviderKept(q)'
    BY <1>1, <1>3 DEF Fields, AnsweringInv, ProviderKept
  <2>2. ChunksKept(q)'
    BY <1>1, <1>3, ChunkStateRead DEF Fields, AnsweringInv, ChunksKept, ChunkState
  <2>3. QED
    BY <2>1, <2>2
<1> HIDE DEF what
<1>4. QED
  BY <1>1, <1>2, <1>3, OneAnswer

LEMMA AskPrepareKeeps ==
    ASSUME AnsweringInv, NEW q \in Asked, AskPrepare(q)
    PROVE  AnsweringInv'
<1> DEFINE what == [pc |-> "reading", path |-> "prepare", todo |-> {"chunks"}]
<1>1. /\ Know(q, what) /\ answers[q].pc = "idle"
      /\ UNCHANGED <<legalMode, chosen, chunkRanks, rechosen, reindexed>>
  BY DEF AskPrepare
<1>2. DOMAIN what \subseteq Fields
  BY DEF Fields
<1>3. ASSUME \A k \in Fields : answers'[q][k] = IF k \in DOMAIN what THEN what[k] ELSE answers[q][k]
      PROVE  ProviderKept(q)' /\ ChunksKept(q)'
  <2>1. ProviderKept(q)'
    BY <1>1, <1>3 DEF Fields, AnsweringInv, ProviderKept
  <2>2. ChunksKept(q)'
    BY <1>1, <1>3, ChunkStateRead DEF Fields, AnsweringInv, ChunksKept, ChunkState
  <2>3. QED
    BY <2>1, <2>2
<1> HIDE DEF what
<1>4. QED
  BY <1>1, <1>2, <1>3, OneAnswer

LEMMA ReadSettingsKeeps ==
    ASSUME AnsweringInv, NEW q \in Asked, ReadSettings(q)
    PROVE  AnsweringInv'
<1> DEFINE what == [provider |-> chosen, todo |-> answers[q].todo \ {"settings"}]
<1>1. /\ Know(q, what) /\ answers[q].pc = "reading"
      /\ UNCHANGED <<legalMode, chosen, chunkRanks, rechosen, reindexed>>
  BY DEF ReadSettings
<1>2. DOMAIN what \subseteq Fields
  BY DEF Fields
<1>3. ASSUME \A k \in Fields : answers'[q][k] = IF k \in DOMAIN what THEN what[k] ELSE answers[q][k]
      PROVE  ProviderKept(q)' /\ ChunksKept(q)'
  <2>1. ProviderKept(q)'
    BY <1>1, <1>3 DEF Fields, AnsweringInv, ProviderKept
  <2>2. ChunksKept(q)'
    BY <1>1, <1>3, ChunkStateRead DEF Fields, AnsweringInv, ChunksKept, ChunkState
  <2>3. QED
    BY <2>1, <2>2
<1> HIDE DEF what
<1>4. QED
  BY <1>1, <1>2, <1>3, OneAnswer

LEMMA ReadChunkStateKeeps ==
    ASSUME AnsweringInv, NEW q \in Asked, ReadChunkState(q)
    PROVE  AnsweringInv'
<1> DEFINE what == [reason |-> ChunkState, todo |-> answers[q].todo \ {"chunks"}]
<1>1. /\ Know(q, what) /\ answers[q].pc = "reading"
      /\ UNCHANGED <<legalMode, chosen, chunkRanks, rechosen, reindexed>>
  BY DEF ReadChunkState
<1>2. DOMAIN what \subseteq Fields
  BY DEF Fields
<1>3. ASSUME \A k \in Fields : answers'[q][k] = IF k \in DOMAIN what THEN what[k] ELSE answers[q][k]
      PROVE  ProviderKept(q)' /\ ChunksKept(q)'
  <2>1. ProviderKept(q)'
    BY <1>1, <1>3 DEF Fields, AnsweringInv, ProviderKept
  <2>2. ChunksKept(q)'
    BY <1>1, <1>3, ChunkStateRead DEF Fields, AnsweringInv, ChunksKept, ChunkState
  <2>3. QED
    BY <2>1, <2>2
<1> HIDE DEF what
<1>4. QED
  BY <1>1, <1>2, <1>3, OneAnswer

LEMMA SearchKeeps ==
    ASSUME AnsweringInv, NEW q \in Asked, NEW law, NEW hits, Search(q, law, hits)
    PROVE  AnsweringInv'
<1> DEFINE what == [pc |-> "searched", kept |-> Cardinality(Kept), best |-> Best, law |-> law,
                    asksWeb |-> CallsWeb(q), web |-> hits /\ RunsWeb, found |-> ChunkState]
<1>1. /\ Know(q, what) /\ answers[q].pc = "reading" /\ answers[q].todo = {}
      /\ UNCHANGED <<legalMode, chosen, chunkRanks, rechosen, reindexed>>
  BY DEF Search
<1>2. DOMAIN what \subseteq Fields
  BY DEF Fields
<1>3. ASSUME \A k \in Fields : answers'[q][k] = IF k \in DOMAIN what THEN what[k] ELSE answers[q][k]
      PROVE  ProviderKept(q)' /\ ChunksKept(q)'
  <2>1. ProviderKept(q)'
    BY <1>1, <1>3 DEF Fields, AnsweringInv, ProviderKept
  <2>2. ChunksKept(q)'
    BY <1>1, <1>3, ChunkStateRead DEF Fields, AnsweringInv, ChunksKept, ChunkState
  <2>3. QED
    BY <2>1, <2>2
<1> HIDE DEF what
<1>4. QED
  BY <1>1, <1>2, <1>3, OneAnswer

LEMMA ResolveModelKeeps ==
    ASSUME AnsweringInv, NEW q \in Asked, ResolveModel(q)
    PROVE  AnsweringInv'
<1> DEFINE what == [pc |-> "prepared", provider |-> chosen,
                    model |-> IF legalMode THEN ReviewModel(chosen) ELSE "chat"]
<1>1. /\ Know(q, what) /\ answers[q].pc = "searched" /\ answers[q].path = "prepare"
      /\ UNCHANGED <<legalMode, chosen, chunkRanks, rechosen, reindexed>>
  BY DEF ResolveModel
<1>2. DOMAIN what \subseteq Fields
  BY DEF Fields
<1>3. ASSUME \A k \in Fields : answers'[q][k] = IF k \in DOMAIN what THEN what[k] ELSE answers[q][k]
      PROVE  ProviderKept(q)' /\ ChunksKept(q)'
  <2>1. ProviderKept(q)'
    BY <1>1, <1>3 DEF Fields, AnsweringInv, ProviderKept, ReviewModel
  <2>2. ChunksKept(q)'
    BY <1>1, <1>3, ChunkStateRead DEF Fields, AnsweringInv, ChunksKept, ChunkState
  <2>3. QED
    BY <2>1, <2>2
<1> HIDE DEF what
<1>4. QED
  BY <1>1, <1>2, <1>3, OneAnswer

LEMMA CallLegalKeeps ==
    ASSUME AnsweringInv, NEW q \in Asked, CallLegal(q)
    PROVE  AnsweringInv'
<1> DEFINE what == [pc |-> "called", called |-> chosen, confidence |-> "its own",
                    model |-> IF ReviewModel(answers[q].provider) # "default"
                              THEN ReviewModel(answers[q].provider) ELSE ReviewModel(chosen)]
<1>1. /\ Know(q, what) /\ answers[q].pc = "searched" /\ answers[q].path = "stream"
      /\ UNCHANGED <<legalMode, chosen, chunkRanks, rechosen, reindexed>>
  BY DEF CallLegal, CallStructured
<1>2. DOMAIN what \subseteq Fields
  BY DEF Fields
<1>3. ASSUME \A k \in Fields : answers'[q][k] = IF k \in DOMAIN what THEN what[k] ELSE answers[q][k]
      PROVE  ProviderKept(q)' /\ ChunksKept(q)'
  <2>1. ProviderKept(q)'
    BY <1>1, <1>3, ZenonT(60) DEF Fields, AnsweringInv, ProviderKept, ReviewModel, CallLegal, CallStructured
  <2>2. ChunksKept(q)'
    BY <1>1, <1>3, ChunkStateRead, ZenonT(60) DEF Fields, AnsweringInv, ChunksKept, ChunkState
  <2>3. QED
    BY <2>1, <2>2
<1> HIDE DEF what
<1>4. QED
  BY <1>1, <1>2, <1>3, OneAnswer

LEMMA CallPreparedKeeps ==
    ASSUME AnsweringInv, NEW q \in Asked, CallPrepared(q)
    PROVE  AnsweringInv'
<1> DEFINE what == [pc |-> "called", called |-> chosen, confidence |-> "its own",
                    model |-> IF answers[q].model # "default"
                              THEN answers[q].model ELSE ReviewModel(chosen)]
<1>1. /\ Know(q, what) /\ answers[q].pc = "prepared"
      /\ UNCHANGED <<legalMode, chosen, chunkRanks, rechosen, reindexed>>
  BY DEF CallPrepared, CallStructured
<1>2. DOMAIN what \subseteq Fields
  BY DEF Fields
<1>3. ASSUME \A k \in Fields : answers'[q][k] = IF k \in DOMAIN what THEN what[k] ELSE answers[q][k]
      PROVE  ProviderKept(q)' /\ ChunksKept(q)'
  <2>1. ProviderKept(q)'
    BY <1>1, <1>3 DEF Fields, AnsweringInv, ProviderKept, ReviewModel
  <2>2. /\ answers'[q].pc = "called" /\ answers[q].path = "prepare"
        /\ answers'[q].path = answers[q].path /\ answers'[q].found = answers[q].found
    BY <1>1, <1>3 DEF Fields, AnsweringInv, ProviderKept
  <2>4. ChunkState' = ChunkState
    BY <1>1 DEF ChunkState
  <2>5. ChunksKept(q)'
    BY <1>1, <2>2, <2>4 DEF AnsweringInv, ChunksKept
  <2>3. QED
    BY <2>1, <2>5
<1> HIDE DEF what
<1>4. QED
  BY <1>1, <1>2, <1>3, OneAnswer

LEMMA CallStreamKeeps ==
    ASSUME AnsweringInv, NEW q \in Asked, CallStream(q)
    PROVE  AnsweringInv'
<1> DEFINE what == [pc |-> "called", called |-> answers[q].provider, model |-> "chat",
                    confidence |-> Confidence(answers[q])]
<1>1. /\ Know(q, what) /\ answers[q].pc = "searched" /\ answers[q].path = "stream" /\ ~legalMode
      /\ UNCHANGED <<legalMode, chosen, chunkRanks, rechosen, reindexed>>
  BY DEF CallStream
<1>2. DOMAIN what \subseteq Fields
  BY DEF Fields
<1>3. ASSUME \A k \in Fields : answers'[q][k] = IF k \in DOMAIN what THEN what[k] ELSE answers[q][k]
      PROVE  ProviderKept(q)' /\ ChunksKept(q)'
  <2>1. ProviderKept(q)'
    BY <1>1, <1>3 DEF Fields, AnsweringInv, ProviderKept
  <2>2. ChunksKept(q)'
    BY <1>1, <1>3, ChunkStateRead DEF Fields, AnsweringInv, ChunksKept, ChunkState
  <2>3. QED
    BY <2>1, <2>2
<1> HIDE DEF what
<1>4. QED
  BY <1>1, <1>2, <1>3, OneAnswer

LEMMA ReplyKeeps ==
    ASSUME AnsweringInv, NEW q \in Asked, Reply(q)
    PROVE  AnsweringInv'
<1> DEFINE what == [pc |-> "replied", notFound |-> Empty(answers[q]),
                    reason |-> IF Empty(answers[q]) THEN Reason(q) ELSE "unread"]
<1>1. /\ Know(q, what) /\ answers[q].pc = "called"
      /\ UNCHANGED <<legalMode, chosen, chunkRanks, rechosen, reindexed>>
  BY DEF Reply
<1>2. DOMAIN what \subseteq Fields
  BY DEF Fields
<1>3. ASSUME \A k \in Fields : answers'[q][k] = IF k \in DOMAIN what THEN what[k] ELSE answers[q][k]
      PROVE  ProviderKept(q)' /\ ChunksKept(q)'
  <2>1. ProviderKept(q)'
    BY <1>1, <1>3 DEF Fields, AnsweringInv, ProviderKept
  <2>2. ChunksKept(q)'
    BY <1>1, <1>3, ChunkStateRead DEF Fields, AnsweringInv, ChunksKept, ChunkState, Reason
  <2>3. QED
    BY <2>1, <2>2
<1> HIDE DEF what
<1>4. QED
  BY <1>1, <1>2, <1>3, OneAnswer

LEMMA AnsweringFailsKeeps ==
    ASSUME AnsweringInv, NEW q \in Asked, AnsweringFails(q)
    PROVE  AnsweringInv'
<1> DEFINE what == [pc |-> "replied", notFound |-> FALSE, reason |-> "unread"]
<1>1. /\ Know(q, what) /\ answers[q].pc \notin {"idle", "replied"}
      /\ UNCHANGED <<legalMode, chosen, chunkRanks, rechosen, reindexed>>
  BY DEF AnsweringFails
<1>2. DOMAIN what \subseteq Fields
  BY DEF Fields
<1>3. ASSUME \A k \in Fields : answers'[q][k] = IF k \in DOMAIN what THEN what[k] ELSE answers[q][k]
      PROVE  ProviderKept(q)' /\ ChunksKept(q)'
  <2>1. ProviderKept(q)'
    BY <1>1, <1>3 DEF Fields, AnsweringInv, ProviderKept
  <2>2. ChunksKept(q)'
    BY <1>1, <1>3, ChunkStateRead DEF Fields, AnsweringInv, ChunksKept, ChunkState
  <2>3. QED
    BY <2>1, <2>2
<1> HIDE DEF what
<1>4. QED
  BY <1>1, <1>2, <1>3, OneAnswer

\* A change of the provider or of the index marks the questions it concerns.
LEMMA ChooseProviderKeeps ==
    ASSUME AnsweringInv, ChooseProvider
    PROVE  AnsweringInv'
<1>1. /\ UNCHANGED <<legalMode, chunkRanks, answers, reindexed>>
      /\ \A q \in Asked : q \notin rechosen' =>
             q \notin rechosen /\ answers[q].pc \in {"idle", "replied"}
  BY DEF ChooseProvider
<1>2. ASSUME NEW q \in Asked
      PROVE  ProviderKept(q)' /\ ChunksKept(q)'
  BY <1>1 DEF AnsweringInv, ProviderKept, ChunksKept, ChunkState
<1>3. QED
  BY <1>1, <1>2 DEF AnsweringInv, AnswersAreRecords

LEMMA IndexChangesKeeps ==
    ASSUME AnsweringInv, IndexChanges
    PROVE  AnsweringInv'
<1>1. /\ UNCHANGED <<legalMode, chosen, answers, rechosen>>
      /\ \A q \in Asked : q \notin reindexed' => q \notin reindexed /\ ~Between(q)
      /\ reindexed \subseteq reindexed'
  BY DEF IndexChanges
<1>2. ASSUME NEW q \in Asked
      PROVE  ProviderKept(q)' /\ ChunksKept(q)'
  BY <1>1 DEF AnsweringInv, ProviderKept, ChunksKept, Between
<1>3. QED
  BY <1>1, <1>2 DEF AnsweringInv, AnswersAreRecords

LEMMA AnsweringStep == AnsweringInv /\ [AnsweringNext]_answeringVars => AnsweringInv'
<1> SUFFICES ASSUME AnsweringInv, [AnsweringNext]_answeringVars
             PROVE  AnsweringInv'
  OBVIOUS
<1>1. CASE UNCHANGED answeringVars
  BY <1>1 DEF answeringVars, AnsweringInv, AnswersAreRecords, ProviderKept, ChunksKept, ChunkState
<1>2. CASE ChooseProvider \/ IndexChanges
  BY <1>2, ChooseProviderKeeps, IndexChangesKeeps
<1>3. ASSUME NEW q \in Asked,
             AskStream(q) \/ AskPrepare(q) \/ ReadSettings(q) \/ ReadChunkState(q)
             \/ \E law \in {0} \cup (SeenRanks \cap {2, 3}), hits \in BOOLEAN : Search(q, law, hits)
      PROVE  AnsweringInv'
  BY <1>3, AskStreamKeeps, AskPrepareKeeps, ReadSettingsKeeps, ReadChunkStateKeeps, SearchKeeps
<1>4. ASSUME NEW q \in Asked,
             ResolveModel(q) \/ CallStream(q) \/ CallLegal(q) \/ CallPrepared(q)
             \/ Reply(q) \/ AnsweringFails(q)
      PROVE  AnsweringInv'
  BY <1>4, ResolveModelKeeps, CallStreamKeeps, CallLegalKeeps, CallPreparedKeeps, ReplyKeeps,
     AnsweringFailsKeeps
<1>5. QED
  BY <1>1, <1>2, <1>3, <1>4 DEF AnsweringNext

\* The part of the types that is one question's: it only ever learns a provider
\* there is.
Typed(a) ==
    /\ a.pc \in {"idle", "reading", "searched", "prepared", "called", "replied"}
    /\ a.reason \in Reasons /\ a.found \in Reasons
    /\ a.provider \in Providers \cup {"none"}
    /\ a.model \in Providers \cup {"default", "chat"}
    /\ a.called \in Providers \cup {"none"}

AnsweringTyped ==
    /\ AnswersAreRecords /\ chosen \in Providers
    /\ chunkRanks \in [ChunkIds -> Ranks \cup {Blank, Absent}]
    /\ \A q \in Asked : Typed(answers[q])

LEMMA AnsweringTypedInit == AnsweringInit => AnsweringTyped
<1> SUFFICES ASSUME AnsweringInit PROVE AnsweringTyped
  OBVIOUS
<1>1. AnswersAreRecords
  BY AnsweringInitial DEF AnsweringInv
<1>2. \A q \in Asked : Typed(answers[q])
  BY DEF AnsweringInit, Unread, Typed, Reasons
<1> QED
  BY <1>1, <1>2 DEF AnsweringInit, AnsweringTyped

LEMMA AnswerTypedKept ==
    ASSUME AnsweringTyped, NEW q \in Asked, NEW what, DOMAIN what \subseteq Fields, Know(q, what),
           UNCHANGED <<chosen, chunkRanks>>,
           (\A k \in Fields : answers'[q][k] = IF k \in DOMAIN what THEN what[k] ELSE answers[q][k])
               => Typed(answers'[q])
    PROVE  AnsweringTyped'
<1>1. /\ AnswersAreRecords' /\ \A x \in Asked \ {q} : answers'[x] = answers[x]
      /\ Typed(answers'[q])
  BY Learned DEF AnsweringTyped
<1>2. \A x \in Asked : Typed(answers'[x])
  BY <1>1 DEF AnsweringTyped
<1> QED
  BY <1>1, <1>2 DEF AnsweringTyped

LEMMA ChunkStateTyped == ChunkState \in Reasons
BY DEF ChunkState, Reasons

LEMMA ReviewModelTyped ==
    ASSUME NEW p \in Providers \cup {"none"}
    PROVE  ReviewModel(p) \in Providers \cup {"default", "chat"}
BY AnsweringAssumption DEF ReviewModel

\* From the question to its context nothing but the provider and the reason is
\* learned that the types speak of.
LEMMA ReadingTyped ==
    ASSUME AnsweringTyped, NEW q \in Asked,
           AskStream(q) \/ AskPrepare(q) \/ ReadSettings(q) \/ ReadChunkState(q)
           \/ \E law \in {0} \cup (SeenRanks \cap {2, 3}), hits \in BOOLEAN : Search(q, law, hits)
    PROVE  AnsweringTyped'
<1>0. Typed(answers[q]) /\ chosen \in Providers
  BY DEF AnsweringTyped
<1>1. CASE AskStream(q)
  <2> DEFINE what == [pc |-> "reading", path |-> "stream", todo |-> {"settings", "chunks"}]
  <2>1. Know(q, what) /\ UNCHANGED <<chosen, chunkRanks>> /\ DOMAIN what \subseteq Fields
    BY <1>1 DEF AskStream, Fields
  <2>2. (\A k \in Fields : answers'[q][k] = IF k \in DOMAIN what THEN what[k] ELSE answers[q][k])
           => Typed(answers'[q])
    BY <1>0 DEF Fields, Typed
  <2> HIDE DEF what
  <2> QED
    BY <2>1, <2>2, AnswerTypedKept
<1>2. CASE AskPrepare(q)
  <2> DEFINE what == [pc |-> "reading", path |-> "prepare", todo |-> {"chunks"}]
  <2>1. Know(q, what) /\ UNCHANGED <<chosen, chunkRanks>> /\ DOMAIN what \subseteq Fields
    BY <1>2 DEF AskPrepare, Fields
  <2>2. (\A k \in Fields : answers'[q][k] = IF k \in DOMAIN what THEN what[k] ELSE answers[q][k])
           => Typed(answers'[q])
    BY <1>0 DEF Fields, Typed
  <2> HIDE DEF what
  <2> QED
    BY <2>1, <2>2, AnswerTypedKept
<1>3. CASE ReadSettings(q)
  <2> DEFINE what == [provider |-> chosen, todo |-> answers[q].todo \ {"settings"}]
  <2>1. Know(q, what) /\ UNCHANGED <<chosen, chunkRanks>> /\ DOMAIN what \subseteq Fields
    BY <1>3 DEF ReadSettings, Fields
  <2>2. (\A k \in Fields : answers'[q][k] = IF k \in DOMAIN what THEN what[k] ELSE answers[q][k])
           => Typed(answers'[q])
    BY <1>0 DEF Fields, Typed
  <2> HIDE DEF what
  <2> QED
    BY <2>1, <2>2, AnswerTypedKept
<1>4. CASE ReadChunkState(q)
  <2> DEFINE what == [reason |-> ChunkState, todo |-> answers[q].todo \ {"chunks"}]
  <2>1. Know(q, what) /\ UNCHANGED <<chosen, chunkRanks>> /\ DOMAIN what \subseteq Fields
    BY <1>4 DEF ReadChunkState, Fields
  <2>2. (\A k \in Fields : answers'[q][k] = IF k \in DOMAIN what THEN what[k] ELSE answers[q][k])
           => Typed(answers'[q])
    BY <1>0, ChunkStateTyped DEF Fields, Typed
  <2> HIDE DEF what
  <2> QED
    BY <2>1, <2>2, AnswerTypedKept
<1>5. ASSUME NEW law, NEW hits, Search(q, law, hits) PROVE AnsweringTyped'
  <2> DEFINE what == [pc |-> "searched", kept |-> Cardinality(Kept), best |-> Best, law |-> law,
                      asksWeb |-> CallsWeb(q), web |-> hits /\ RunsWeb, found |-> ChunkState]
  <2>1. Know(q, what) /\ UNCHANGED <<chosen, chunkRanks>> /\ DOMAIN what \subseteq Fields
    BY <1>5 DEF Search, Fields
  <2>2. (\A k \in Fields : answers'[q][k] = IF k \in DOMAIN what THEN what[k] ELSE answers[q][k])
           => Typed(answers'[q])
    BY <1>0, ChunkStateTyped DEF Fields, Typed
  <2> HIDE DEF what
  <2> QED
    BY <2>1, <2>2, AnswerTypedKept
<1> QED
  BY <1>1, <1>2, <1>3, <1>4, <1>5

\* Whichever way the model is called, its name is a provider's, the default or
\* chatModel.
LEMMA CallingTyped ==
    ASSUME AnsweringTyped, NEW q \in Asked,
           ResolveModel(q) \/ CallStream(q) \/ CallLegal(q) \/ CallPrepared(q)
    PROVE  AnsweringTyped'
<1>0. Typed(answers[q]) /\ chosen \in Providers
  BY DEF AnsweringTyped
<1>1. CASE ResolveModel(q)
  <2> DEFINE what == [pc |-> "prepared", provider |-> chosen,
                      model |-> IF legalMode THEN ReviewModel(chosen) ELSE "chat"]
  <2>1. Know(q, what) /\ UNCHANGED <<chosen, chunkRanks>> /\ DOMAIN what \subseteq Fields
    BY <1>1 DEF ResolveModel, Fields
  <2>2. (\A k \in Fields : answers'[q][k] = IF k \in DOMAIN what THEN what[k] ELSE answers[q][k])
           => Typed(answers'[q])
    BY <1>0, ReviewModelTyped DEF Fields, Typed
  <2> HIDE DEF what
  <2> QED
    BY <2>1, <2>2, AnswerTypedKept
<1>2. CASE CallStream(q)
  <2> DEFINE what == [pc |-> "called", called |-> answers[q].provider, model |-> "chat",
                      confidence |-> Confidence(answers[q])]
  <2>1. Know(q, what) /\ UNCHANGED <<chosen, chunkRanks>> /\ DOMAIN what \subseteq Fields
    BY <1>2 DEF CallStream, Fields
  <2>2. (\A k \in Fields : answers'[q][k] = IF k \in DOMAIN what THEN what[k] ELSE answers[q][k])
           => Typed(answers'[q])
    BY <1>0 DEF Fields, Typed
  <2> HIDE DEF what
  <2> QED
    BY <2>1, <2>2, AnswerTypedKept
<1>3. ASSUME NEW named \in Providers \cup {"default", "chat"}, CallStructured(q, named)
      PROVE  AnsweringTyped'
  <2> DEFINE what == [pc |-> "called", called |-> chosen, confidence |-> "its own",
                      model |-> IF named # "default" THEN named ELSE ReviewModel(chosen)]
  <2>1. Know(q, what) /\ UNCHANGED <<chosen, chunkRanks>> /\ DOMAIN what \subseteq Fields
    BY <1>3 DEF CallStructured, Fields
  <2>2. (\A k \in Fields : answers'[q][k] = IF k \in DOMAIN what THEN what[k] ELSE answers[q][k])
           => Typed(answers'[q])
    BY <1>0, <1>3, ReviewModelTyped DEF Fields, Typed
  <2> HIDE DEF what
  <2> QED
    BY <2>1, <2>2, AnswerTypedKept
<1>4. CASE CallLegal(q)
  BY <1>0, <1>3, <1>4, ReviewModelTyped DEF CallLegal, Typed
<1>5. CASE CallPrepared(q)
  BY <1>0, <1>3, <1>5 DEF CallPrepared, Typed
<1> QED
  BY <1>1, <1>2, <1>4, <1>5

LEMMA ReplyTyped ==
    ASSUME AnsweringTyped, NEW q \in Asked, Reply(q) \/ AnsweringFails(q)
    PROVE  AnsweringTyped'
<1>0. Typed(answers[q])
  BY DEF AnsweringTyped
<1>1. CASE Reply(q)
  <2> DEFINE what == [pc |-> "replied", notFound |-> Empty(answers[q]),
                      reason |-> IF Empty(answers[q]) THEN Reason(q) ELSE "unread"]
  <2>1. Know(q, what) /\ UNCHANGED <<chosen, chunkRanks>> /\ DOMAIN what \subseteq Fields
    BY <1>1 DEF Reply, Fields
  <2>2. (\A k \in Fields : answers'[q][k] = IF k \in DOMAIN what THEN what[k] ELSE answers[q][k])
           => Typed(answers'[q])
    BY <1>0, ChunkStateTyped DEF Fields, Typed, Reason, Reasons
  <2> HIDE DEF what
  <2> QED
    BY <2>1, <2>2, AnswerTypedKept
<1>2. CASE AnsweringFails(q)
  <2> DEFINE what == [pc |-> "replied", notFound |-> FALSE, reason |-> "unread"]
  <2>1. Know(q, what) /\ UNCHANGED <<chosen, chunkRanks>> /\ DOMAIN what \subseteq Fields
    BY <1>2 DEF AnsweringFails, Fields
  <2>2. (\A k \in Fields : answers'[q][k] = IF k \in DOMAIN what THEN what[k] ELSE answers[q][k])
           => Typed(answers'[q])
    BY <1>0 DEF Fields, Typed, Reasons
  <2> HIDE DEF what
  <2> QED
    BY <2>1, <2>2, AnswerTypedKept
<1> QED
  BY <1>1, <1>2

LEMMA AnsweringTypedStep == AnsweringTyped /\ [AnsweringNext]_answeringVars => AnsweringTyped'
<1> SUFFICES ASSUME AnsweringTyped, [AnsweringNext]_answeringVars PROVE AnsweringTyped'
  OBVIOUS
<1>1. CASE UNCHANGED answeringVars
  BY <1>1 DEF answeringVars, AnsweringTyped, AnswersAreRecords
<1>2. CASE ChooseProvider
  BY <1>2 DEF ChooseProvider, AnsweringTyped, AnswersAreRecords
<1>3. CASE IndexChanges
  <2>1. /\ UNCHANGED <<chosen, answers>>
        /\ \/ \E blank \in SUBSET ChunkIds :
                 chunkRanks' = [c \in ChunkIds |-> IF c \in blank THEN Blank ELSE Absent]
           \/ \E c \in ChunkIds, rank \in SeenRanks : chunkRanks' = [chunkRanks EXCEPT ![c] = rank]
    BY <1>3 DEF IndexChanges
  <2>2. chunkRanks' \in [ChunkIds -> Ranks \cup {Blank, Absent}]
    BY <2>1, AnsweringAssumption DEF AnsweringTyped, Ranks
  <2> QED
    BY <2>1, <2>2 DEF AnsweringTyped, AnswersAreRecords
<1> QED
  BY <1>1, <1>2, <1>3, ReadingTyped, CallingTyped, ReplyTyped DEF AnsweringNext

\* For any providers, chunks and questions, a provider that is called is one a
\* workspace may choose, and no other model is asked for than its own, its default
\* or chatModel.
THEOREM AnsweringTypes == AnsweringSpec => []AnsweringTypeOK
<1>1. AnsweringTyped => AnsweringTypeOK
  BY DEF AnsweringTyped, AnsweringTypeOK, Typed
<1> QED
  BY <1>1, AnsweringTypedInit, AnsweringTypedStep, PTL DEF AnsweringSpec

\* In legal review mode a provider is asked for its default model or for the one
\* configured for it, for any providers, unless another was chosen meanwhile.
THEOREM OwnModels == AnsweringSpec => []ModelFitsProvider
<1>1. AnsweringInv => ModelFitsProvider
  BY DEF AnsweringInv, ProviderKept, ModelFitsProvider
<1>2. QED
  BY <1>1, AnsweringInitial, AnsweringStep, PTL DEF AnsweringSpec

\* The reason given for an empty answer is the state the chunks were in when they
\* were searched, for any chunks and any changes that do not fall between the two.
THEOREM SearchedReasons == AnsweringSpec => []ReasonFitsSearch
<1>1. AnsweringInv => ReasonFitsSearch
  BY DEF AnsweringInv, ChunksKept, ReasonFitsSearch
<1>2. QED
  BY <1>1, AnsweringInitial, AnsweringStep, PTL DEF AnsweringSpec

(* The model of an answer, and the reason of one that found nothing.       *)
THEOREM ExplainedAnswers == AnsweringSpec => []AnswersAreExplained
<1>1. ModelFitsProvider /\ ReasonFitsSearch => AnswersAreExplained
  BY DEF AnswersAreExplained
<1> QED
  BY <1>1, OwnModels, SearchedReasons, PTL

-----------------------------------------------------------------------------
(* The prompts.                                                            *)

\* The edits, the questions that read prompts, and the rows of a place.
EditRecords == [pc : {"idle", "save", "update", "insert", "remove", "done", "failed"},
                kind : {"put", "reset"}, place : Places, id : Edits \cup {"none"}]
ReadingRecords == [pc : {"idle", "reading", "combined"}, variant : Variants, left : SUBSET Places,
                   read : [Places -> Edits \cup {"none"}]]
PromptRowSets == SUBSET [id : Edits, content : Edits]

\* The type invariant, as the provers take it.
PromptsTyped ==
    /\ promptRows \in [Places -> PromptRowSets] /\ promptOwner \in BOOLEAN
    /\ edits \in [Edits -> EditRecords] /\ readings \in [Readings -> ReadingRecords]
    /\ seen \in [Edits \cup Readings -> SUBSET Edits]

\* What an edit saw acknowledged when it began was over then, and is.
SeenIsOver == \A x \in Edits \cup Readings : seen[x] \subseteq Acked

\* A place has one row, written by an edit of the place that is over.
OneRow ==
    \A p \in Places : \A row \in promptRows[p] :
        /\ edits[row.content].pc = "done" /\ edits[row.content].place = p
        /\ \A other \in promptRows[p] : other = row

\* An edit that began after the row was written has found the row, and while the row is
\* there with the same content it is not over, nor will it insert.
FoundRow ==
    \A e \in Edits : Begun(e) =>
        \A row \in promptRows[edits[e].place] :
            row.content \in seen[e] =>
                edits[e].id = row.id /\ edits[e].pc \in {"save", "update", "remove"}

\* Why a place may hold nothing although e has put something there.
Excused(e) ==
    \/ edits[e].place.scope = "document" /\ ~promptOwner
    \/ \E f \in NotBefore(e, edits[e].place) : edits[f].kind = "reset"

\* A row that a put selected or wrote is there, or was reset or cascaded since.
PutIsThere ==
    \A e \in Edits :
        /\ edits[e].pc = "remove" => edits[e].kind = "reset"
        /\ edits[e].pc = "update" =>
               (\E row \in promptRows[edits[e].place] : row.id = edits[e].id) \/ Excused(e)
        /\ edits[e].pc = "done" /\ edits[e].kind = "put" =>
               promptRows[edits[e].place] # {} \/ Excused(e)

\* What LastEditCounts says of one scope that a question has read.
CountsAt(r, p) ==
    LET w    == readings[r].read[p]
        over == {e \in seen[r] : edits[e].place = p}
    IN IF w = "none"
       THEN \/ p.scope = "document" /\ ~promptOwner
            \/ \A e \in over : edits[e].kind = "put" =>
                  \E f \in NotBefore(e, p) : edits[f].kind = "reset"
       ELSE /\ edits[w].pc = "done"
            /\ \A e \in over : w \notin seen[e]
\* A question has read what counted, whatever was edited since.
ReadCounts ==
    \A r \in Readings : readings[r].pc # "idle" =>
        /\ readings[r].pc = "combined" => readings[r].left = {}
        /\ \A p \in Places :
               p.variant = readings[r].variant /\ p \notin readings[r].left => CountsAt(r, p)

\* The inductive invariant.
PromptsInv == PromptsTyped /\ SeenIsOver /\ OneRow /\ FoundRow /\ PutIsThere /\ ReadCounts

\* What no step takes back of the edits that have begun.
EditsGoOn ==
    /\ \A e \in Edits : Begun(e) =>
           /\ Begun(e)' /\ edits'[e].place = edits[e].place /\ edits'[e].kind = edits[e].kind
           /\ seen'[e] = seen[e] /\ (edits[e].pc = "done" => edits'[e].pc = "done")
    /\ promptOwner' => promptOwner

\* An edit that was excused stays so.
LEMMA ExcuseStays ==
    ASSUME EditsGoOn, NEW e \in Edits, Begun(e), Excused(e)
    PROVE  Excused(e)'
<1>1. /\ edits'[e].place = edits[e].place /\ seen'[e] = seen[e]
      /\ promptOwner' => promptOwner
      /\ \A f \in Edits : Begun(f) => /\ Begun(f)' /\ edits'[f].place = edits[f].place
                                      /\ edits'[f].kind = edits[f].kind
  BY DEF EditsGoOn
<1>2. CASE edits[e].place.scope = "document" /\ ~promptOwner
  BY <1>1, <1>2 DEF Excused
<1>3. CASE \E f \in NotBefore(e, edits[e].place) : edits[f].kind = "reset"
  <2>1. PICK f \in NotBefore(e, edits[e].place) : edits[f].kind = "reset"
    BY <1>3
  <2>2. f \in NotBefore(e, edits[e].place)' /\ edits'[f].kind = "reset"
    BY <1>1, <2>1 DEF NotBefore
  <2> QED
    BY <2>2 DEF Excused
<1> QED
  BY <1>2, <1>3 DEF Excused

\* What a question read goes on to count.
LEMMA CountStays ==
    ASSUME PromptsTyped, SeenIsOver, EditsGoOn, NEW r \in Readings, NEW p \in Places, CountsAt(r, p),
           readings'[r].read[p] = readings[r].read[p], seen'[r] = seen[r]
    PROVE  CountsAt(r, p)'
<1> DEFINE w == readings[r].read[p]
<1>1. /\ promptOwner' => promptOwner
      /\ \A f \in Edits : Begun(f) =>
             /\ Begun(f)' /\ edits'[f].place = edits[f].place /\ edits'[f].kind = edits[f].kind
             /\ seen'[f] = seen[f] /\ (edits[f].pc = "done" => edits'[f].pc = "done")
  BY DEF EditsGoOn
<1>2. \A e \in seen[r] : e \in Edits /\ edits[e].pc = "done" /\ Begun(e)
  BY DEF SeenIsOver, Acked, Begun
<1>3. CASE w = "none"
  <2>1. CASE p.scope = "document" /\ ~promptOwner
    BY <1>1, <1>3, <2>1 DEF CountsAt
  <2>2. CASE ~(p.scope = "document" /\ ~promptOwner)
    <3>1. SUFFICES ASSUME NEW e \in seen'[r], edits'[e].place = p, edits'[e].kind = "put"
                   PROVE  \E f \in NotBefore(e, p)' : edits'[f].kind = "reset"
      BY <1>3 DEF CountsAt
    <3>2. e \in seen[r] /\ edits[e].place = p /\ edits[e].kind = "put" /\ seen'[e] = seen[e]
      BY <1>1, <1>2, <3>1
    <3>3. PICK f \in NotBefore(e, p) : edits[f].kind = "reset"
      BY <1>3, <2>2, <3>2 DEF CountsAt
    <3>4. f \in NotBefore(e, p)' /\ edits'[f].kind = "reset"
      BY <1>1, <3>2, <3>3 DEF NotBefore
    <3> QED
      BY <3>4
  <2> QED
    BY <2>1, <2>2
<1>4. CASE w # "none"
  <2>1. w \in Edits
    BY <1>4 DEF PromptsTyped, ReadingRecords
  <2>2. /\ edits[w].pc = "done"
        /\ \A e \in seen[r] : edits[e].place = p => w \notin seen[e]
    BY <1>4 DEF CountsAt
  <2>3. /\ edits'[w].pc = "done"
        /\ \A e \in seen'[r] : edits'[e].place = p => w \notin seen'[e]
    BY <1>1, <1>2, <2>1, <2>2 DEF Begun
  <2> QED
    BY <1>4, <2>3 DEF CountsAt
<1> QED
  BY <1>3, <1>4

\* A step of edits alone leaves what was read as good as it was.
LEMMA ReadingStays ==
    ASSUME PromptsTyped, SeenIsOver, EditsGoOn, ReadCounts, UNCHANGED readings,
           \A r \in Readings : seen'[r] = seen[r]
    PROVE  ReadCounts'
<1> SUFFICES ASSUME NEW r \in Readings, readings[r].pc # "idle"
             PROVE  /\ readings[r].pc = "combined" => readings[r].left = {}
                    /\ \A p \in Places :
                           p.variant = readings[r].variant /\ p \notin readings[r].left => CountsAt(r, p)'
  BY DEF ReadCounts
<1>1. /\ readings[r].pc = "combined" => readings[r].left = {}
      /\ \A p \in Places :
             p.variant = readings[r].variant /\ p \notin readings[r].left => CountsAt(r, p)
  BY DEF ReadCounts
<1> QED
  BY <1>1, CountStays

\* An edit goes on to its next step.
LEMMA EditMoves ==
    ASSUME PromptsTyped, SeenIsOver, NEW e \in Edits, NEW pc, MoveEdit(e, pc),
           pc \in {"update", "insert", "done", "failed"}, edits[e].pc \notin {"idle", "done"},
           UNCHANGED <<promptOwner, seen>>
    PROVE  /\ edits' \in [Edits -> EditRecords]
           /\ edits'[e].pc = pc /\ edits'[e].kind = edits[e].kind
           /\ edits'[e].place = edits[e].place /\ edits'[e].id = edits[e].id
           /\ \A f \in Edits \ {e} : edits'[f] = edits[f]
           /\ EditsGoOn /\ SeenIsOver'
<1>1. edits \in [Edits -> EditRecords] /\ edits' = [edits EXCEPT ![e].pc = pc]
  BY DEF PromptsTyped, MoveEdit
<1>2. /\ edits' \in [Edits -> EditRecords]
      /\ edits'[e].pc = pc /\ edits'[e].kind = edits[e].kind
      /\ edits'[e].place = edits[e].place /\ edits'[e].id = edits[e].id
      /\ \A f \in Edits \ {e} : edits'[f] = edits[f]
  BY <1>1 DEF EditRecords
<1>3. EditsGoOn
  BY <1>2 DEF EditsGoOn, Begun
<1>4. SeenIsOver'
  BY <1>2 DEF SeenIsOver, Acked
<1> QED
  BY <1>2, <1>3, <1>4

\* No edit and no question has begun.
LEMMA PromptsInitial == PromptsInit => PromptsInv
<1> SUFFICES ASSUME PromptsInit PROVE PromptsInv
  OBVIOUS
<1>1. PromptsTyped
  <2>1. (CHOOSE p \in Places : TRUE) \in Places
    BY PromptsAssumption
  <2>2. edits \in [Edits -> EditRecords]
    BY <2>1 DEF PromptsInit, EditRecords
  <2>3. readings \in [Readings -> ReadingRecords]
    BY DEF PromptsInit, ReadingRecords, Variants
  <2> QED
    BY <2>2, <2>3 DEF PromptsInit, PromptsTyped, PromptRowSets
<1>2. /\ \A e \in Edits : edits[e].pc = "idle"
      /\ \A r \in Readings : readings[r].pc = "idle"
      /\ \A x \in Edits \cup Readings : seen[x] = {}
      /\ \A p \in Places : promptRows[p] = {}
  BY DEF PromptsInit
<1>3. SeenIsOver /\ OneRow /\ FoundRow /\ PutIsThere /\ ReadCounts
  BY <1>2 DEF SeenIsOver, OneRow, FoundRow, Begun, PutIsThere, ReadCounts
<1> QED
  BY <1>1, <1>3 DEF PromptsInv

\* An edit has seen only what is over.
LEMMA EditBegins ==
    ASSUME PromptsInv, NEW e \in Edits, NEW kind \in {"put", "reset"}, NEW p \in Places,
           BeginEdit(e, kind, p)
    PROVE  PromptsInv'
<1>1. /\ promptRows \in [Places -> PromptRowSets] /\ promptOwner \in BOOLEAN
      /\ edits \in [Edits -> EditRecords] /\ readings \in [Readings -> ReadingRecords]
      /\ seen \in [Edits \cup Readings -> SUBSET Edits]
      /\ SeenIsOver /\ OneRow /\ FoundRow /\ PutIsThere /\ ReadCounts /\ PromptsTyped
  BY DEF PromptsInv, PromptsTyped
<1>2. PICK id \in Found(p) :
          edits' = [edits EXCEPT ![e] =
              [pc    |-> IF kind = "put" THEN "save" ELSE IF id = "none" THEN "done" ELSE "remove",
               kind  |-> kind,
               place |-> p,
               id    |-> id]]
  BY DEF BeginEdit
<1>3. /\ edits[e].pc = "idle" /\ UNCHANGED <<promptRows, promptOwner, readings>>
      /\ seen' = [seen EXCEPT ![e] = Acked]
  BY DEF BeginEdit, Begun
<1>4. /\ id \in Edits \cup {"none"}
      /\ \A row \in promptRows[p] : row.id = id /\ row.id \in Edits /\ id # "none"
  <2>1. CASE promptRows[p] = {}
    BY <2>1 DEF Found
  <2>2. CASE promptRows[p] # {}
    <3>1. PICK found \in promptRows[p] : id = found.id
      BY <1>2, <2>2 DEF Found, Ids
    <3>2. \A row \in promptRows[p] : row = found /\ row.id \in Edits
      BY <1>1, <3>1 DEF OneRow, PromptRowSets
    <3> QED
      BY <3>1, <3>2, PromptsAssumption
  <2> QED
    BY <2>1, <2>2
<1> DEFINE new == [pc |-> IF kind = "put" THEN "save" ELSE IF id = "none" THEN "done" ELSE "remove",
                   kind |-> kind, place |-> p, id |-> id]
<1>5. /\ new \in EditRecords /\ new.kind = kind /\ new.place = p /\ new.id = id
      /\ new.pc \in {"save", "done", "remove"}
      /\ new.pc = "save" <=> kind = "put"
      /\ new.pc = "done" => id = "none"
  BY <1>4 DEF EditRecords
<1>6. edits' = [edits EXCEPT ![e] = new]
  BY <1>2
<1> HIDE DEF new
<1>7. /\ edits' \in [Edits -> EditRecords] /\ edits'[e] = new
      /\ \A f \in Edits \ {e} : edits'[f] = edits[f]
  BY <1>1, <1>5, <1>6
<1>8. /\ seen' \in [Edits \cup Readings -> SUBSET Edits] /\ seen'[e] = Acked
      /\ \A x \in (Edits \cup Readings) \ {e} : seen'[x] = seen[x]
      /\ \A r \in Readings : seen'[r] = seen[r]
  BY <1>1, <1>3, PromptsAssumption DEF Acked
<1>9. PromptsTyped'
  BY <1>1, <1>3, <1>7, <1>8 DEF PromptsTyped
<1>10. EditsGoOn
  BY <1>3, <1>7, <1>8 DEF EditsGoOn, Begun
<1>11. SeenIsOver'
  <2>1. \A f \in Acked : f \in Acked'
    BY <1>3, <1>7 DEF Acked
  <2> QED
    BY <1>1, <1>8, <2>1 DEF SeenIsOver
<1>12. OneRow'
  <2>1. SUFFICES ASSUME NEW q \in Places, NEW row \in promptRows[q]
                 PROVE  /\ edits'[row.content].pc = "done" /\ edits'[row.content].place = q
                        /\ \A other \in promptRows[q] : other = row
    BY <1>3 DEF OneRow
  <2>2. row.content \in Edits /\ edits[row.content].pc = "done" /\ edits[row.content].place = q
    BY <1>1 DEF OneRow, PromptRowSets
  <2> QED
    BY <1>1, <1>3, <1>7, <2>2 DEF OneRow
<1>13. FoundRow'
  <2>1. SUFFICES ASSUME NEW f \in Edits, Begun(f)', NEW row \in promptRows[edits'[f].place],
                        row.content \in seen'[f]
                 PROVE  edits'[f].id = row.id /\ edits'[f].pc \in {"save", "update", "remove"}
    BY <1>3 DEF FoundRow
  <2>2. CASE f = e
    BY <1>4, <1>5, <1>7, <2>1, <2>2
  <2>3. CASE f # e
    BY <1>1, <1>7, <1>8, <2>1, <2>3 DEF FoundRow, Begun
  <2> QED
    BY <2>2, <2>3
<1>14. PutIsThere'
  <2>1. SUFFICES ASSUME NEW f \in Edits
                 PROVE  /\ edits'[f].pc = "remove" => edits'[f].kind = "reset"
                        /\ edits'[f].pc = "update" =>
                               (\E row \in promptRows'[edits'[f].place] : row.id = edits'[f].id) \/ Excused(f)'
                        /\ edits'[f].pc = "done" /\ edits'[f].kind = "put" =>
                               promptRows'[edits'[f].place] # {} \/ Excused(f)'
    BY DEF PutIsThere
  <2>2. CASE f = e
    BY <1>5, <1>7, <2>2
  <2>3. CASE f # e
    <3>1. /\ edits[f].pc = "remove" => edits[f].kind = "reset"
          /\ edits[f].pc = "update" =>
                 (\E row \in promptRows[edits[f].place] : row.id = edits[f].id) \/ Excused(f)
          /\ edits[f].pc = "done" /\ edits[f].kind = "put" =>
                 promptRows[edits[f].place] # {} \/ Excused(f)
      BY <1>1 DEF PutIsThere
    <3>2. edits[f].pc \in {"update", "done"} /\ Excused(f) => Excused(f)'
      BY <1>10, ExcuseStays DEF Begun
    <3> QED
      BY <1>3, <1>7, <2>3, <3>1, <3>2
  <2> QED
    BY <2>2, <2>3
<1>15. ReadCounts'
  BY <1>1, <1>3, <1>8, <1>10, ReadingStays
<1> QED
  BY <1>9, <1>11, <1>12, <1>13, <1>14, <1>15 DEF PromptsInv

\* An edit goes on, and its place keeps rows or takes one of the edit's own.
LEMMA RowsMoved ==
    ASSUME PromptsInv, NEW e \in Edits, NEW pc, MoveEdit(e, pc),
           pc \in {"update", "insert", "done", "failed"}, edits[e].pc \notin {"idle", "done"},
           UNCHANGED <<promptOwner, readings, seen>>,
           promptRows' \in [Places -> PromptRowSets],
           \A q \in Places \ {edits[e].place} : promptRows'[q] = promptRows[q],
           \A row, other \in promptRows'[edits[e].place] : row = other,
           \A row \in promptRows'[edits[e].place] :
               \/ row.content = e /\ pc = "done"
               \/ /\ row \in promptRows[edits[e].place]
                  /\ row.content \in seen[e] => pc = "update"
    PROVE  PromptsTyped' /\ SeenIsOver' /\ OneRow' /\ FoundRow' /\ ReadCounts' /\ EditsGoOn
<1> DEFINE p == edits[e].place
<1>1. /\ promptRows \in [Places -> PromptRowSets] /\ promptOwner \in BOOLEAN
      /\ edits \in [Edits -> EditRecords] /\ readings \in [Readings -> ReadingRecords]
      /\ seen \in [Edits \cup Readings -> SUBSET Edits] /\ p \in Places
      /\ SeenIsOver /\ OneRow /\ FoundRow /\ PutIsThere /\ ReadCounts /\ PromptsTyped
  BY DEF PromptsInv, PromptsTyped, EditRecords
<1>2. /\ edits' \in [Edits -> EditRecords]
      /\ edits'[e].pc = pc /\ edits'[e].kind = edits[e].kind
      /\ edits'[e].place = p /\ edits'[e].id = edits[e].id
      /\ \A f \in Edits \ {e} : edits'[f] = edits[f]
      /\ EditsGoOn /\ SeenIsOver'
  BY <1>1, EditMoves
<1>3. \A x \in Edits \cup Readings : e \notin seen[x]
  BY <1>1 DEF SeenIsOver, Acked
<1>4. PromptsTyped'
  BY <1>1, <1>2 DEF PromptsTyped
<1>5. OneRow'
  <2>1. SUFFICES ASSUME NEW q \in Places, NEW row \in promptRows'[q]
                 PROVE  /\ edits'[row.content].pc = "done" /\ edits'[row.content].place = q
                        /\ \A other \in promptRows'[q] : other = row
    BY DEF OneRow
  <2>2. CASE row \in promptRows[q]
    <3>1. row.content \in Edits /\ edits[row.content].pc = "done" /\ edits[row.content].place = q
      BY <1>1, <2>2 DEF OneRow, PromptRowSets
    <3>2. edits'[row.content] = edits[row.content]
      BY <1>2, <3>1
    <3>3. \A other \in promptRows'[q] : other = row
      BY <1>1, <2>2 DEF OneRow
    <3> QED
      BY <3>1, <3>2, <3>3
  <2>3. CASE row \notin promptRows[q]
    <3>1. q = p /\ row.content = e /\ pc = "done"
      BY <2>3
    <3> QED
      BY <1>2, <3>1
  <2> QED
    BY <2>2, <2>3
<1>6. FoundRow'
  <2>1. SUFFICES ASSUME NEW f \in Edits, Begun(f)', NEW row \in promptRows'[edits'[f].place],
                        row.content \in seen[f]
                 PROVE  edits'[f].id = row.id /\ edits'[f].pc \in {"save", "update", "remove"}
    BY DEF FoundRow
  <2>2. row.content # e
    BY <1>3, <2>1
  <2>3. Begun(f) /\ edits'[f].place = edits[f].place /\ edits'[f].id = edits[f].id
        /\ edits[f].place \in Places
    BY <1>1, <1>2, <2>1 DEF Begun, EditRecords
  <2>4. row \in promptRows[edits[f].place]
    BY <2>1, <2>2, <2>3
  <2>5. edits[f].id = row.id /\ edits[f].pc \in {"save", "update", "remove"}
    BY <1>1, <2>1, <2>3, <2>4 DEF FoundRow
  <2>6. CASE f = e
    BY <1>2, <2>1, <2>2, <2>3, <2>5, <2>6
  <2>7. CASE f # e
    BY <1>2, <2>5, <2>7
  <2> QED
    BY <2>6, <2>7
<1>7. ReadCounts'
  BY <1>1, <1>2, ReadingStays
<1> QED
  BY <1>2, <1>4, <1>5, <1>6, <1>7

\* What PutIsThere says of one edit.
PutThere(f) ==
    /\ edits[f].pc = "remove" => edits[f].kind = "reset"
    /\ edits[f].pc = "update" =>
           (\E row \in promptRows[edits[f].place] : row.id = edits[f].id) \/ Excused(f)
    /\ edits[f].pc = "done" /\ edits[f].kind = "put" =>
           promptRows[edits[f].place] # {} \/ Excused(f)

\* Where rows and their ids stay, so does what puts left, but for the edit that moves.
LEMMA PutsStay ==
    ASSUME PromptsInv, EditsGoOn, NEW e \in Edits,
           \A f \in Edits \ {e} : edits'[f] = edits[f],
           \A q \in Places : \A row \in promptRows[q] : \E next \in promptRows'[q] : next.id = row.id
    PROVE  \A f \in Edits \ {e} : PutThere(f)'
<1> SUFFICES ASSUME NEW f \in Edits \ {e} PROVE PutThere(f)'
  OBVIOUS
<1>1. /\ PutThere(f) /\ edits'[f] = edits[f] /\ edits[f].place \in Places
  BY DEF PromptsInv, PutIsThere, PutThere, PromptsTyped, EditRecords
<1>2. edits[f].pc \in {"update", "done"} /\ Excused(f) => Excused(f)'
  BY ExcuseStays DEF Begun
<1>3. (\E row \in promptRows[edits[f].place] : row.id = edits[f].id) =>
          \E row \in promptRows'[edits'[f].place] : row.id = edits'[f].id
  BY <1>1
<1>4. promptRows[edits[f].place] # {} => promptRows'[edits'[f].place] # {}
  BY <1>1
<1> QED
  BY <1>1, <1>2, <1>3, <1>4 DEF PutThere

\* A put has found the row of its place, or none.
LEMMA RowSelected ==
    ASSUME PromptsInv, NEW e \in Edits, SelectRow(e)
    PROVE  PromptsInv'
<1> DEFINE p == edits[e].place
           pc == IF edits[e].id \in Ids(p) THEN "update" ELSE "insert"
<1>1. /\ edits[e].pc = "save" /\ MoveEdit(e, pc) /\ UNCHANGED <<promptRows, promptOwner, readings, seen>>
      /\ promptRows \in [Places -> PromptRowSets] /\ p \in Places
      /\ OneRow /\ FoundRow
  BY DEF SelectRow, PromptsInv, PromptsTyped, EditRecords
<1>2. pc = "update" <=> \E row \in promptRows[p] : row.id = edits[e].id
  BY DEF Ids
<1>3. pc \in {"update", "insert"}
  OBVIOUS
<1> HIDE DEF pc
<1>4. \A row \in promptRows[p] : row.content \in seen[e] => pc = "update"
  BY <1>1, <1>2 DEF FoundRow, Begun
<1>5. \A row, other \in promptRows[p] : row = other
  BY <1>1 DEF OneRow
<1>6. PromptsTyped' /\ SeenIsOver' /\ OneRow' /\ FoundRow' /\ ReadCounts' /\ EditsGoOn
  BY <1>1, <1>3, <1>4, <1>5, RowsMoved
<1>7. /\ edits'[e].pc = pc /\ edits'[e].place = p /\ edits'[e].id = edits[e].id
      /\ \A f \in Edits \ {e} : edits'[f] = edits[f]
  BY <1>1, <1>3, EditMoves DEF PromptsInv
<1>8. \A f \in Edits \ {e} : PutThere(f)'
  BY <1>1, <1>6, <1>7, PutsStay
<1>9. PutThere(e)'
  BY <1>1, <1>2, <1>3, <1>7 DEF PutThere
<1> QED
  BY <1>6, <1>8, <1>9 DEF PromptsInv, PutIsThere, PutThere

\* It writes the row it found, which may be gone.
LEMMA RowUpdated ==
    ASSUME PromptsInv, NEW e \in Edits, UpdateRow(e)
    PROVE  PromptsInv'
<1> DEFINE p == edits[e].place
           written(row) == IF row.id = edits[e].id THEN [row EXCEPT !.content = e] ELSE row
<1>1. /\ edits[e].pc = "update" /\ MoveEdit(e, "done") /\ UNCHANGED <<promptOwner, readings, seen>>
      /\ promptRows' = [promptRows EXCEPT ![p] = {written(row) : row \in promptRows[p]}]
      /\ promptRows \in [Places -> PromptRowSets] /\ p \in Places
      /\ OneRow /\ FoundRow /\ PutIsThere
  BY DEF UpdateRow, PromptsInv, PromptsTyped, EditRecords
<1>2. \A row \in promptRows[p] :
          /\ written(row) \in [id : Edits, content : Edits] /\ written(row).id = row.id
          /\ row.id = edits[e].id => written(row).content = e
          /\ row.id # edits[e].id => written(row) = row
  BY <1>1 DEF PromptRowSets
<1> HIDE DEF written
<1>3. {written(row) : row \in promptRows[p]} \in PromptRowSets
  BY <1>2 DEF PromptRowSets
<1>4. /\ promptRows' \in [Places -> PromptRowSets]
      /\ promptRows'[p] = {written(row) : row \in promptRows[p]}
      /\ \A q \in Places \ {p} : promptRows'[q] = promptRows[q]
  BY <1>1, <1>3
<1>5. \A row, other \in promptRows'[p] : row = other
  BY <1>1, <1>4 DEF OneRow
<1>6. \A row \in promptRows'[p] :
          \/ row.content = e
          \/ row \in promptRows[p] /\ row.content \notin seen[e]
  BY <1>1, <1>2, <1>4 DEF FoundRow, Begun
<1>7. PromptsTyped' /\ SeenIsOver' /\ OneRow' /\ FoundRow' /\ ReadCounts' /\ EditsGoOn
  BY <1>1, <1>4, <1>5, <1>6, RowsMoved
<1>8. /\ edits'[e].pc = "done" /\ edits'[e].place = p /\ edits'[e].kind = edits[e].kind
      /\ \A f \in Edits \ {e} : edits'[f] = edits[f]
  BY <1>1, EditMoves DEF PromptsInv
<1>9. \A q \in Places : \A row \in promptRows[q] : \E next \in promptRows'[q] : next.id = row.id
  BY <1>2, <1>4
<1>10. \A f \in Edits \ {e} : PutThere(f)'
  BY <1>7, <1>8, <1>9, PutsStay
<1>11. PutThere(e)'
  <2>1. (\E row \in promptRows[p] : row.id = edits[e].id) \/ Excused(e)
    BY <1>1 DEF PutIsThere
  <2>2. Excused(e) => Excused(e)'
    BY <1>1, <1>7, ExcuseStays DEF Begun
  <2> QED
    BY <1>8, <1>9, <1>1, <2>1, <2>2 DEF PutThere
<1> QED
  BY <1>7, <1>10, <1>11 DEF PromptsInv, PutIsThere, PutThere

\* It inserts a row, unless another has.
LEMMA RowInserted ==
    ASSUME PromptsInv, NEW e \in Edits, InsertRow(e)
    PROVE  PromptsInv'
<1> DEFINE p == edits[e].place
           id == IF edits[e].id = "none" THEN e ELSE edits[e].id
           new == [id |-> id, content |-> e]
<1>1. /\ edits[e].pc = "insert" /\ UNCHANGED <<promptOwner, readings, seen>>
      /\ promptRows \in [Places -> PromptRowSets] /\ p \in Places
      /\ edits[e].id \in Edits \cup {"none"}
      /\ OneRow /\ FoundRow /\ PutIsThere
  BY DEF InsertRow, PromptsInv, PromptsTyped, EditRecords
<1>2. new \in [id : Edits, content : Edits] /\ new.content = e
  BY <1>1
<1>3. CASE Insertable(p)
  <2>1. promptRows' = [promptRows EXCEPT ![p] = @ \cup {new}] /\ MoveEdit(e, "done") /\ promptRows[p] = {}
    BY <1>3 DEF InsertRow, Insertable
  <2> HIDE DEF new
  <2>2. /\ promptRows' \in [Places -> PromptRowSets] /\ promptRows'[p] = {new}
        /\ \A q \in Places \ {p} : promptRows'[q] = promptRows[q]
    BY <1>1, <1>2, <2>1 DEF PromptRowSets
  <2>3. PromptsTyped' /\ SeenIsOver' /\ OneRow' /\ FoundRow' /\ ReadCounts' /\ EditsGoOn
    BY <1>1, <1>2, <2>1, <2>2, RowsMoved
  <2>4. /\ edits'[e].pc = "done" /\ edits'[e].place = p
        /\ \A f \in Edits \ {e} : edits'[f] = edits[f]
    BY <1>1, <2>1, EditMoves DEF PromptsInv
  <2>5. \A f \in Edits \ {e} : PutThere(f)'
    BY <2>1, <2>2, <2>3, <2>4, PutsStay
  <2>6. PutThere(e)'
    BY <2>2, <2>4 DEF PutThere
  <2> QED
    BY <2>3, <2>5, <2>6 DEF PromptsInv, PutIsThere, PutThere
<1>4. CASE ~Insertable(p)
  <2>1. MoveEdit(e, "failed") /\ UNCHANGED promptRows
    BY <1>4 DEF InsertRow
  <2>2. \A row \in promptRows[p] : row.content \notin seen[e]
    BY <1>1 DEF FoundRow, Begun
  <2>3. \A row, other \in promptRows[p] : row = other
    BY <1>1 DEF OneRow
  <2>4. PromptsTyped' /\ SeenIsOver' /\ OneRow' /\ FoundRow' /\ ReadCounts' /\ EditsGoOn
    BY <1>1, <2>1, <2>2, <2>3, RowsMoved
  <2>5. edits'[e].pc = "failed" /\ \A f \in Edits \ {e} : edits'[f] = edits[f]
    BY <1>1, <2>1, EditMoves DEF PromptsInv
  <2>6. \A f \in Edits \ {e} : PutThere(f)'
    BY <2>1, <2>4, <2>5, PutsStay
  <2>7. PutThere(e)'
    BY <2>5 DEF PutThere
  <2> QED
    BY <2>4, <2>6, <2>7 DEF PromptsInv, PutIsThere, PutThere
<1> QED
  BY <1>3, <1>4

\* A reset removes the row it found, if it is still that one.
LEMMA PromptRemoved ==
    ASSUME PromptsInv, NEW e \in Edits, RemovePrompt(e)
    PROVE  PromptsInv'
<1> DEFINE p == edits[e].place
<1>1. /\ edits[e].pc = "remove" /\ MoveEdit(e, "done") /\ UNCHANGED <<promptOwner, readings, seen>>
      /\ promptRows' = [promptRows EXCEPT ![p] = {row \in promptRows[p] : row.id # edits[e].id}]
      /\ promptRows \in [Places -> PromptRowSets] /\ p \in Places
      /\ OneRow /\ FoundRow /\ PutIsThere /\ SeenIsOver
      /\ edits[e].kind = "reset"
  BY DEF RemovePrompt, PromptsInv, PromptsTyped, EditRecords, PutIsThere
<1>2. /\ promptRows' \in [Places -> PromptRowSets]
      /\ promptRows'[p] = {row \in promptRows[p] : row.id # edits[e].id}
      /\ \A q \in Places \ {p} : promptRows'[q] = promptRows[q]
  BY <1>1 DEF PromptRowSets
<1>3. \A row, other \in promptRows'[p] : row = other
  BY <1>1, <1>2 DEF OneRow
<1>4. \A row \in promptRows'[p] : row \in promptRows[p] /\ row.content \notin seen[e]
  BY <1>1, <1>2 DEF FoundRow, Begun
<1>5. PromptsTyped' /\ SeenIsOver' /\ OneRow' /\ FoundRow' /\ ReadCounts' /\ EditsGoOn
  BY <1>1, <1>2, <1>3, <1>4, RowsMoved
<1>6. /\ edits'[e].pc = "done" /\ edits'[e].place = p /\ edits'[e].kind = "reset"
      /\ \A f \in Edits \ {e} : edits'[f] = edits[f]
  BY <1>1, EditMoves DEF PromptsInv
<1>7. ASSUME NEW f \in Edits \ {e} PROVE PutThere(f)'
  <2>1. PutThere(f) /\ edits'[f] = edits[f] /\ edits[f].place \in Places
    BY <1>1, <1>6 DEF PromptsInv, PutIsThere, PutThere, PromptsTyped, EditRecords
  <2>2. edits[f].pc \in {"update", "done"} /\ Excused(f) => Excused(f)'
    BY <1>5, ExcuseStays DEF Begun
  <2>3. CASE edits[f].place = p
    <3>1. e \notin seen'[f]
      BY <1>1 DEF SeenIsOver, Acked
    <3>2. e \in NotBefore(f, edits[f].place)'
      BY <1>6, <2>1, <2>3, <3>1 DEF NotBefore, Begun
    <3>3. Excused(f)'
      BY <1>6, <2>1, <3>2 DEF Excused
    <3> QED
      BY <2>1, <3>3 DEF PutThere
  <2>4. CASE edits[f].place # p
    BY <1>2, <2>1, <2>2, <2>4 DEF PutThere
  <2> QED
    BY <2>3, <2>4
<1>8. PutThere(e)'
  BY <1>6 DEF PutThere
<1> QED
  BY <1>5, <1>7, <1>8 DEF PromptsInv, PutIsThere, PutThere

\* The rows of a document go with it.
LEMMA OwnerDeleted ==
    ASSUME PromptsInv, DeletePromptOwner
    PROVE  PromptsInv'
<1>1. /\ promptOwner' = FALSE /\ UNCHANGED <<edits, readings, seen>>
      /\ promptRows' = [p \in Places |-> IF p.scope = "document" THEN {} ELSE promptRows[p]]
      /\ promptRows \in [Places -> PromptRowSets] /\ PromptsTyped
      /\ SeenIsOver /\ OneRow /\ FoundRow /\ PutIsThere /\ ReadCounts
  BY DEF DeletePromptOwner, PromptsInv, PromptsTyped
<1>2. \A p \in Places : (promptRows'[p] = {} /\ p.scope = "document") \/ promptRows'[p] = promptRows[p]
  BY <1>1
<1>3. promptRows' \in [Places -> PromptRowSets]
  BY <1>1 DEF PromptRowSets
<1>4. EditsGoOn
  BY <1>1 DEF EditsGoOn, Begun
<1>5. PromptsTyped'
  BY <1>1, <1>3 DEF PromptsTyped
<1>6. SeenIsOver' /\ OneRow'
  BY <1>1, <1>2 DEF SeenIsOver, Acked, OneRow
<1>7. FoundRow'
  <2>1. \A e \in Edits : edits[e].place \in Places
    BY <1>1 DEF PromptsTyped, EditRecords
  <2> QED
    BY <1>1, <1>2, <2>1 DEF FoundRow, Begun
<1>8. ASSUME NEW f \in Edits PROVE PutThere(f)'
  <2>1. PutThere(f) /\ edits'[f] = edits[f] /\ edits[f].place \in Places
    BY <1>1 DEF PutIsThere, PutThere, PromptsTyped, EditRecords
  <2>2. edits[f].pc \in {"update", "done"} /\ Excused(f) => Excused(f)'
    BY <1>4, ExcuseStays DEF Begun
  <2>3. edits[f].place.scope = "document" => Excused(f)'
    BY <1>1 DEF Excused
  <2> QED
    BY <1>2, <2>1, <2>2, <2>3 DEF PutThere
<1>9. ReadCounts'
  BY <1>1, <1>4, ReadingStays
<1> QED
  BY <1>5, <1>6, <1>7, <1>8, <1>9 DEF PromptsInv, PutIsThere, PutThere

\* Readings alone change, and the one that does has seen what is over.
LEMMA ReadingAlone ==
    ASSUME PromptsInv, UNCHANGED <<promptRows, promptOwner, edits>>,
           \A e \in Edits : seen'[e] = seen[e], PromptsTyped',
           \A r \in Readings : seen'[r] = seen[r] \/ seen'[r] = Acked
    PROVE  SeenIsOver' /\ OneRow' /\ FoundRow' /\ PutIsThere' /\ EditsGoOn
<1>1. EditsGoOn
  BY DEF EditsGoOn, Begun
<1>2. SeenIsOver'
  BY DEF SeenIsOver, Acked, PromptsInv
<1>3. OneRow' /\ FoundRow'
  BY DEF OneRow, FoundRow, Begun, PromptsInv
<1>4. ASSUME NEW f \in Edits PROVE PutThere(f)'
  <2>1. PutThere(f)
    BY DEF PutThere, PutIsThere, PromptsInv
  <2>2. edits[f].pc \in {"update", "done"} /\ Excused(f) => Excused(f)'
    BY <1>1, ExcuseStays DEF Begun
  <2> QED
    BY <2>1, <2>2 DEF PutThere
<1> QED
  BY <1>1, <1>2, <1>3, <1>4 DEF PutIsThere, PutThere

\* A question that begins has read nothing.
LEMMA ReadingBegins ==
    ASSUME PromptsInv, NEW r \in Readings, NEW variant \in Modes, BeginReading(r, variant)
    PROVE  PromptsInv'
<1> DEFINE new == [pc |-> "reading", variant |-> variant,
                   left |-> {p \in Places : p.variant = variant},
                   read |-> [p \in Places |-> "none"]]
<1>1. /\ readings' = [readings EXCEPT ![r] = new] /\ seen' = [seen EXCEPT ![r] = Acked]
      /\ UNCHANGED <<promptRows, promptOwner, edits>>
      /\ readings \in [Readings -> ReadingRecords] /\ seen \in [Edits \cup Readings -> SUBSET Edits]
      /\ PromptsTyped /\ SeenIsOver /\ ReadCounts
  BY DEF BeginReading, PromptsInv, PromptsTyped
<1>2. /\ new \in ReadingRecords /\ new.pc = "reading" /\ new.variant = variant
      /\ \A p \in Places : p.variant = new.variant => p \in new.left
  BY PromptsAssumption DEF ReadingRecords
<1> HIDE DEF new
<1>3. /\ readings' \in [Readings -> ReadingRecords] /\ readings'[r] = new
      /\ \A s \in Readings \ {r} : readings'[s] = readings[s]
  BY <1>1, <1>2
<1>4. /\ seen' \in [Edits \cup Readings -> SUBSET Edits] /\ seen'[r] = Acked
      /\ \A x \in (Edits \cup Readings) \ {r} : seen'[x] = seen[x]
      /\ \A e \in Edits : seen'[e] = seen[e]
  BY <1>1, PromptsAssumption DEF Acked
<1>5. PromptsTyped'
  BY <1>1, <1>3, <1>4 DEF PromptsTyped
<1>6. SeenIsOver' /\ OneRow' /\ FoundRow' /\ PutIsThere' /\ EditsGoOn
  BY <1>1, <1>4, <1>5, ReadingAlone
<1>7. ReadCounts'
  <2>1. SUFFICES ASSUME NEW s \in Readings, readings'[s].pc # "idle"
                 PROVE  /\ readings'[s].pc = "combined" => readings'[s].left = {}
                        /\ \A p \in Places :
                               p.variant = readings'[s].variant /\ p \notin readings'[s].left => CountsAt(s, p)'
    BY DEF ReadCounts
  <2>2. CASE s = r
    BY <1>2, <1>3, <2>2
  <2>3. CASE s # r
    BY <1>1, <1>3, <1>4, <1>6, <2>1, <2>3, CountStays DEF ReadCounts
  <2> QED
    BY <2>2, <2>3
<1> QED
  BY <1>5, <1>6, <1>7 DEF PromptsInv

\* What a question finds of a scope is as good as any order of the edits makes it.
LEMMA FoundCounts ==
    ASSUME PromptsInv, NEW r \in Readings, NEW p \in Places, NEW content,
           content \in IF promptRows[p] = {} THEN {"none"} ELSE {row.content : row \in promptRows[p]}
    PROVE  /\ content \in Edits \cup {"none"}
           /\ content = "none" => \/ p.scope = "document" /\ ~promptOwner
                                  \/ \A e \in seen[r] : edits[e].place = p /\ edits[e].kind = "put" =>
                                         \E f \in NotBefore(e, p) : edits[f].kind = "reset"
           /\ content # "none" => /\ edits[content].pc = "done"
                                  /\ \A e \in seen[r] : edits[e].place = p => content \notin seen[e]
<1>1. /\ promptRows \in [Places -> PromptRowSets] /\ SeenIsOver /\ OneRow /\ FoundRow /\ PutIsThere
  BY DEF PromptsInv, PromptsTyped
<1>2. \A e \in seen[r] : e \in Edits /\ edits[e].pc = "done"
  BY <1>1 DEF SeenIsOver, Acked
<1>3. CASE promptRows[p] = {}
  <2>1. content = "none"
    BY <1>3
  <2>2. SUFFICES ASSUME ~(p.scope = "document" /\ ~promptOwner),
                        NEW e \in seen[r], edits[e].place = p, edits[e].kind = "put"
                 PROVE  \E f \in NotBefore(e, p) : edits[f].kind = "reset"
    BY <2>1
  <2>3. Excused(e)
    BY <1>1, <1>2, <1>3, <2>2 DEF PutIsThere
  <2> QED
    BY <2>2, <2>3 DEF Excused
<1>4. CASE promptRows[p] # {}
  <2>1. PICK row \in promptRows[p] : content = row.content
    BY <1>4
  <2>2. content \in Edits /\ content # "none" /\ edits[content].pc = "done"
    BY <1>1, <2>1, PromptsAssumption DEF PromptRowSets, OneRow
  <2>3. ASSUME NEW e \in seen[r], edits[e].place = p PROVE content \notin seen[e]
    <3>1. e \in Edits /\ edits[e].pc = "done" /\ Begun(e)
      BY <1>2 DEF Begun
    <3> QED
      BY <1>1, <2>1, <2>3, <3>1 DEF FoundRow
  <2> QED
    BY <2>2, <2>3
<1> QED
  BY <1>3, <1>4

\* A question reads a scope.
LEMMA PromptRead ==
    ASSUME PromptsInv, NEW r \in Readings, NEW p \in Places, ReadPrompt(r, p)
    PROVE  PromptsInv'
<1>1. PICK content \in IF promptRows[p] = {} THEN {"none"} ELSE {row.content : row \in promptRows[p]} :
          readings' = [readings EXCEPT ![r].left = @ \ {p}, ![r].read[p] = content,
                                       ![r].pc = IF readings[r].left = {p} THEN "combined" ELSE @]
  BY DEF ReadPrompt
<1>2. /\ readings[r].pc = "reading" /\ p \in readings[r].left
      /\ UNCHANGED <<promptRows, promptOwner, edits, seen>>
      /\ readings \in [Readings -> ReadingRecords] /\ readings[r] \in ReadingRecords
      /\ PromptsTyped /\ SeenIsOver /\ ReadCounts
  BY DEF ReadPrompt, PromptsInv, PromptsTyped
<1>3. /\ content \in Edits \cup {"none"}
      /\ content = "none" => \/ p.scope = "document" /\ ~promptOwner
                             \/ \A e \in seen[r] : edits[e].place = p /\ edits[e].kind = "put" =>
                                    \E f \in NotBefore(e, p) : edits[f].kind = "reset"
      /\ content # "none" => /\ edits[content].pc = "done"
                             /\ \A e \in seen[r] : edits[e].place = p => content \notin seen[e]
  BY <1>1, FoundCounts
<1> DEFINE new == [readings[r] EXCEPT !.left = @ \ {p}, !.read = [@ EXCEPT ![p] = content],
                                      !.pc = IF readings[r].left = {p} THEN "combined" ELSE @]
<1>4. [readings[r].read EXCEPT ![p] = content] \in [Places -> Edits \cup {"none"}]
  BY <1>2, <1>3 DEF ReadingRecords
<1>5. /\ new \in ReadingRecords /\ new.left = readings[r].left \ {p} /\ new.variant = readings[r].variant
      /\ new.read = [readings[r].read EXCEPT ![p] = content]
      /\ new.pc \in {"reading", "combined"} /\ (new.pc = "combined" => readings[r].left = {p})
  BY <1>2, <1>4 DEF ReadingRecords
<1>6. readings' = [readings EXCEPT ![r] = new]
  BY <1>1, <1>2
<1> HIDE DEF new
<1>7. /\ readings' \in [Readings -> ReadingRecords] /\ readings'[r] = new
      /\ \A s \in Readings \ {r} : readings'[s] = readings[s]
  BY <1>2, <1>5, <1>6
<1>8. new.read[p] = content /\ \A q \in Places \ {p} : new.read[q] = readings[r].read[q]
  BY <1>2, <1>5 DEF ReadingRecords
<1>9. PromptsTyped'
  BY <1>2, <1>7 DEF PromptsTyped
<1>10. SeenIsOver' /\ OneRow' /\ FoundRow' /\ PutIsThere' /\ EditsGoOn
  BY <1>2, <1>9, ReadingAlone
<1>11. CountsAt(r, p)'
  <2>1. \A e \in Edits : NotBefore(e, p)' = NotBefore(e, p)
    BY <1>2 DEF NotBefore, Begun
  <2>2. \A e \in seen[r] : e \in Edits
    BY <1>2 DEF PromptsTyped
  <2>3. readings'[r].read[p] = content
    BY <1>7, <1>8
  <2>4. CASE content = "none"
    <3>1. \/ p.scope = "document" /\ ~promptOwner
          \/ \A e \in seen[r] : edits[e].place = p /\ edits[e].kind = "put" =>
                 \E f \in NotBefore(e, p)' : edits[f].kind = "reset"
      BY <1>3, <2>1, <2>2, <2>4
    <3> QED
      BY <1>2, <2>3, <2>4, <3>1 DEF CountsAt
  <2>5. CASE content # "none"
    BY <1>2, <1>3, <2>3, <2>5 DEF CountsAt
  <2> QED
    BY <2>4, <2>5
<1>12. ReadCounts'
  <2>1. SUFFICES ASSUME NEW s \in Readings, readings'[s].pc # "idle"
                 PROVE  /\ readings'[s].pc = "combined" => readings'[s].left = {}
                        /\ \A q \in Places :
                               q.variant = readings'[s].variant /\ q \notin readings'[s].left => CountsAt(s, q)'
    BY DEF ReadCounts
  <2>2. CASE s = r
    <3>1. readings'[s].pc = "combined" => readings'[s].left = {}
      BY <1>5, <1>7, <2>2
    <3>2. ASSUME NEW q \in Places, q.variant = new.variant, q \notin new.left, q # p
          PROVE  CountsAt(r, q)'
      <4>1. CountsAt(r, q)
        BY <1>2, <1>5, <3>2 DEF ReadCounts
      <4>2. readings'[r].read[q] = readings[r].read[q]
        BY <1>7, <1>8, <3>2
      <4> QED
        BY <1>2, <1>10, <4>1, <4>2, CountStays
    <3> QED
      BY <1>7, <1>11, <2>2, <3>1, <3>2
  <2>3. CASE s # r
    BY <1>2, <1>7, <1>10, <2>1, <2>3, CountStays DEF ReadCounts
  <2> QED
    BY <2>2, <2>3
<1> QED
  BY <1>9, <1>10, <1>12 DEF PromptsInv

\* Every step keeps the invariant.
LEMMA PromptsStep == PromptsInv /\ [PromptsNext]_promptVars => PromptsInv'
<1> SUFFICES ASSUME PromptsInv, [PromptsNext]_promptVars PROVE PromptsInv'
  OBVIOUS
<1>1. CASE UNCHANGED promptVars
  <2>1. /\ UNCHANGED <<promptRows, promptOwner, edits, readings, seen>>
    BY <1>1 DEF promptVars
  <2>2. PromptsTyped'
    BY <2>1 DEF PromptsInv, PromptsTyped
  <2>3. SeenIsOver' /\ OneRow' /\ FoundRow' /\ PutIsThere' /\ EditsGoOn
    BY <2>1, <2>2, ReadingAlone
  <2>4. ReadCounts'
    BY <2>1, <2>3, ReadingStays DEF PromptsInv
  <2> QED
    BY <2>2, <2>3, <2>4 DEF PromptsInv
<1>2. ASSUME NEW e \in Edits, EditStep(e) PROVE PromptsInv'
  BY <1>2, RowSelected, RowUpdated, RowInserted, PromptRemoved DEF EditStep
<1>3. ASSUME NEW e \in Edits, NEW kind \in {"put", "reset"}, NEW p \in Places, BeginEdit(e, kind, p)
      PROVE  PromptsInv'
  BY <1>3, EditBegins
<1>4. ASSUME NEW r \in Readings, NEW variant \in Modes, BeginReading(r, variant) PROVE PromptsInv'
  BY <1>4, ReadingBegins
<1>5. ASSUME NEW r \in Readings, NEW p \in Places, ReadPrompt(r, p) PROVE PromptsInv'
  BY <1>5, PromptRead
<1> QED
  BY <1>1, <1>2, <1>3, <1>4, <1>5, OwnerDeleted DEF PromptsNext

\* What the invariant says of the questions is what they promise.
LEMMA ReadingsCount == PromptsInv => LastEditCounts /\ PromptsTypeOK
<1> SUFFICES ASSUME PromptsInv PROVE LastEditCounts /\ PromptsTypeOK
  OBVIOUS
<1>1. PromptsTypeOK
  BY DEF PromptsInv, PromptsTyped, PromptsTypeOK, PromptRowSets, EditRecords, ReadingRecords
<1>2. ASSUME NEW r \in Readings, NEW p \in Places, readings[r].pc = "combined", p.variant = readings[r].variant
      PROVE  CountsAt(r, p)
  BY <1>2 DEF PromptsInv, ReadCounts
<1>3. LastEditCounts
  BY <1>2 DEF LastEditCounts, CountsAt
<1> QED
  BY <1>1, <1>3

(* Rows, edits and readings stay well formed.                               *)
THEOREM PromptsAreTyped == PromptsSpec => []PromptsTypeOK
<1> QED
  BY PromptsInitial, PromptsStep, ReadingsCount, PTL DEF PromptsSpec

(* For any edits, questions, scopes and variants: what a question is asked  *)
(* with is as if the edits of each prompt had been done one at a time.      *)
THEOREM EditsCount == PromptsSpec => []LastEditCounts
<1> QED
  BY PromptsInitial, PromptsStep, ReadingsCount, PTL DEF PromptsSpec
-----------------------------------------------------------------------------
(* What the chat tab shows: the answers come to a list that may have       *)
(* changed while they were on their way.                                   *)

\* What the list holds, and where the requests of a question stand.
Messages == [question : Questions, home : ViewThreads \cup {NoThread},
             answer : SUBSET Questions, streaming : BOOLEAN]
Flights == [pc : {"unasked", "creating", "preparing", "offered", "executing", "streaming", "over"},
            thread : ViewThreads \cup {NoThread}, at : Nat]
\* The questions whose answer is still to come.
InFlightQuestions ==
    {q \in Questions : asked[q].pc \in {"creating", "preparing", "offered", "executing", "streaming"}}

\* What a thread keeps was asked in it, and is over.
KeptAtHome ==
    \A th \in DOMAIN kept : \A i \in DOMAIN kept[th] :
        asked[kept[th][i]].thread = th /\ asked[kept[th][i]].pc = "over"

\* What ShownBelongs says of one message.
Belongs(i) == shown[i].home = selected /\ shown[i].answer \subseteq {shown[i].question}

(* While the user did not move on over anything in flight, one request at   *)
(* most is, it is about the selected thread, and its place in the list is   *)
(* still its own.                                                           *)
Undisturbed ==
    /\ \A p, q \in InFlightQuestions : p = q
    /\ loads # {} => InFlightQuestions = {} /\ loads = {selected}
    /\ selected = NoThread => shown = <<>>
    /\ \A q \in InFlightQuestions :
           /\ asked[q].thread = selected /\ asked[q].at <= Len(shown)
           /\ asked[q].pc = "creating" <=> selected = NoThread
           /\ asked[q].pc = "streaming" =>
                  asked[q].at \in DOMAIN shown /\ shown[asked[q].at].question = q
    /\ loads = {} => \A i \in DOMAIN shown : Belongs(i)

\* The invariant, with the type invariant as the provers take it.
ViewInv == ViewTypeOK /\ KeptAtHome /\ (~overlapped => Undisturbed)

ViewTyped ==
    /\ shown \in Seq(Messages) /\ selected \in ViewThreads \cup {NoThread}
    /\ asked \in [Questions -> Flights] /\ loads \subseteq ViewThreads
    /\ \A th \in DOMAIN kept : th \in ViewThreads /\ kept[th] \in Seq(Questions)
    /\ overlapped \in BOOLEAN /\ clicks \in 0 .. ViewBudget

\* Both forms of the type invariant say the same.
LEMMA ViewTypes == ViewTypeOK <=> ViewTyped
BY DEF ViewTypeOK, ViewTyped, Messages, Flights

\* Nothing is shown, asked or kept.
LEMMA ViewInitial == ViewInit => ViewInv
<1> SUFFICES ASSUME ViewInit PROVE ViewInv
  OBVIOUS
<1>1. Unasked \in Flights /\ Unasked.pc = "unasked"
  BY DEF Unasked, Flights
<1>2. ViewTyped
  <2>1. shown \in Seq(Messages) /\ clicks \in 0 .. ViewBudget /\ DOMAIN kept = {}
    BY ViewAssumption DEF ViewInit
  <2>2. asked \in [Questions -> Flights] /\ loads \subseteq ViewThreads
    BY <1>1 DEF ViewInit
  <2> QED
    BY <2>1, <2>2 DEF ViewInit, ViewTyped
<1>3. KeptAtHome /\ InFlightQuestions = {}
  BY <1>1 DEF ViewInit, KeptAtHome, InFlightQuestions
<1>4. Undisturbed
  BY <1>3 DEF Undisturbed, ViewInit
<1> QED
  BY <1>2, <1>3, <1>4, ViewTypes DEF ViewInv

\* A message put in the place of another leaves a list of messages.
LEMMA ListReplaced ==
    ASSUME NEW S, NEW list \in Seq(S), NEW at \in Nat, NEW x \in S
    PROVE  /\ [list EXCEPT ![at] = x] \in Seq(S)
           /\ Len([list EXCEPT ![at] = x]) = Len(list)
           /\ DOMAIN [list EXCEPT ![at] = x] = DOMAIN list
           /\ \A i \in DOMAIN list : [list EXCEPT ![at] = x][i] = IF i = at THEN x ELSE list[i]
<1>1. Len(list) \in Nat /\ DOMAIN list = 1 .. Len(list)
  BY LenProperties
<1>2. CASE at \in 1 .. Len(list)
  <2>1. /\ [list EXCEPT ![at] = x] \in Seq(S)
        /\ Len([list EXCEPT ![at] = x]) = Len(list)
        /\ \A i \in 1 .. Len(list) : [list EXCEPT ![at] = x][i] = IF i = at THEN x ELSE list[i]
    BY <1>2, ExceptSeq
  <2> QED
    BY <1>1, <2>1, LenProperties
<1>3. CASE at \notin 1 .. Len(list)
  <2>1. [list EXCEPT ![at] = x] = list
    BY <1>1, <1>3
  <2> QED
    BY <1>1, <1>3, <2>1
<1> QED
  BY <1>2, <1>3

\* Messages, and the place a question takes.
LEMMA MessageTyped ==
    ASSUME ViewTyped, NEW q \in Questions, NEW answer \in SUBSET Questions, NEW streaming \in BOOLEAN
    PROVE  /\ Message(q, answer, streaming) \in Messages
           /\ Message(q, answer, streaming).question = q
           /\ Message(q, answer, streaming).home = asked[q].thread
           /\ Message(q, answer, streaming).answer = answer
BY DEF ViewTyped, Flights, Message, Messages

\* A placed question keeps the types, and its message is about its thread.
LEMMA Placed ==
    ASSUME ViewTyped, NEW q \in Questions, NEW pos \in Nat, NEW pc \in {"streaming"},
           NEW others \in [Questions -> Flights], Place(q, pos, pc, others)
    PROVE  /\ shown' \in Seq(Messages) /\ asked' \in [Questions -> Flights]
           /\ \A p \in Questions \ {q} : asked'[p] = others[p]
           /\ asked'[q].pc = pc /\ asked'[q].thread = others[q].thread
           /\ pos <= Len(shown) =>
                  /\ asked'[q].at \in DOMAIN shown' /\ shown'[asked'[q].at].question = q
                  /\ \A i \in DOMAIN shown' :
                         \/ i \in DOMAIN shown /\ shown'[i] = shown[i]
                         \/ shown'[i].home = others[q].thread /\ shown'[i].answer = {}
<1> DEFINE at == IF pos = 0 THEN Len(shown) + 1 ELSE pos
           message == [Message(q, {}, TRUE) EXCEPT !.home = others[q].thread]
<1>1. /\ asked' = [others EXCEPT ![q].pc = pc, ![q].at = at]
      /\ shown' = IF pos = 0 THEN Append(shown, message)
                  ELSE IF pos <= Len(shown) THEN [shown EXCEPT ![pos] = message] ELSE shown
  BY DEF Place
<1>2. shown \in Seq(Messages) /\ Len(shown) \in Nat /\ DOMAIN shown = 1 .. Len(shown) /\ at \in Nat
  BY LenProperties DEF ViewTyped
<1>3. /\ message \in Messages /\ message.question = q /\ message.home = others[q].thread
      /\ message.answer = {}
  <2>1. others[q].thread \in ViewThreads \cup {NoThread}
    BY DEF Flights
  <2> DEFINE base == Message(q, {}, TRUE)
  <2>2. base \in Messages /\ base.question = q /\ base.answer = {}
    BY DEF ViewTyped, Flights, Message, Messages
  <2>3. message = [base EXCEPT !.home = others[q].thread]
    OBVIOUS
  <2> HIDE DEF base, message
  <2> QED
    BY <2>1, <2>2, <2>3 DEF Messages
<1> HIDE DEF at, message
<1>4. /\ asked' \in [Questions -> Flights]
      /\ \A p \in Questions \ {q} : asked'[p] = others[p]
      /\ asked'[q].pc = pc /\ asked'[q].thread = others[q].thread /\ asked'[q].at = at
  BY <1>1, <1>2 DEF Flights
<1>5. CASE pos = 0
  <2>1. shown' = Append(shown, message) /\ at = Len(shown) + 1
    BY <1>1, <1>5 DEF at
  <2>2. /\ shown' \in Seq(Messages) /\ Len(shown') = Len(shown) + 1
        /\ shown'[Len(shown) + 1] = message
        /\ \A i \in 1 .. Len(shown) : shown'[i] = shown[i]
    BY <1>2, <1>3, <2>1, AppendProperties
  <2>3. DOMAIN shown' = 1 .. Len(shown) + 1
    BY <2>2, LenProperties
  <2> QED
    BY <1>2, <1>3, <1>4, <2>1, <2>2, <2>3
<1>6. CASE pos # 0 /\ pos <= Len(shown)
  <2>1. shown' = [shown EXCEPT ![pos] = message] /\ at = pos
    BY <1>1, <1>6 DEF at
  <2>2. /\ shown' \in Seq(Messages) /\ DOMAIN shown' = DOMAIN shown
        /\ \A i \in DOMAIN shown : shown'[i] = IF i = pos THEN message ELSE shown[i]
    BY <1>2, <1>3, <2>1, ListReplaced
  <2> QED
    BY <1>2, <1>3, <1>4, <1>6, <2>1, <2>2
<1>7. CASE ~(pos <= Len(shown))
  BY <1>1, <1>2, <1>4, <1>7
<1> QED
  BY <1>5, <1>6, <1>7

\* While nothing is in flight and nothing is awaited, the user may move on.
LEMMA MovedOn ==
    ASSUME ~(overlapped \/ Streams \cup Pending # {} \/ loads # {})
    PROVE  ~overlapped /\ loads = {} /\ InFlightQuestions = {}
BY DEF Streams, Pending, InFlightQuestions

\* Requests that stay are in flight as before.
LEMMA FlightsKept ==
    ASSUME UNCHANGED asked
    PROVE  InFlightQuestions' = InFlightQuestions
BY DEF InFlightQuestions

(* Questions that are over stay over, and so what threads keep stays       *)
(* theirs.                                                                 *)
LEMMA KeptStays ==
    ASSUME ViewTyped, KeptAtHome, UNCHANGED kept,
           \A q \in Questions : asked[q].pc = "over" =>
               asked'[q].pc = "over" /\ asked'[q].thread = asked[q].thread
    PROVE  KeptAtHome'
<1>1. \A th \in DOMAIN kept : \A i \in DOMAIN kept[th] : kept[th][i] \in Questions
  BY ElementOfSeq, LenProperties DEF ViewTyped
<1> QED
  BY <1>1 DEF KeptAtHome

\* The user begins a conversation, selects a thread, or has it deleted.
LEMMA ViewMovesOn ==
    ASSUME ViewTyped, KeptAtHome, ~overlapped => Undisturbed
    PROVE  /\ NewConversation => ViewTyped' /\ KeptAtHome' /\ (~overlapped' => Undisturbed')
           /\ \A th \in ViewThreads :
                  SelectThread(th) \/ ThreadDeleted(th) \/ LoadFails(th) =>
                      ViewTyped' /\ KeptAtHome' /\ (~overlapped' => Undisturbed')
<1>1. /\ shown \in Seq(Messages) /\ selected \in ViewThreads \cup {NoThread}
      /\ asked \in [Questions -> Flights] /\ loads \subseteq ViewThreads
      /\ \A th \in DOMAIN kept : th \in ViewThreads /\ kept[th] \in Seq(Questions)
      /\ overlapped \in BOOLEAN /\ clicks \in 0 .. ViewBudget
  BY DEF ViewTyped
<1>2. <<>> \in Seq(Messages) /\ DOMAIN <<>> = {}
  OBVIOUS
<1>3. Click => clicks' \in 0 .. ViewBudget
  BY <1>1, ViewAssumption DEF Click
<1>4. \A flight : Overlap(flight) => overlapped' \in BOOLEAN
  BY DEF Overlap
<1>5. ASSUME NewConversation
      PROVE  ViewTyped' /\ KeptAtHome' /\ (~overlapped' => Undisturbed')
  <2>1. ViewTyped'
    BY <1>1, <1>2, <1>3, <1>4, <1>5 DEF NewConversation, ViewTyped
  <2>2. KeptAtHome'
    BY <1>5, KeptStays DEF NewConversation
  <2>3. ASSUME ~overlapped' PROVE Undisturbed'
    <3>1. ~overlapped /\ loads = {} /\ InFlightQuestions = {}
      BY <1>5, <2>3, MovedOn DEF NewConversation, Overlap
    <3>2. InFlightQuestions' = {} /\ loads' = {} /\ shown' = <<>>
      BY <1>5, <3>1, FlightsKept DEF NewConversation
    <3> QED
      BY <1>2, <3>2 DEF Undisturbed
  <2> QED
    BY <2>1, <2>2, <2>3
<1>6. ASSUME NEW th \in ViewThreads, SelectThread(th)
      PROVE  ViewTyped' /\ KeptAtHome' /\ (~overlapped' => Undisturbed')
  <2>1. ViewTyped'
    BY <1>1, <1>3, <1>4, <1>6 DEF SelectThread, ViewTyped
  <2>2. KeptAtHome'
    BY <1>6, KeptStays DEF SelectThread
  <2>3. ASSUME ~overlapped' PROVE Undisturbed'
    <3>1. ~overlapped /\ loads = {} /\ InFlightQuestions = {}
      BY <1>6, <2>3, MovedOn DEF SelectThread, Overlap
    <3>2. InFlightQuestions' = {} /\ loads' = {th} /\ selected' = th /\ th # NoThread
      BY <1>6, <3>1, FlightsKept, ViewAssumption DEF SelectThread
    <3> QED
      BY <3>2 DEF Undisturbed
  <2> QED
    BY <2>1, <2>2, <2>3
<1>7. ASSUME NEW th \in ViewThreads, LoadFails(th)
      PROVE  ViewTyped' /\ KeptAtHome' /\ (~overlapped' => Undisturbed')
  <2>1. ViewTyped' /\ overlapped'
    BY <1>1, <1>3, <1>7 DEF LoadFails, ViewTyped
  <2>2. KeptAtHome'
    BY <1>7, KeptStays DEF LoadFails
  <2> QED
    BY <2>1, <2>2
<1>8. ASSUME NEW th \in ViewThreads, ThreadDeleted(th)
      PROVE  ViewTyped' /\ KeptAtHome' /\ (~overlapped' => Undisturbed')
  <2>1. /\ DOMAIN kept' = DOMAIN kept \ {th}
        /\ \A t \in DOMAIN kept \ {th} : kept'[t] = kept[t]
        /\ UNCHANGED <<asked, loads>>
    BY <1>8 DEF ThreadDeleted, Restrict
  <2>2. CASE selected = th
    <3>1. selected' = NoThread /\ shown' = <<>>
      BY <1>8, <2>2 DEF ThreadDeleted
    <3>2. ViewTyped'
      BY <1>1, <1>2, <1>3, <1>4, <1>8, <2>1, <3>1 DEF ThreadDeleted, ViewTyped
    <3>3. ASSUME ~overlapped' PROVE Undisturbed'
      <4>1. ~overlapped /\ loads = {} /\ InFlightQuestions = {}
        BY <1>8, <3>3, MovedOn DEF ThreadDeleted, Overlap
      <4>2. InFlightQuestions' = {} /\ loads' = {}
        BY <2>1, <4>1, FlightsKept
      <4> QED
        BY <1>2, <3>1, <4>2 DEF Undisturbed
    <3> QED
      BY <2>1, <3>2, <3>3 DEF KeptAtHome
  <2>3. CASE selected # th
    <3>1. UNCHANGED <<selected, shown>>
      BY <1>8, <2>3 DEF ThreadDeleted
    <3>2. ViewTyped'
      BY <1>1, <1>3, <1>4, <1>8, <2>1, <3>1 DEF ThreadDeleted, ViewTyped
    <3>3. ASSUME ~overlapped' PROVE Undisturbed'
      <4>1. ~overlapped /\ loads = {} /\ InFlightQuestions = {}
        BY <1>8, <3>3, MovedOn DEF ThreadDeleted, Overlap
      <4>2. InFlightQuestions' = {} /\ loads' = {}
        BY <2>1, <4>1, FlightsKept
      <4> QED
        BY <3>1, <4>1, <4>2 DEF Undisturbed, Belongs
    <3> QED
      BY <2>1, <3>2, <3>3 DEF KeptAtHome
  <2> QED
    BY <2>2, <2>3
<1> QED
  BY <1>5, <1>6, <1>7, <1>8

\* A message with its answer.
LEMMA AnswerTyped ==
    ASSUME ViewTyped, NEW q \in Questions, NEW answer \in SUBSET Questions
    PROVE  /\ Message(q, answer, FALSE) \in Messages
           /\ Message(q, answer, FALSE).question = q
           /\ Message(q, answer, FALSE).home = asked[q].thread
           /\ Message(q, answer, FALSE).answer = answer
BY DEF ViewTyped, Flights, Message, Messages

(* The messages of a thread are shown: those of the thread selected, if    *)
(* nothing crossed.                                                        *)
LEMMA ViewLoaded ==
    ASSUME ViewTyped, KeptAtHome, ~overlapped => Undisturbed, NEW th \in ViewThreads, MessagesLoaded(th)
    PROVE  ViewTyped' /\ KeptAtHome' /\ (~overlapped' => Undisturbed')
<1>1. /\ shown \in Seq(Messages) /\ selected \in ViewThreads \cup {NoThread}
      /\ asked \in [Questions -> Flights] /\ loads \subseteq ViewThreads
      /\ \A t \in DOMAIN kept : t \in ViewThreads /\ kept[t] \in Seq(Questions)
  BY DEF ViewTyped
<1>2. /\ th \in loads /\ loads' = loads \ {th}
      /\ UNCHANGED <<selected, asked, kept, overlapped, clicks>>
  BY DEF MessagesLoaded
<1>3. PICK n \in 0 .. IF th \in DOMAIN kept THEN Len(kept[th]) ELSE 0 :
          shown' = [i \in 1 .. n |-> Message(kept[th][i], {kept[th][i]}, FALSE)]
  BY DEF MessagesLoaded
<1>4. n \in Nat /\ (n # 0 => th \in DOMAIN kept /\ n <= Len(kept[th]) /\ Len(kept[th]) \in Nat)
  BY <1>1, <1>3, LenProperties
<1>5. \A i \in 1 .. n : th \in DOMAIN kept /\ i \in DOMAIN kept[th] /\ kept[th][i] \in Questions
  <2> SUFFICES ASSUME NEW i \in 1 .. n
               PROVE  th \in DOMAIN kept /\ i \in DOMAIN kept[th] /\ kept[th][i] \in Questions
    OBVIOUS
  <2>1. th \in DOMAIN kept /\ i \in 1 .. Len(kept[th]) /\ kept[th] \in Seq(Questions)
    BY <1>1, <1>4
  <2> QED
    BY <2>1, LenProperties, ElementOfSeq
<1>6. \A i \in 1 .. n : /\ shown'[i] \in Messages
                        /\ shown'[i].question = kept[th][i] /\ shown'[i].answer = {kept[th][i]}
                        /\ shown'[i].home = asked[kept[th][i]].thread
  <2> SUFFICES ASSUME NEW i \in 1 .. n
               PROVE  /\ shown'[i] \in Messages
                      /\ shown'[i].question = kept[th][i] /\ shown'[i].answer = {kept[th][i]}
                      /\ shown'[i].home = asked[kept[th][i]].thread
    OBVIOUS
  <2>1. shown'[i] = Message(kept[th][i], {kept[th][i]}, FALSE)
    BY <1>3
  <2>2. {kept[th][i]} \in SUBSET Questions /\ kept[th][i] \in Questions
    BY <1>5
  <2> DEFINE x == kept[th][i]
  <2>3. /\ shown'[i] = [question |-> x, home |-> asked[x].thread, answer |-> {x}, streaming |-> FALSE]
        /\ x \in Questions
    BY <2>1, <2>2 DEF Message
  <2> HIDE DEF x
  <2>4. asked[x].thread \in ViewThreads \cup {NoThread}
    BY <1>1, <2>3 DEF Flights
  <2>5. /\ shown'[i] \in Messages /\ shown'[i].question = x /\ shown'[i].answer = {x}
        /\ shown'[i].home = asked[x].thread
    BY <2>3, <2>4 DEF Messages
  <2> QED
    BY <2>5 DEF x
<1>7. DOMAIN shown' = 1 .. n /\ shown' \in [1 .. n -> Messages]
  <2>1. DOMAIN shown' = 1 .. n /\ shown' = [i \in 1 .. n |-> shown'[i]]
    BY <1>3
  <2> QED
    BY <1>6, <2>1
<1>8. shown' \in Seq(Messages)
  BY <1>4, <1>7
<1>9. ViewTyped'
  BY <1>1, <1>2, <1>8 DEF ViewTyped
<1>10. KeptAtHome'
  BY <1>2, KeptStays
<1>11. ASSUME ~overlapped' PROVE Undisturbed'
  <2>1. loads = {selected} /\ InFlightQuestions = {} /\ selected = th
    BY <1>2, <1>11 DEF Undisturbed
  <2>2. loads' = {} /\ InFlightQuestions' = {} /\ selected' = th /\ th # NoThread
    BY <1>2, <2>1, FlightsKept, ViewAssumption
  <2>3. \A i \in 1 .. n : shown'[i].home = th /\ shown'[i].answer \subseteq {shown'[i].question}
    BY <1>5, <1>6 DEF KeptAtHome
  <2> QED
    BY <1>7, <2>2, <2>3 DEF Undisturbed, Belongs
<1> QED
  BY <1>9, <1>10, <1>11

\* One question keeps its flight, every other one it has is over.
LEMMA OneFlight ==
    ASSUME NEW q \in Questions, \A p \in Questions \ {q} : asked'[p].pc \in {"unasked", "over"}
    PROVE  InFlightQuestions' \subseteq {q}
BY DEF InFlightQuestions

\* A question is sent, in a thread or before one.
LEMMA ViewSends ==
    ASSUME ViewTyped, KeptAtHome, ~overlapped => Undisturbed,
           NEW q \in Questions, NEW pos \in 0 .. Len(shown), SendQuestion(q, pos)
    PROVE  ViewTyped' /\ KeptAtHome' /\ (~overlapped' => Undisturbed')
<1> DEFINE others == [p \in Questions |->
                        IF p = q THEN [asked[q] EXCEPT !.thread = selected, !.at = pos]
                        ELSE IF asked[p].pc \in {"streaming", "preparing", "executing"}
                             THEN [asked[p] EXCEPT !.pc = "over"] ELSE asked[p]]
<1>1. /\ shown \in Seq(Messages) /\ selected \in ViewThreads \cup {NoThread}
      /\ asked \in [Questions -> Flights] /\ loads \subseteq ViewThreads
      /\ \A t \in DOMAIN kept : t \in ViewThreads /\ kept[t] \in Seq(Questions)
      /\ Len(shown) \in Nat /\ DOMAIN shown = 1 .. Len(shown)
      /\ clicks \in 0 .. ViewBudget
  BY LenProperties DEF ViewTyped
<1>2. /\ asked[q].pc = "unasked" /\ Overlap(Pending) /\ UNCHANGED <<selected, loads, kept, clicks>>
      /\ pos \in Nat /\ pos <= Len(shown)
  BY <1>1 DEF SendQuestion
<1>3. \/ selected = NoThread /\ asked' = [others EXCEPT ![q].pc = "creating"] /\ UNCHANGED shown
      \/ selected # NoThread /\ Place(q, pos, "streaming", others)
      \/ selected # NoThread /\ asked' = [others EXCEPT ![q].pc = "preparing"] /\ UNCHANGED shown
  BY DEF SendQuestion
<1>4. others \in [Questions -> Flights]
      /\ others[q].pc = "unasked" /\ others[q].thread = selected /\ others[q].at = pos
  BY <1>1, <1>2 DEF Flights
<1>5. \A p \in Questions \ {q} :
          /\ others[p].thread = asked[p].thread
          /\ others[p].pc = IF asked[p].pc \in {"streaming", "preparing", "executing"} THEN "over"
                            ELSE asked[p].pc
  BY <1>1 DEF Flights
<1> HIDE DEF others
<1>6. /\ shown' \in Seq(Messages) /\ asked' \in [Questions -> Flights]
      /\ \A p \in Questions \ {q} : asked'[p] = others[p]
      /\ asked'[q].thread = selected
      /\ asked'[q].pc \in {"creating", "preparing", "streaming"}
      /\ asked'[q].pc = "creating" => selected = NoThread
      /\ asked'[q].pc # "creating" => selected # NoThread
      /\ asked'[q].pc # "streaming" => shown' = shown /\ asked'[q].at = pos
      /\ asked'[q].pc = "streaming" =>
             /\ asked'[q].at \in DOMAIN shown' /\ shown'[asked'[q].at].question = q
             /\ \A i \in DOMAIN shown' :
                    \/ i \in DOMAIN shown /\ shown'[i] = shown[i]
                    \/ shown'[i].home = selected /\ shown'[i].answer = {}
  <2>1. CASE selected # NoThread /\ Place(q, pos, "streaming", others)
    BY <1>2, <1>4, <2>1, Placed
  <2>2. ASSUME NEW pc \in {"creating", "preparing"}, asked' = [others EXCEPT ![q].pc = pc], UNCHANGED shown
        PROVE  /\ shown' \in Seq(Messages) /\ asked' \in [Questions -> Flights]
               /\ \A p \in Questions \ {q} : asked'[p] = others[p]
               /\ asked'[q].thread = selected /\ asked'[q].pc = pc /\ asked'[q].at = pos
    BY <1>1, <1>4, <2>2 DEF Flights
  <2> QED
    BY <1>3, <2>1, <2>2
<1>7. ViewTyped'
  BY <1>1, <1>2, <1>6 DEF ViewTyped, Overlap
<1>8. KeptAtHome'
  BY <1>2, <1>5, <1>6, KeptStays
<1>9. ASSUME ~overlapped' PROVE Undisturbed'
  <2>1. ~overlapped /\ loads = {} /\ Pending = {}
    BY <1>2, <1>9 DEF Overlap
  <2>2. \A p \in Questions \ {q} : asked'[p].pc \in {"unasked", "over"}
    <3>1. \A p \in Questions : asked[p].pc \in {"unasked", "over", "streaming"}
      BY <1>1, <2>1 DEF Pending, Flights
    <3> QED
      BY <1>5, <1>6, <3>1
  <2>3. InFlightQuestions' \subseteq {q}
    BY <2>2, OneFlight
  <2>4. loads' = {} /\ selected' = selected
    BY <1>2, <2>1
  <2>5. selected = NoThread => shown' = <<>>
    BY <1>6, <2>1 DEF Undisturbed
  <2>6. DOMAIN shown' = 1 .. Len(shown') /\ Len(shown') \in Nat
    BY <1>6, LenProperties
  <2>7. asked'[q].at <= Len(shown')
    BY <1>2, <1>6, <2>6
  <2>8. \A i \in DOMAIN shown' : shown'[i].home = selected /\ shown'[i].answer \subseteq {shown'[i].question}
    <3>1. \A i \in DOMAIN shown : Belongs(i)
      BY <2>1 DEF Undisturbed
    <3> QED
      BY <1>6, <3>1 DEF Belongs
  <2> QED
    BY <1>6, <2>3, <2>4, <2>5, <2>7, <2>8 DEF Undisturbed, Belongs
<1> QED
  BY <1>7, <1>8, <1>9

\* The thread of a question that began one is created.
LEMMA ViewCreates ==
    ASSUME ViewTyped, KeptAtHome, ~overlapped => Undisturbed,
           NEW q \in Questions, NEW th \in ViewThreads, ThreadCreated(q, th)
    PROVE  ViewTyped' /\ KeptAtHome' /\ (~overlapped' => Undisturbed')
<1> DEFINE others == [asked EXCEPT ![q].thread = th]
<1>1. /\ shown \in Seq(Messages) /\ selected \in ViewThreads \cup {NoThread}
      /\ asked \in [Questions -> Flights] /\ loads \subseteq ViewThreads
      /\ \A t \in DOMAIN kept : t \in ViewThreads /\ kept[t] \in Seq(Questions)
      /\ overlapped \in BOOLEAN /\ clicks \in 0 .. ViewBudget
      /\ Len(shown) \in Nat /\ DOMAIN shown = 1 .. Len(shown) /\ asked[q].at \in Nat
  BY LenProperties DEF ViewTyped, Flights
<1>2. /\ asked[q].pc = "creating" /\ th \notin DOMAIN kept
      /\ selected' = th /\ UNCHANGED <<loads, overlapped, clicks>>
      /\ DOMAIN kept' = DOMAIN kept \cup {th} /\ kept'[th] = <<>>
      /\ \A t \in DOMAIN kept : kept'[t] = kept[t]
  BY DEF ThreadCreated
<1>3. \/ Place(q, asked[q].at, "streaming", others)
      \/ asked' = [others EXCEPT ![q].pc = "preparing"] /\ UNCHANGED shown
  BY DEF ThreadCreated
<1>4. others \in [Questions -> Flights]
      /\ others[q].thread = th /\ others[q].at = asked[q].at
      /\ \A p \in Questions \ {q} : others[p] = asked[p]
  BY <1>1 DEF Flights
<1> HIDE DEF others
<1>5. /\ shown' \in Seq(Messages) /\ asked' \in [Questions -> Flights]
      /\ \A p \in Questions \ {q} : asked'[p] = asked[p]
      /\ asked'[q].thread = th
      /\ asked'[q].pc \in {"preparing", "streaming"}
      /\ asked'[q].pc # "streaming" => shown' = shown /\ asked'[q].at = asked[q].at
      /\ asked'[q].pc = "streaming" /\ asked[q].at <= Len(shown) =>
             /\ asked'[q].at \in DOMAIN shown' /\ shown'[asked'[q].at].question = q
             /\ \A i \in DOMAIN shown' :
                    \/ i \in DOMAIN shown /\ shown'[i] = shown[i]
                    \/ shown'[i].home = th /\ shown'[i].answer = {}
  <2>1. CASE Place(q, asked[q].at, "streaming", others)
    <3>1. /\ shown' \in Seq(Messages) /\ asked' \in [Questions -> Flights]
          /\ \A p \in Questions \ {q} : asked'[p] = others[p]
          /\ asked'[q].pc = "streaming" /\ asked'[q].thread = others[q].thread
      BY <1>1, <1>4, <2>1, Placed
    <3>2. asked[q].at <= Len(shown) =>
              /\ asked'[q].at \in DOMAIN shown' /\ shown'[asked'[q].at].question = q
              /\ \A i \in DOMAIN shown' :
                     \/ i \in DOMAIN shown /\ shown'[i] = shown[i]
                     \/ shown'[i].home = others[q].thread /\ shown'[i].answer = {}
      BY <1>1, <1>4, <2>1, Placed
    <3> QED
      BY <1>4, <3>1, <3>2
  <2>2. CASE asked' = [others EXCEPT ![q].pc = "preparing"] /\ UNCHANGED shown
    <3>1. asked' \in [Questions -> Flights]
      BY <1>4, <2>2 DEF Flights
    <3>2. /\ \A p \in Questions \ {q} : asked'[p] = others[p]
          /\ asked'[q].pc = "preparing" /\ asked'[q].thread = others[q].thread
          /\ asked'[q].at = others[q].at
      BY <1>4, <2>2 DEF Flights
    <3> QED
      BY <1>1, <1>4, <2>2, <3>1, <3>2
  <2> QED
    BY <1>3, <2>1, <2>2
<1>6. ViewTyped'
  <2>1. \A t \in DOMAIN kept' : t \in ViewThreads /\ kept'[t] \in Seq(Questions)
    <3>1. <<>> \in Seq(Questions)
      OBVIOUS
    <3> QED
      BY <1>1, <1>2, <3>1
  <2> QED
    BY <1>1, <1>2, <1>5, <2>1 DEF ViewTyped
<1>7. KeptAtHome'
  <2>1. DOMAIN kept'[th] = {}
    BY <1>2
  <2>2. \A t \in DOMAIN kept : \A i \in DOMAIN kept[t] :
            kept[t][i] \in Questions /\ asked'[kept[t][i]] = asked[kept[t][i]]
    <3> SUFFICES ASSUME NEW t \in DOMAIN kept, NEW i \in DOMAIN kept[t]
                 PROVE  kept[t][i] \in Questions /\ asked'[kept[t][i]] = asked[kept[t][i]]
      OBVIOUS
    <3>1. kept[t][i] \in Questions
      BY <1>1, LenProperties, ElementOfSeq
    <3>2. asked[kept[t][i]].pc = "over"
      BY DEF KeptAtHome
    <3> QED
      BY <1>2, <1>5, <3>1, <3>2
  <2> QED
    BY <1>2, <2>1, <2>2 DEF KeptAtHome
<1>8. ASSUME ~overlapped' PROVE Undisturbed'
  <2>1. Undisturbed /\ q \in InFlightQuestions
    BY <1>2, <1>8 DEF InFlightQuestions
  <2>2. selected = NoThread /\ loads = {} /\ shown = <<>> /\ asked[q].at <= Len(shown)
    <3>1. asked[q].thread = selected /\ loads = {} /\ asked[q].at <= Len(shown)
      BY <2>1 DEF Undisturbed
    <3>2. selected = NoThread
      BY <1>2, <2>1 DEF Undisturbed
    <3> QED
      BY <2>1, <3>1, <3>2 DEF Undisturbed
  <2>3. InFlightQuestions' \subseteq {q}
    <3>1. \A p \in Questions \ {q} : asked[p].pc \in {"unasked", "over"}
      BY <1>1, <2>1 DEF Undisturbed, InFlightQuestions, Flights
    <3> QED
      BY <1>5, <3>1, OneFlight
  <2>4. loads' = {} /\ selected' = th /\ th # NoThread
    BY <1>2, <2>2, ViewAssumption
  <2>5. DOMAIN shown' = 1 .. Len(shown') /\ Len(shown') \in Nat /\ DOMAIN shown = {}
    BY <1>5, <2>2, LenProperties
  <2>6. asked'[q].at <= Len(shown')
    BY <1>5, <2>2, <2>5
  <2>7. \A i \in DOMAIN shown' : shown'[i].home = th /\ shown'[i].answer \subseteq {shown'[i].question}
    BY <1>5, <2>2, <2>5
  <2> QED
    BY <1>5, <2>2, <2>3, <2>4, <2>6, <2>7 DEF Undisturbed, Belongs
<1> QED
  BY <1>6, <1>7, <1>8

\* The message of a question takes the place the question has.
LEMMA PutAtPlace ==
    ASSUME ViewTyped, NEW q \in Questions, NEW message \in Messages, Put(q, message)
    PROVE  /\ shown' \in Seq(Messages) /\ DOMAIN shown' = DOMAIN shown /\ Len(shown') = Len(shown)
           /\ \A i \in DOMAIN shown : shown'[i] = IF i = asked[q].at THEN message ELSE shown[i]
<1>1. shown \in Seq(Messages) /\ asked[q].at \in Nat /\ DOMAIN shown = 1 .. Len(shown)
      /\ Len(shown) \in Nat
  BY LenProperties DEF ViewTyped, Flights
<1>2. CASE asked[q].at <= Len(shown)
  <2>1. shown' = [shown EXCEPT ![asked[q].at] = message]
    BY <1>2 DEF Put
  <2> QED
    BY <1>1, <2>1, ListReplaced
<1>3. CASE ~(asked[q].at <= Len(shown))
  BY <1>1, <1>3 DEF Put
<1> QED
  BY <1>2, <1>3

\* A question is saved in the thread it was asked in.
LEMMA SavedAtHome ==
    ASSUME ViewTyped, KeptAtHome, NEW q \in Questions, Save(q),
           asked'[q].pc = "over" /\ asked'[q].thread = asked[q].thread,
           \A p \in Questions : asked[p].pc = "over" =>
               asked'[p].pc = "over" /\ asked'[p].thread = asked[p].thread
    PROVE  /\ \A t \in DOMAIN kept' : t \in ViewThreads /\ kept'[t] \in Seq(Questions)
           /\ KeptAtHome'
<1>1. \A t \in DOMAIN kept : t \in ViewThreads /\ kept[t] \in Seq(Questions)
  BY DEF ViewTyped
<1>2. \A t \in DOMAIN kept : \A i \in DOMAIN kept[t] : kept[t][i] \in Questions
  BY <1>1, ElementOfSeq, LenProperties
<1>3. CASE UNCHANGED kept
  BY <1>1, <1>2, <1>3 DEF KeptAtHome
<1>4. CASE /\ asked[q].thread \in DOMAIN kept
           /\ kept' = [kept EXCEPT ![asked[q].thread] = Append(@, q)]
  <2> DEFINE th == asked[q].thread
             list == Append(kept[th], q)
  <2>1. th \in DOMAIN kept /\ DOMAIN kept' = DOMAIN kept /\ kept'[th] = list
        /\ \A t \in DOMAIN kept \ {th} : kept'[t] = kept[t]
    BY <1>4
  <2>2. /\ list \in Seq(Questions) /\ Len(list) = Len(kept[th]) + 1
        /\ \A i \in 1 .. Len(kept[th]) : list[i] = kept[th][i]
        /\ list[Len(kept[th]) + 1] = q
    BY <1>1, <2>1, AppendProperties
  <2>3. DOMAIN list = 1 .. Len(kept[th]) + 1 /\ DOMAIN kept[th] = 1 .. Len(kept[th])
        /\ Len(kept[th]) \in Nat
    BY <1>1, <2>1, <2>2, LenProperties
  <2>4. \A i \in DOMAIN list : list[i] = q \/ (i \in DOMAIN kept[th] /\ list[i] = kept[th][i])
    <3> HIDE DEF list
    <3>1. \A i \in DOMAIN list : i \in DOMAIN kept[th] \/ i = Len(kept[th]) + 1
      BY <2>3
    <3> QED
      BY <2>2, <2>3, <3>1
  <2> HIDE DEF list
  <2>5. \A t \in DOMAIN kept' : t \in ViewThreads /\ kept'[t] \in Seq(Questions)
    BY <1>1, <2>1, <2>2
  <2>6. ASSUME NEW t \in DOMAIN kept', NEW i \in DOMAIN kept'[t]
        PROVE  asked'[kept'[t][i]].thread = t /\ asked'[kept'[t][i]].pc = "over"
    <3>1. CASE t = th
      BY <1>2, <2>1, <2>4, <2>6, <3>1 DEF KeptAtHome
    <3>2. CASE t # th
      BY <1>2, <2>1, <2>6, <3>2 DEF KeptAtHome
    <3> QED
      BY <3>1, <3>2
  <2> QED
    BY <2>5, <2>6 DEF KeptAtHome
<1> QED
  BY <1>3, <1>4 DEF Save

\* Pieces of an answer, its end, and its failure.
LEMMA ViewStreams ==
    ASSUME ViewTyped, KeptAtHome, ~overlapped => Undisturbed,
           NEW q \in Questions, Chunk(q) \/ Done(q) \/ StreamFails(q)
    PROVE  ViewTyped' /\ KeptAtHome' /\ (~overlapped' => Undisturbed')
<1>1. /\ shown \in Seq(Messages) /\ selected \in ViewThreads \cup {NoThread}
      /\ asked \in [Questions -> Flights] /\ loads \subseteq ViewThreads
      /\ \A t \in DOMAIN kept : t \in ViewThreads /\ kept[t] \in Seq(Questions)
      /\ overlapped \in BOOLEAN /\ clicks \in 0 .. ViewBudget
      /\ Len(shown) \in Nat /\ DOMAIN shown = 1 .. Len(shown) /\ asked[q].at \in Nat
      /\ asked[q] \in Flights
  BY LenProperties DEF ViewTyped, Flights
<1>2. /\ asked[q].pc = "streaming" /\ UNCHANGED <<selected, loads, overlapped>>
      /\ clicks' \in 0 .. ViewBudget
  <2>1. Chunk(q) \/ Done(q) => asked[q].pc = "streaming" /\ UNCHANGED <<selected, loads, overlapped, clicks>>
    BY DEF Chunk, Done
  <2>2. StreamFails(q) => /\ asked[q].pc = "streaming" /\ UNCHANGED <<selected, loads, overlapped>>
                          /\ clicks < ViewBudget /\ clicks' = clicks + 1
    BY DEF StreamFails, Click
  <2> QED
    BY <1>1, <2>1, <2>2, ViewAssumption
<1>3. ~overlapped => Undisturbed /\ q \in InFlightQuestions
  BY <1>2 DEF InFlightQuestions
<1>4. ~overlapped => /\ asked[q].at \in DOMAIN shown /\ Here(q).question = q
                     /\ Here(q).home = selected /\ Here(q).answer \subseteq {q} /\ loads = {}
                     /\ selected # NoThread /\ asked[q].thread = selected
  BY <1>2, <1>3 DEF Undisturbed, Here, Belongs
\* What becomes of the list, whichever event it is.
<1> DEFINE Kindly ==
      /\ shown' \in Seq(Messages) /\ DOMAIN shown' = DOMAIN shown /\ Len(shown') = Len(shown)
      /\ \A i \in DOMAIN shown :
             \/ shown'[i] = shown[i]
             \/ /\ i = asked[q].at
                /\ ~overlapped => /\ shown'[i].question = q /\ shown'[i].home = selected
                                  /\ shown'[i].answer \subseteq {q}
<1>5. \A message \in Messages :
          Put(q, message) /\ (~overlapped => message.question = q /\ message.home = selected
                                             /\ message.answer \subseteq {q}) => Kindly
  BY <1>1, PutAtPlace
<1>6. ASSUME asked[q].at \notin DOMAIN shown, NEW message, Put(q, message) PROVE Kindly
  <2>1. shown \in [1 .. Len(shown) -> Messages]
    BY <1>1, LenProperties
  <2>2. [shown EXCEPT ![asked[q].at] = message] = shown
    BY <1>1, <1>6, <2>1
  <2>3. shown' = shown
    BY <1>6, <2>2 DEF Put
  <2> QED
    BY <1>1, <2>3
<1>7. UNCHANGED shown => Kindly
  BY <1>1
<1> HIDE DEF Kindly
<1>8. Kindly
  <2>1. CASE asked[q].at \notin DOMAIN shown
    BY <1>6, <1>7, <2>1 DEF Chunk, Done, StreamFails
  <2>2. CASE asked[q].at \in DOMAIN shown
    <3>1. Here(q) \in Messages
      BY <1>1, <2>2, ElementOfSeq DEF Here
    <3> DEFINE more == [Here(q) EXCEPT !.answer = @ \cup {q}]
               ended == [Here(q) EXCEPT !.streaming = FALSE]
    <3>2. /\ more \in Messages /\ more.question = Here(q).question /\ more.home = Here(q).home
          /\ more.answer = Here(q).answer \cup {q}
      BY <3>1 DEF Messages
    <3>3. /\ ended \in Messages /\ ended.question = Here(q).question /\ ended.home = Here(q).home
          /\ ended.answer = Here(q).answer
      BY <3>1 DEF Messages
    <3>4. Chunk(q) => Put(q, more) \/ UNCHANGED shown
      BY DEF Chunk
    <3>5. StreamFails(q) => Put(q, ended) \/ UNCHANGED shown
      BY DEF StreamFails
    <3> HIDE DEF more, ended
    <3>6. CASE Chunk(q)
      BY <1>4, <1>5, <1>7, <3>2, <3>4, <3>6
    <3>7. CASE StreamFails(q)
      BY <1>4, <1>5, <1>7, <3>3, <3>5, <3>7
    <3>8. CASE Done(q)
      <4> DEFINE message == Message(q, {q}, FALSE)
      <4>1. Put(q, message)
        BY <3>8 DEF Done
      <4>2. message \in Messages /\ message.question = q /\ message.home = asked[q].thread
            /\ message.answer = {q}
        <5>1. asked[q].thread \in ViewThreads \cup {NoThread}
          BY <1>1 DEF Flights
        <5> QED
          BY <5>1 DEF Message, Messages
      <4> HIDE DEF message
      <4> QED
        BY <1>4, <1>5, <4>1, <4>2
    <3> QED
      BY <3>6, <3>7, <3>8
  <2> QED
    BY <2>1, <2>2
<1>9. /\ asked' \in [Questions -> Flights] /\ \A p \in Questions \ {q} : asked'[p] = asked[p]
      /\ asked'[q].thread = asked[q].thread /\ asked'[q].at = asked[q].at
      /\ asked'[q].pc \in {"streaming", "over"}
      /\ asked'[q].pc = "streaming" => asked' = asked
      /\ Done(q) => asked'[q].pc = "over"
  <2>1. Done(q) \/ StreamFails(q) => asked' = [asked EXCEPT ![q].pc = "over"]
    BY DEF Done, StreamFails, Settle
  <2>2. CASE asked' = asked
    BY <1>1, <1>2, <2>1, <2>2 DEF Flights
  <2>3. CASE asked' = [asked EXCEPT ![q].pc = "over"]
    BY <1>1, <2>3 DEF Flights
  <2> QED
    BY <2>1, <2>2, <2>3 DEF Chunk
<1>10. (\A t \in DOMAIN kept' : t \in ViewThreads /\ kept'[t] \in Seq(Questions)) /\ KeptAtHome'
  <2>1. \A p \in Questions : asked[p].pc = "over" =>
            asked'[p].pc = "over" /\ asked'[p].thread = asked[p].thread
    BY <1>2, <1>9
  <2>2. CASE Done(q)
    BY <1>9, <2>1, <2>2, SavedAtHome DEF Done
  <2>3. CASE ~Done(q)
    <3>1. UNCHANGED kept
      BY <2>3 DEF Chunk, StreamFails
    <3> QED
      BY <1>1, <2>1, <3>1, KeptStays
  <2> QED
    BY <2>2, <2>3
<1>11. ViewTyped'
  BY <1>1, <1>2, <1>8, <1>9, <1>10 DEF Kindly, ViewTyped
<1>12. ASSUME ~overlapped' PROVE Undisturbed'
  <2>1. Undisturbed /\ q \in InFlightQuestions
    BY <1>2, <1>3, <1>12
  <2>2. \A p \in InFlightQuestions : p = q
    BY <2>1 DEF Undisturbed
  <2>3. InFlightQuestions' \subseteq {q}
    BY <1>9, <2>2 DEF InFlightQuestions
  <2>4. /\ selected' = selected /\ selected # NoThread /\ loads' = {} /\ asked'[q].thread = selected
        /\ ~overlapped
    BY <1>2, <1>4, <1>9, <1>12
  <2>5. asked'[q].at <= Len(shown')
    BY <1>1, <1>4, <1>8, <1>9, <2>4 DEF Kindly
  <2>6. asked'[q].at \in DOMAIN shown' /\ shown'[asked'[q].at].question = q
    BY <1>4, <1>8, <1>9, <2>4 DEF Kindly, Here
  <2>7. \A i \in DOMAIN shown' : shown'[i].home = selected /\ shown'[i].answer \subseteq {shown'[i].question}
    <3>1. \A i \in DOMAIN shown : Belongs(i)
      BY <1>4, <2>1, <2>4 DEF Undisturbed
    <3> QED
      BY <1>8, <2>4, <3>1 DEF Kindly, Belongs
  <2> QED
    BY <1>9, <2>3, <2>4, <2>5, <2>6, <2>7 DEF Undisturbed, Belongs
<1> QED
  BY <1>10, <1>11, <1>12

\* A step of requests alone: the list stays, and no other question starts.
LEMMA ViewQuiet ==
    ASSUME ViewTyped, KeptAtHome, ~overlapped => Undisturbed,
           asked' \in [Questions -> Flights], UNCHANGED <<shown, selected, loads, kept, overlapped>>,
           clicks' \in 0 .. ViewBudget,
           \A p \in Questions :
               \/ asked'[p].pc = "over" /\ asked'[p].thread = asked[p].thread
               \/ asked'[p] = asked[p]
               \/ /\ asked[p].pc \in {"preparing", "offered"}
                  /\ asked'[p].pc \in {"offered", "executing"}
                  /\ asked'[p].thread = asked[p].thread /\ asked'[p].at = asked[p].at
    PROVE  ViewTyped' /\ KeptAtHome' /\ (~overlapped' => Undisturbed')
<1>1. ViewTyped'
  BY DEF ViewTyped
<1>2. KeptAtHome'
  BY KeptStays
<1>3. ASSUME ~overlapped' PROVE Undisturbed'
  <2>1. Undisturbed
    BY <1>3
  <2>2. InFlightQuestions' \subseteq InFlightQuestions
    BY DEF InFlightQuestions
  <2>3. \A p \in InFlightQuestions' :
            /\ asked'[p].thread = asked[p].thread /\ asked'[p].at = asked[p].at
            /\ asked'[p].pc = "creating" <=> asked[p].pc = "creating"
            /\ asked'[p].pc = "streaming" => asked[p].pc = "streaming"
    BY DEF InFlightQuestions
  <2> QED
    BY <2>1, <2>2, <2>3 DEF Undisturbed, Belongs
<1> QED
  BY <1>1, <1>2, <1>3

\* The answer of an offered question comes whole.
LEMMA ViewExecuted ==
    ASSUME ViewTyped, KeptAtHome, ~overlapped => Undisturbed, NEW q \in Questions, Executed(q)
    PROVE  ViewTyped' /\ KeptAtHome' /\ (~overlapped' => Undisturbed')
<1>1. /\ shown \in Seq(Messages) /\ selected \in ViewThreads \cup {NoThread}
      /\ asked \in [Questions -> Flights] /\ loads \subseteq ViewThreads
      /\ \A t \in DOMAIN kept : t \in ViewThreads /\ kept[t] \in Seq(Questions)
      /\ overlapped \in BOOLEAN /\ clicks \in 0 .. ViewBudget
      /\ Len(shown) \in Nat /\ DOMAIN shown = 1 .. Len(shown)
  BY LenProperties DEF ViewTyped
<1> DEFINE message == Message(q, {q}, FALSE)
<1>2. message \in Messages /\ message.question = q /\ message.home = asked[q].thread
      /\ message.answer = {q}
  <2>1. asked[q].thread \in ViewThreads \cup {NoThread}
    BY <1>1 DEF Flights
  <2> QED
    BY <2>1 DEF Message, Messages
<1>3. /\ asked[q].pc = "executing" /\ shown' = Append(shown, message)
      /\ Save(q) /\ UNCHANGED <<selected, loads, overlapped, clicks>>
  BY DEF Executed
<1>4. asked' \in [Questions -> Flights]
      /\ \A p \in Questions : \/ asked'[p].pc = "over" /\ asked'[p].thread = asked[p].thread
                              \/ p # q /\ asked'[p] = asked[p]
  <2>1. asked' = [p \in Questions |-> IF p = q \/ asked[p].pc = "offered"
                                      THEN [asked[p] EXCEPT !.pc = "over"] ELSE asked[p]]
    BY DEF Executed
  <2> QED
    BY <1>1, <2>1 DEF Flights
<1> HIDE DEF message
<1>5. /\ shown' \in Seq(Messages) /\ DOMAIN shown' = 1 .. Len(shown) + 1
      /\ \A i \in DOMAIN shown' :
             \/ i \in DOMAIN shown /\ shown'[i] = shown[i]
             \/ shown'[i] = message
  <2>1. /\ shown' \in Seq(Messages) /\ Len(shown') = Len(shown) + 1
        /\ \A i \in 1 .. Len(shown) : shown'[i] = shown[i]
        /\ shown'[Len(shown) + 1] = message
    BY <1>1, <1>2, <1>3, AppendProperties
  <2>2. DOMAIN shown' = 1 .. Len(shown) + 1
    BY <2>1, LenProperties
  <2> QED
    BY <1>1, <2>1, <2>2
<1>6. (\A t \in DOMAIN kept' : t \in ViewThreads /\ kept'[t] \in Seq(Questions)) /\ KeptAtHome'
  <2>1. asked'[q].pc = "over" /\ asked'[q].thread = asked[q].thread
    BY <1>4
  <2>2. \A p \in Questions : asked[p].pc = "over" =>
            asked'[p].pc = "over" /\ asked'[p].thread = asked[p].thread
    BY <1>4
  <2> QED
    BY <1>3, <2>1, <2>2, SavedAtHome
<1>7. ViewTyped'
  BY <1>1, <1>3, <1>4, <1>5, <1>6 DEF ViewTyped
<1>8. ASSUME ~overlapped' PROVE Undisturbed'
  <2>1. Undisturbed /\ q \in InFlightQuestions
    BY <1>3, <1>8 DEF InFlightQuestions
  <2>2. InFlightQuestions' = {}
    BY <1>4, <2>1 DEF Undisturbed, InFlightQuestions
  <2>3. asked[q].thread = selected /\ selected # NoThread /\ loads = {}
    BY <1>3, <2>1 DEF Undisturbed
  <2>4. \A i \in DOMAIN shown : Belongs(i)
    BY <2>1, <2>3 DEF Undisturbed
  <2>5. \A i \in DOMAIN shown' : shown'[i].home = selected /\ shown'[i].answer \subseteq {shown'[i].question}
    BY <1>2, <1>5, <2>3, <2>4 DEF Belongs
  <2> QED
    BY <1>3, <2>2, <2>3, <2>5 DEF Undisturbed, Belongs
<1> QED
  BY <1>6, <1>7, <1>8

\* The dialog of an offered question opens, closes or fails.
LEMMA ViewDialog ==
    ASSUME ViewTyped, KeptAtHome, ~overlapped => Undisturbed,
           NEW q \in Questions, Prepared(q) \/ CloseDialog(q) \/ RequestFails(q)
    PROVE  ViewTyped' /\ KeptAtHome' /\ (~overlapped' => Undisturbed')
<1>1. /\ asked \in [Questions -> Flights] /\ clicks \in 0 .. ViewBudget /\ ViewBudget \in Nat
      /\ asked[q] \in Flights /\ asked[q].at \in Nat
  BY ViewAssumption DEF ViewTyped, Flights
<1>2. CASE CloseDialog(q)
  <2>1. /\ asked[q].pc = "offered" /\ UNCHANGED <<shown, selected, loads, kept, overlapped, clicks>>
        /\ \/ asked' = [p \in Questions |->
                 IF p = q THEN [asked[q] EXCEPT !.pc = "executing"]
                 ELSE IF asked[p].pc \in {"streaming", "preparing", "executing"}
                      THEN [asked[p] EXCEPT !.pc = "over"] ELSE asked[p]]
           \/ asked' = [asked EXCEPT ![q].pc = "over"]
    BY <1>2 DEF CloseDialog, Settle
  <2>2. asked' \in [Questions -> Flights]
    BY <1>1, <2>1 DEF Flights
  <2>3. \A p \in Questions :
            \/ asked'[p].pc = "over" /\ asked'[p].thread = asked[p].thread
            \/ asked'[p] = asked[p]
            \/ /\ asked[p].pc \in {"preparing", "offered"}
               /\ asked'[p].pc \in {"offered", "executing"}
               /\ asked'[p].thread = asked[p].thread /\ asked'[p].at = asked[p].at
    BY <1>1, <2>1 DEF Flights
  <2> QED
    BY <1>1, <2>1, <2>2, <2>3, ViewQuiet
<1>3. CASE RequestFails(q)
  <2>1. /\ UNCHANGED <<shown, selected, loads, kept, overlapped>>
        /\ clicks < ViewBudget /\ clicks' = clicks + 1
        /\ asked' = [asked EXCEPT ![q].pc = "over"]
    BY <1>3 DEF RequestFails, Settle, Click
  <2>2. asked' \in [Questions -> Flights] /\ clicks' \in 0 .. ViewBudget
    BY <1>1, <2>1 DEF Flights
  <2>3. \A p \in Questions :
            \/ asked'[p].pc = "over" /\ asked'[p].thread = asked[p].thread
            \/ asked'[p] = asked[p]
    BY <1>1, <2>1 DEF Flights
  <2> QED
    BY <2>1, <2>2, <2>3, ViewQuiet
<1>4. CASE Prepared(q)
  <2>1. /\ asked[q].pc = "preparing" /\ UNCHANGED <<selected, loads, kept, overlapped, clicks>>
        /\ \/ /\ asked' = [p \in Questions |->
                    IF p = q THEN [asked[q] EXCEPT !.pc = "offered"]
                    ELSE IF asked[p].pc = "offered" THEN [asked[p] EXCEPT !.pc = "over"] ELSE asked[p]]
              /\ UNCHANGED shown
           \/ Place(q, asked[q].at, "streaming", asked)
    BY <1>4 DEF Prepared
  <2>2. CASE /\ asked' = [p \in Questions |->
                    IF p = q THEN [asked[q] EXCEPT !.pc = "offered"]
                    ELSE IF asked[p].pc = "offered" THEN [asked[p] EXCEPT !.pc = "over"] ELSE asked[p]]
              /\ UNCHANGED shown
    <3>1. asked' \in [Questions -> Flights]
      BY <1>1, <2>2 DEF Flights
    <3>2. \A p \in Questions :
              \/ asked'[p].pc = "over" /\ asked'[p].thread = asked[p].thread
              \/ asked'[p] = asked[p]
              \/ /\ asked[p].pc \in {"preparing", "offered"}
                 /\ asked'[p].pc \in {"offered", "executing"}
                 /\ asked'[p].thread = asked[p].thread /\ asked'[p].at = asked[p].at
      BY <1>1, <2>1, <2>2 DEF Flights
    <3> QED
      BY <1>1, <2>1, <2>2, <3>1, <3>2, ViewQuiet
  <2>3. CASE Place(q, asked[q].at, "streaming", asked)
    <3>1. /\ shown' \in Seq(Messages) /\ asked' \in [Questions -> Flights]
          /\ \A p \in Questions \ {q} : asked'[p] = asked[p]
          /\ asked'[q].pc = "streaming" /\ asked'[q].thread = asked[q].thread
          /\ asked[q].at <= Len(shown) =>
                 /\ asked'[q].at \in DOMAIN shown' /\ shown'[asked'[q].at].question = q
                 /\ \A i \in DOMAIN shown' :
                        \/ i \in DOMAIN shown /\ shown'[i] = shown[i]
                        \/ shown'[i].home = asked[q].thread /\ shown'[i].answer = {}
      BY <1>1, <2>3, Placed
    <3>2. ViewTyped'
      BY <2>1, <3>1 DEF ViewTyped
    <3>3. KeptAtHome'
      BY <2>1, <3>1, KeptStays
    <3>4. ASSUME ~overlapped' PROVE Undisturbed'
      <4>1. Undisturbed /\ q \in InFlightQuestions
        BY <2>1, <3>4 DEF InFlightQuestions
      <4>2. InFlightQuestions' \subseteq {q}
        BY <3>1, <4>1 DEF InFlightQuestions, Undisturbed
      <4>3. asked[q].thread = selected /\ selected # NoThread /\ loads = {} /\ asked[q].at <= Len(shown)
        BY <2>1, <4>1 DEF Undisturbed
      <4>4. \A i \in DOMAIN shown : Belongs(i)
        BY <4>1, <4>3 DEF Undisturbed
      <4>5. \A i \in DOMAIN shown' : shown'[i].home = selected /\ shown'[i].answer \subseteq {shown'[i].question}
        BY <3>1, <4>3, <4>4 DEF Belongs
      <4>6. asked'[q].at <= Len(shown')
        <5>1. DOMAIN shown' = 1 .. Len(shown') /\ Len(shown') \in Nat
          BY <3>1, LenProperties
        <5> QED
          BY <3>1, <4>3, <5>1
      <4> QED
        BY <2>1, <3>1, <4>2, <4>3, <4>5, <4>6 DEF Undisturbed, Belongs
    <3> QED
      BY <3>2, <3>3, <3>4
  <2> QED
    BY <2>1, <2>2, <2>3
<1> QED
  BY <1>2, <1>3, <1>4

\* Every step of the tab keeps the invariant.
LEMMA ViewStep == ViewInv /\ [ViewNext]_viewVars => ViewInv'
<1> SUFFICES ASSUME ViewTyped, KeptAtHome, ~overlapped => Undisturbed, [ViewNext]_viewVars
             PROVE  ViewTyped' /\ KeptAtHome' /\ (~overlapped' => Undisturbed')
  <2>1. ViewTypeOK' <=> ViewTyped'
    BY DEF ViewTypeOK, ViewTyped, Messages, Flights
  <2> QED
    BY <2>1, ViewTypes DEF ViewInv
<1>1. CASE UNCHANGED viewVars
  BY <1>1 DEF viewVars, ViewTyped, KeptAtHome, Undisturbed, InFlightQuestions, Belongs
<1>2. CASE ViewNext
  BY <1>2, ViewMovesOn, ViewLoaded, ViewSends, ViewCreates, ViewStreams, ViewDialog, ViewExecuted
     DEF ViewNext
<1> QED
  BY <1>1, <1>2

(* The list of messages, the thread on show and the requests in flight stay *)
(* well formed, in whatever order the answers come.                         *)
THEOREM ViewIsTyped == ViewSpec => []ViewTypeOK
<1>1. ViewInv => ViewTypeOK
  BY DEF ViewInv
<1> QED
  BY <1>1, ViewInitial, ViewStep, PTL DEF ViewSpec

(* Unless the user moved on while something was in flight, every message on *)
(* show is of the selected thread and holds no words of another question's  *)
(* answer, however many questions, threads and clicks there are.            *)
THEOREM MessagesBelong == ViewSpec => []ShownBelongs
<1>1. ViewInv => ShownBelongs
  BY DEF ViewInv, Undisturbed, Belongs, ShownBelongs
<1> QED
  BY <1>1, ViewInitial, ViewStep, PTL DEF ViewSpec
=============================================================================
