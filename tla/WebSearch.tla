------------------------------ MODULE WebSearch ------------------------------
(***************************************************************************)
(* WebSearchService: concurrent searches take turns on one promise chain,  *)
(* wait out the gap between calls of the provider, and share a monthly     *)
(* budget that is checked when a search is asked for.                      *)
(***************************************************************************)
EXTENDS Naturals, Sequences, FiniteSets, Functions

CONSTANTS Searchers,      \* RAG requests, each asking for one search at a time
          MonthlyBudget,
          Gap,            \* MIN_GAP_BETWEEN_CALLS_MS, in ticks
          Timeout,        \* DEFAULT_REQUEST_TIMEOUT_MS, in ticks
          Months          \* bound: months that end

ASSUME SearchAssumption ==
    /\ IsFiniteSet(Searchers) /\ MonthlyBudget \in Nat /\ Months \in Nat
    /\ Gap \in Nat \ {0} /\ Timeout \in Nat \ {0} /\ Gap <= Timeout

VARIABLES chain,       \* searches on the promise chain, the running one first
          calling,     \* whether the running one has called the provider
          since,       \* ticks since lastCallAt; more than Timeout are alike
          aborted,     \* searches whose client is gone
          calls,       \* callsThisMonth
          month        \* months that have ended

searchVars == <<chain, calling, since, aborted, calls, month>>

SearchInit ==
    /\ chain = <<>> /\ calling = FALSE /\ aborted = {}
    /\ since = Timeout /\ calls = 0 /\ month = 0

\* Mutant: the budget is not looked at.
MutantAsk(s) ==
    /\ s \notin Range(chain)
    /\ chain' = Append(chain, s)
    /\ UNCHANGED <<calling, since, aborted, calls, month>>

\* search() answers [] at once when the month's budget is used up.
Ask(s) ==
    /\ s \notin Range(chain) /\ calls < MonthlyBudget
    /\ chain' = Append(chain, s)
    /\ UNCHANGED <<calling, since, aborted, calls, month>>

AbortSearch(s) ==
    /\ s \in Range(chain) \ aborted
    /\ aborted' = aborted \cup {s}
    /\ UNCHANGED <<chain, calling, since, calls, month>>

\* waitForRateLimit is over: the call is counted, of an aborted search too.
CallProvider ==
    /\ chain # <<>> /\ ~calling /\ since >= Gap
    /\ calling' = TRUE /\ since' = 0 /\ calls' = calls + 1
    /\ UNCHANGED <<chain, aborted, month>>

\* Mutant: an aborted call rejects the chain, and what waits behind it never runs.
MutantRejectedCall ==
    /\ calling /\ Head(chain) \notin aborted
    /\ calling' = FALSE /\ chain' = Tail(chain)
    /\ UNCHANGED <<since, aborted, calls, month>>

\* An answer, a refusal or an error, the abort of the client or of the timer:
\* none of them rejects the chain.
EndCall ==
    /\ calling
    /\ calling' = FALSE /\ chain' = Tail(chain) /\ aborted' = aborted \ {Head(chain)}
    /\ UNCHANGED <<since, calls, month>>

\* An aborted call ends at once, any other call when its timer fires.
SearchTick ==
    /\ since < Timeout
    /\ calling => Head(chain) \notin aborted
    /\ since' = since + 1
    /\ UNCHANGED <<chain, calling, aborted, calls, month>>

\* maybeRollMonth
NewMonth ==
    /\ month < Months /\ month' = month + 1 /\ calls' = 0
    /\ UNCHANGED <<chain, calling, since, aborted>>

SearchNext ==
    \/ \E s \in Searchers : Ask(s) \/ AbortSearch(s)
    \/ CallProvider \/ EndCall \/ SearchTick \/ NewMonth

(* Timers fire, and a call ends by its timer if by nothing else. *)
SearchFairness ==
    WF_searchVars(CallProvider) /\ WF_searchVars(EndCall) /\ WF_searchVars(SearchTick)
SearchSpec == SearchInit /\ [][SearchNext]_searchVars /\ SearchFairness

-----------------------------------------------------------------------------
SearchTypeOK ==
    /\ chain \in Seq(Searchers) /\ calling \in BOOLEAN /\ since \in 0 .. Timeout
    /\ aborted \subseteq Searchers /\ calls \in Nat /\ month \in Nat

(* What a month's calls exceed the budget by are searches that were let in *)
(* while it lasted: at most all callers but one.                           *)
BudgetOverrun ==
    calls > 0 => calls < MonthlyBudget + Cardinality(Searchers)

(* Every search on the chain is answered, whatever becomes of the others.  *)
SearchAnswered == \A s \in Searchers : s \in Range(chain) ~> s \notin Range(chain)
=============================================================================
