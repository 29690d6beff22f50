------------------------------ MODULE RateLimit ------------------------------
(***************************************************************************)
(* RateLimitGuard: the requests accepted for one key (a workspace, or a    *)
(* user where the route names no workspace), kept in the memory of the API *)
(* process and shared by every rate-limited handler of that key.           *)
(***************************************************************************)
EXTENDS Naturals, FiniteSetsExt

CONSTANTS Minute, Day,   \* bound: lengths of the two windows, in ticks
          Limits,        \* requestsPerMinute of the handlers
          LastTick,      \* bound: when the model's time ends
          Losses         \* bound: records lost in a minute that has a restart

\* The handlers are finitely many: one of their limits is the largest.
ASSUME RateAssumption ==
    /\ {Minute, Day, LastTick, Losses} \subseteq Nat \ {0} /\ Minute < Day
    /\ Limits \subseteq Nat \ {0} /\ \E most \in Limits : \A limit \in Limits : limit <= most

VARIABLES tick,      \* Date.now()
          limits,    \* the store's entry of the key, or NoRecord
          passed,    \* when requests passed the guard in the last minute
          dropped    \* when records were lost in the last minute

rateVars == <<tick, limits, passed, dropped>>
NoRecord == [requests |-> {}, resetAt |-> 0]

RateInit == tick = 1 /\ limits = NoRecord /\ passed = {} /\ dropped = {}

\* What happened at one tick is told apart by its number in that tick.
Since(stamps, from) == {s \in stamps : s[1] >= from}
Stamp(stamps) == <<tick, Cardinality(Since(stamps, tick))>>
Within(stamps, width) == {s \in stamps : tick - s[1] < width}

\* cleanup() of every request: a record past its reset goes as a whole, with
\* the requests of the last minute; of any other the requests of the day stay.
Expired == limits # NoRecord /\ tick > limits.resetAt
Opened ==
    IF limits = NoRecord \/ Expired THEN [requests |-> {}, resetAt |-> tick + Day]
    ELSE [limits EXCEPT !.requests = Within(@, Day)]
Sweep == dropped' = IF Expired THEN dropped \cup {Stamp(dropped)} ELSE dropped

\* Mutant: off by one.
MutantBusy(limit) == Cardinality(Within(Opened.requests, Minute)) > limit

Busy(limit) == Cardinality(Within(Opened.requests, Minute)) >= limit

Pass(limit) ==
    /\ ~Busy(limit)
    /\ limits' = [Opened EXCEPT !.requests = @ \cup {Stamp(passed)}]
    /\ passed' = passed \cup {Stamp(passed)}
    /\ Sweep /\ UNCHANGED tick

\* 429: the refused request is not recorded.
TooMany(limit) ==
    /\ Busy(limit)
    /\ limits' = Opened
    /\ Sweep /\ UNCHANGED <<tick, passed>>

Tick ==
    /\ tick < LastTick
    /\ tick' = tick + 1
    /\ passed' = {s \in passed : tick' - s[1] < Minute}
    /\ dropped' = {s \in dropped : tick' - s[1] < Minute}
    /\ UNCHANGED limits

\* The store dies with the process.
RestartGuard ==
    /\ limits # NoRecord /\ Cardinality(dropped) < Losses
    /\ limits' = NoRecord /\ dropped' = dropped \cup {Stamp(dropped)}
    /\ UNCHANGED <<tick, passed>>

RateNext == (\E limit \in Limits : Pass(limit) \/ TooMany(limit)) \/ Tick \/ RestartGuard

RateSpec == RateInit /\ [][RateNext]_rateVars

-----------------------------------------------------------------------------
Stamps == (1 .. LastTick) \X Nat
RateTypeOK ==
    /\ tick \in 1 .. LastTick
    /\ limits.requests \subseteq Stamps /\ limits.resetAt \in 0 .. LastTick + Day
    /\ passed \subseteq Stamps /\ dropped \subseteq Stamps

(* Handlers with different limits share the record of a key: together they *)
(* let through at most the largest limit in any minute, and as much again  *)
(* for every record that a reset or a restart dropped in that minute.      *)
MinuteRateKept == Cardinality(passed) <= Max(Limits) * (1 + Cardinality(dropped))
=============================================================================
