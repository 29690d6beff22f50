----------------------------- MODULE Onboarding -----------------------------
(***************************************************************************)
(* What a user has been shown: one row at the server that every update     *)
(* reads and saves whole, its copy in the browser, which takes each answer *)
(* as it comes, and the tours that send the updates: the primary one, and  *)
(* the guide of a page when it is visited for the first time.              *)
(***************************************************************************)
EXTENDS Naturals, FiniteSets

CONSTANTS Guides,       \* pages with a guide
          Items,        \* items of the checklist
          UpdateCalls   \* bound: updates sent in one behaviour

ASSUME OnboardingAssumption == UpdateCalls \in Nat

VARIABLES row,          \* user_onboarding_state of the user
          calls,        \* requests: sent, creating, read, saved
          signedIn,     \* isAuthenticated
          state, stateLoadAttempted, isChecklistVisible,
          waiting,      \* pages whose guide waits for the state
          pendingKeys,  \* guides whose half second runs
          activeTour,
          savedOver,    \* history: a row was saved over another's save
          mixed,        \* history: two requests were under way, or one failed
          completions,  \* history: "complete" was answered
          resetSince,   \* history: a reset was saved after the last "completed"
          updates       \* requests sent

clientVars == <<signedIn, state, stateLoadAttempted, isChecklistVisible, waiting, pendingKeys, activeTour>>
onboardingVars == <<row, calls, clientVars, savedOver, mixed, completions, resetSince, updates>>

Marks == Guides \cup Items \cup {"completed", "dismissed", "tour completed", "tour dismissed"}
NoTour == "no tour"
ASSUME OnboardingNames == {NoTour, "primary", "load", "reset"} \cap Marks = {}

NoRow == [exists |-> FALSE, marks |-> {}]
NoState == NoRow
Row(marks) == [exists |-> TRUE, marks |-> marks]

OnboardingInit ==
    /\ row \in {NoRow, Row({}), Row(Guides)}
    /\ calls = {}
    /\ signedIn = FALSE /\ state = NoState /\ stateLoadAttempted = FALSE /\ isChecklistVisible = FALSE
    /\ waiting = {} /\ pendingKeys = {} /\ activeTour = NoTour
    /\ savedOver = FALSE /\ mixed = FALSE /\ completions = FALSE /\ resetSince = FALSE
    /\ updates = 0

-----------------------------------------------------------------------------
(* The server.                                                             *)
Becomes(c, d) == calls' = (calls \ {c}) \cup {d}

FindRow(c) ==
    /\ c.st = "sent"
    /\ Becomes(c, IF ~row.exists THEN [c EXCEPT !.st = "creating"]
                  ELSE [c EXCEPT !.st = IF c.op = "load" THEN "saved" ELSE "read", !.seen = row.marks])
    /\ UNCHANGED <<row, clientVars, savedOver, mixed, completions, resetSince, updates>>

\* The one of two that comes second fails on the unique user.
CreateRow(c) ==
    /\ c.st = "creating"
    /\ IF row.exists
       THEN Becomes(c, [c EXCEPT !.st = "failed"]) /\ UNCHANGED row
       ELSE LET marks == {c.op} \cap {"completed", "dismissed"}
            IN  /\ row' = Row(marks)
                /\ Becomes(c, [c EXCEPT !.seen = marks,
                       !.st = IF c.op \in {"load", "reset", "completed", "dismissed"} THEN "saved"
                              ELSE "read"])
    /\ UNCHANGED <<clientVars, savedOver, mixed, completions, resetSince, updates>>

\* Mutant: the entry replaces those of its column.
MutantWritten(c) == IF c.op = "reset" THEN {} ELSE {c.op} \cup (c.seen \ (Guides \cup Items))

Written(c) == IF c.op = "reset" THEN {} ELSE c.seen \cup {c.op}

\* save() of the row as it was read, all its columns.
SaveRow(c) ==
    /\ c.st = "read"
    /\ row' = Row(Written(c))
    /\ Becomes(c, [c EXCEPT !.st = "saved", !.seen = Written(c)])
    /\ savedOver' = (savedOver \/ row.marks # c.seen)
    /\ resetSince' = (c.op = "reset" \/ (resetSince /\ c.op # "completed"))
    /\ UNCHANGED <<clientVars, mixed, completions, updates>>

-----------------------------------------------------------------------------
(* The browser.                                                            *)
Send(ops) ==
    /\ updates < UpdateCalls /\ updates' = updates + 1
    /\ calls' = calls \cup {[nr |-> updates', op |-> op, st |-> "sent", seen |-> {}] : op \in ops}
    /\ mixed' = (mixed \/ calls # {} \/ Cardinality(ops) > 1)

Takes(c) == Row(c.seen)

\* Whatever comes is the state; a state with more to do shows the checklist.
CallAnswers(c) ==
    /\ c.st = "saved"
    /\ calls' = calls \ {c}
    /\ state' = Takes(c)
    /\ stateLoadAttempted' = (stateLoadAttempted \/ c.op = "load")
    /\ isChecklistVisible' = (isChecklistVisible \/ c.op = "reset"
                              \/ c.seen \cap {"completed", "dismissed"} = {})
    /\ completions' = (completions \/ c.op = "completed")
    /\ UNCHANGED <<row, signedIn, waiting, pendingKeys, activeTour, savedOver, mixed, resetSince, updates>>

CallFails(c) ==
    /\ c.st \in {"sent", "failed"}
    /\ calls' = calls \ {c} /\ mixed' = TRUE
    /\ IF c.op = "load" THEN state' = NoState /\ stateLoadAttempted' = TRUE
       ELSE UNCHANGED <<state, stateLoadAttempted>>
    /\ UNCHANGED <<row, signedIn, isChecklistVisible, waiting, pendingKeys, activeTour, savedOver,
                   completions, resetSince, updates>>

SignIn ==
    /\ ~signedIn /\ signedIn' = TRUE
    /\ Send({"load"})
    /\ UNCHANGED <<row, state, stateLoadAttempted, isChecklistVisible, waiting, pendingKeys, activeTour,
                   savedOver, completions, resetSince>>

\* The state goes; that one was loaded is still remembered.
SignOut ==
    /\ signedIn /\ signedIn' = FALSE
    /\ state' = NoState /\ isChecklistVisible' = FALSE
    /\ UNCHANGED <<row, calls, stateLoadAttempted, waiting, pendingKeys, activeTour, savedOver, mixed,
                   completions, resetSince, updates>>

\* tryShowTourForUrl: the visit is sent before the guide is shown.
TryShow(g) ==
    IF g \in state.marks \/ g \in pendingKeys
    THEN UNCHANGED <<pendingKeys, calls, mixed, updates>>
    ELSE /\ pendingKeys' = pendingKeys \cup {g}
         /\ Send({g})

VisitPage(g) ==
    /\ signedIn
    /\ IF stateLoadAttempted THEN TryShow(g) /\ UNCHANGED waiting
       ELSE waiting' = waiting \cup {g} /\ UNCHANGED <<pendingKeys, calls, mixed, updates>>
    /\ UNCHANGED <<row, signedIn, state, stateLoadAttempted, isChecklistVisible, activeTour, savedOver,
                   completions, resetSince>>

\* The retry asks again, for the page visited then, and gives up at last.
RetryGuide(g) ==
    /\ g \in waiting
    /\ waiting' = waiting \ {g}
    /\ IF signedIn /\ stateLoadAttempted THEN TryShow(g)
       ELSE UNCHANGED <<pendingKeys, calls, mixed, updates>>
    /\ UNCHANGED <<row, signedIn, state, stateLoadAttempted, isChecklistVisible, activeTour, savedOver,
                   completions, resetSince>>

\* A tour that begins completes the one there was: onTourComplete of a
\* primary tour sends both its updates at once.
BeginTour(tour) ==
    /\ activeTour' = tour
    /\ IF activeTour = "primary" THEN Send({"tour completed", "completed"})
       ELSE UNCHANGED <<calls, mixed, updates>>

GuideOpens(g) ==
    /\ g \in pendingKeys
    /\ pendingKeys' = pendingKeys \ {g}
    /\ BeginTour(g)
    /\ UNCHANGED <<row, signedIn, state, stateLoadAttempted, isChecklistVisible, waiting, savedOver,
                   completions, resetSince>>

\* From the checklist, which it hides, or from the account's settings.
StartTour ==
    /\ signedIn
    /\ BeginTour("primary")
    /\ isChecklistVisible' \in {isChecklistVisible, FALSE}
    /\ UNCHANGED <<row, signedIn, state, stateLoadAttempted, waiting, pendingKeys, savedOver,
                   completions, resetSince>>

TourEnds(completed) ==
    /\ activeTour # NoTour
    /\ activeTour' = NoTour
    /\ IF activeTour # "primary" THEN UNCHANGED <<calls, mixed, updates>>
       ELSE Send(IF completed THEN {"tour completed", "completed"} ELSE {"tour dismissed"})
    /\ UNCHANGED <<row, signedIn, state, stateLoadAttempted, isChecklistVisible, waiting, pendingKeys,
                   savedOver, completions, resetSince>>

\* Something on the checklist is done, in a tour or in earnest; the checklist
\* is dismissed; or all of it is reset.
Update(op) ==
    /\ signedIn
    /\ Send({op})
    /\ isChecklistVisible' = (isChecklistVisible /\ op # "dismissed")
    /\ UNCHANGED <<row, signedIn, state, stateLoadAttempted, waiting, pendingKeys, activeTour, savedOver,
                   completions, resetSince>>

OnboardingNext ==
    \/ \E c \in calls : FindRow(c) \/ CreateRow(c) \/ SaveRow(c) \/ CallAnswers(c) \/ CallFails(c)
    \/ SignIn \/ SignOut
    \/ \E g \in Guides : VisitPage(g) \/ RetryGuide(g) \/ GuideOpens(g)
    \/ StartTour
    \/ \E completed \in BOOLEAN : TourEnds(completed)
    \/ \E op \in Items \cup {"dismissed", "reset"} : Update(op)

OnboardingSpec == OnboardingInit /\ [][OnboardingNext]_onboardingVars

-----------------------------------------------------------------------------
OnboardingTypeOK ==
    /\ row \in [exists : BOOLEAN, marks : SUBSET Marks]
    /\ calls \subseteq [nr : 1 .. UpdateCalls, op : Marks \cup {"load", "reset"},
                        st : {"sent", "creating", "read", "saved", "failed"}, seen : SUBSET Marks]
    /\ state \in [exists : BOOLEAN, marks : SUBSET Marks]
    /\ {signedIn, stateLoadAttempted, isChecklistVisible, savedOver, mixed, completions, resetSince}
           \subseteq BOOLEAN
    /\ {waiting, pendingKeys} \subseteq SUBSET Guides
    /\ activeTour \in Guides \cup {"primary", NoTour}
    /\ updates \in 0 .. UpdateCalls

(* Nothing the row remembers is forgotten by a step but a reset, or a save *)
(* of a row that another request had saved since it was read.              *)
MarksAreKept ==
    [][row.marks \subseteq row'.marks \/ savedOver'
       \/ \E c \in calls : c.op = "reset" /\ c.st = "read"]_onboardingVars

(* With no request under way the browser's state is the server's, unless   *)
(* two of its requests had been under way at once or one failed.           *)
StateIsServers == calls = {} /\ ~mixed /\ state # NoState => state = row

(* "Marca onboarding como concluído", as the API says of complete: once it *)
(* has answered, with nothing under way and no reset saved after it, the   *)
(* row is marked; only a save over another's, which MarksAreKept lets      *)
(* pass, undoes it.                                                        *)
CompletedIsMarked ==
    calls = {} /\ completions /\ ~resetSince /\ ~savedOver => "completed" \in row.marks

(* What the tour has been told is kept: on the server, in the browser and  *)
(* for the one who was told it is complete.                                *)
OnboardingIsKept == MarksAreKept /\ []StateIsServers /\ []CompletedIsMarked
=============================================================================
