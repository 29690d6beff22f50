------------------------------ MODULE JobsView ------------------------------
(***************************************************************************)
(* How a document's page follows its jobs: a poll every half second that   *)
(* ends by itself, loads on demand, a faster poll where there is no        *)
(* socket, and a subscription to the document's room (the room and the     *)
(* rows are external).  All of them write the one list that is shown.      *)
(***************************************************************************)
EXTENDS Naturals, Sequences

CONSTANTS Jobs,
          ShownFaults,  \* bound: failed requests and reconnections
          Uploads,      \* bound: batches uploaded while the page is open
          Mail          \* bound: updates on their way to the browser

ASSUME JobsViewAssumption == {ShownFaults, Uploads, Mail} \subseteq Nat

VARIABLES rows,        \* external: the jobs of the database
          jobsShown,   \* jobs(): what the page shows
          jobsCached,  \* the copy in localStorage
          polling,     \* startJobsPolling: the answer it awaits
          calm,        \* consecutiveNoActiveJobs
          loading,     \* loadJobs: the answer it awaits
          fast,        \* startAggressivePolling: the answer it awaits
          room,        \* the subscription, as far as it has come
          mail,        \* updates emitted to the room and not yet delivered
          timer,       \* the timer after an upload
          hasSocket,   \* wsUrl is configured
          blinded,     \* history: a poll or a load failed, or the socket reconnected
          uploads, shownFaults

jobsViewVars == <<rows, jobsShown, jobsCached, polling, calm, loading, fast, room, mail, timer,
                  hasSocket, blinded, uploads, shownFaults>>

Lists == [Jobs -> {"none", "active", "final"}]
NoList == [st |-> "off", list |-> [j \in Jobs |-> "none"]]   \* nothing is awaited
Idling == [NoList EXCEPT !.st = "idle"]                     \* a poll between two requests
Awaiting(list) == [st |-> "wait", list |-> list]
AnyActive(list) == \E j \in Jobs : list[j] = "active"
Unsubscribed == "off"

\* startWsJobSubscription
Subscribe == IF hasSocket THEN "asking" ELSE Unsubscribed
FastStart(list) == IF ~hasSocket /\ AnyActive(list) THEN Idling ELSE fast

JobsViewInit ==
    /\ rows \in Lists /\ jobsCached \in Lists /\ hasSocket \in BOOLEAN
    /\ jobsShown = jobsCached
    /\ polling = Idling /\ calm = 0
    /\ loading = Awaiting(rows)
    /\ fast = IF ~hasSocket /\ AnyActive(jobsCached) THEN Idling ELSE NoList
    /\ room = IF AnyActive(jobsCached) THEN Subscribe ELSE Unsubscribed
    /\ mail = <<>> /\ timer = FALSE /\ blinded = FALSE /\ uploads = 0 /\ shownFaults = 0

-----------------------------------------------------------------------------
(* The server.                                                             *)
\* A job starts, or ends; the room is told, an update claimed late from the
\* stream being older than the ones before it.
JobChanges(j) ==
    /\ \/ rows[j] = "none" /\ rows' = [rows EXCEPT ![j] = "active"]
       \/ rows[j] = "active" /\ rows' = [rows EXCEPT ![j] = "final"]
    /\ UNCHANGED <<jobsShown, jobsCached, polling, calm, loading, fast, room, mail, timer, hasSocket,
                   blinded, uploads, shownFaults>>

TellRoom(j, status) ==
    /\ room = "joined" /\ Len(mail) < Mail
    /\ rows[j] # "none" /\ (status = "final" => rows[j] = "final")
    /\ mail' = Append(mail, [job |-> j, status |-> status])
    /\ UNCHANGED <<rows, jobsShown, jobsCached, polling, calm, loading, fast, room, timer, hasSocket,
                   blinded, uploads, shownFaults>>

\* handleSubscribe: the membership and the document are found, or it refuses
\* and the page polls instead.
AnswerSubscribe ==
    /\ room = "asking"
    /\ \/ room' = "joined" /\ UNCHANGED fast
       \/ room' = Unsubscribed /\ fast' = IF AnyActive(jobsShown) THEN Idling ELSE fast
    /\ UNCHANGED <<rows, jobsShown, jobsCached, polling, calm, loading, mail, timer, hasSocket,
                   blinded, uploads, shownFaults>>

-----------------------------------------------------------------------------
(* The page.                                                               *)
\* applyJobsFromApi: jobs that only the cache knows are shown once more.
Merge(list) == [j \in Jobs |-> IF list[j] # "none" THEN list[j] ELSE jobsCached[j]]
ApplyFromApi(list) == jobsShown' = Merge(list) /\ jobsCached' = list
Leave == room' = Unsubscribed /\ mail' = <<>>

\* An interval's request drops the one before it (switchMap).
PollAsks ==
    /\ polling # NoList /\ polling # Awaiting(rows)
    /\ polling' = Awaiting(rows)
    /\ UNCHANGED <<rows, jobsShown, jobsCached, calm, loading, fast, room, mail, timer, hasSocket,
                   blinded, uploads, shownFaults>>

\* The third calm answer in a row ends the poll and the subscription.
PollAnswers ==
    LET list == Merge(polling.list)
        quiet == ~AnyActive(list) /\ \E j \in Jobs : list[j] # "none"
    IN /\ polling.st = "wait"
       /\ ApplyFromApi(polling.list)
       /\ IF quiet /\ calm = 2
          THEN polling' = NoList /\ calm' = 0 /\ Leave
          ELSE /\ polling' = Idling /\ calm' = IF quiet THEN calm + 1 ELSE 0
               /\ UNCHANGED <<room, mail>>
       /\ UNCHANGED <<rows, loading, fast, timer, hasSocket, blinded, uploads, shownFaults>>

FastAsks ==
    /\ fast # NoList /\ fast # Awaiting(rows)
    /\ fast' = Awaiting(rows)
    /\ UNCHANGED <<rows, jobsShown, jobsCached, polling, calm, loading, room, mail, timer, hasSocket,
                   blinded, uploads, shownFaults>>

FastAnswers ==
    /\ fast.st = "wait"
    /\ ApplyFromApi(fast.list)
    /\ fast' = IF AnyActive(Merge(fast.list)) THEN Idling ELSE NoList
    /\ UNCHANGED <<rows, polling, calm, loading, room, mail, timer, hasSocket, blinded, uploads,
                   shownFaults>>

\* Mutant: the two outcomes are swapped.
MutantLoadAnswers ==
    /\ loading.st = "wait"
    /\ ApplyFromApi(loading.list)
    /\ IF ~AnyActive(Merge(loading.list))
       THEN room' = Subscribe /\ mail' = <<>> /\ fast' = FastStart(Merge(loading.list))
       ELSE Leave /\ fast' = NoList
    /\ loading' = NoList
    /\ UNCHANGED <<rows, polling, calm, timer, hasSocket, blinded, uploads, shownFaults>>

LoadAnswers ==
    /\ loading.st = "wait"
    /\ ApplyFromApi(loading.list)
    /\ IF AnyActive(Merge(loading.list))
       THEN room' = Subscribe /\ mail' = <<>> /\ fast' = FastStart(Merge(loading.list))
       ELSE Leave /\ fast' = NoList
    /\ loading' = NoList
    /\ UNCHANGED <<rows, polling, calm, timer, hasSocket, blinded, uploads, shownFaults>>

\* applySingleJobUpdate, in the order the updates were emitted.
Update ==
    LET ev == Head(mail)
        list == [jobsShown EXCEPT ![ev.job] = ev.status]
    IN /\ mail # <<>>
       /\ jobsShown' = list /\ jobsCached' = list
       /\ IF AnyActive(list) THEN mail' = Tail(mail) /\ UNCHANGED room ELSE Leave
       /\ UNCHANGED <<rows, polling, calm, loading, fast, timer, hasSocket, blinded, uploads, shownFaults>>

\* A batch is uploaded: one load (unless one is awaited), and a timer.
FilesUploaded ==
    /\ uploads < Uploads
    /\ uploads' = uploads + 1
    /\ loading' = IF loading = NoList THEN Awaiting(rows) ELSE loading
    /\ jobsShown' = IF loading = NoList /\ \A j \in Jobs : jobsShown[j] = "none" THEN jobsCached
                    ELSE jobsShown
    /\ timer' = TRUE
    /\ UNCHANGED <<rows, jobsCached, polling, calm, fast, room, mail, hasSocket, blinded, shownFaults>>

TimerFires ==
    /\ timer
    /\ timer' = FALSE
    /\ IF AnyActive(jobsShown)
       THEN room' = Subscribe /\ mail' = <<>> /\ fast' = FastStart(jobsShown)
       ELSE UNCHANGED <<room, mail, fast>>
    /\ UNCHANGED <<rows, jobsShown, jobsCached, polling, calm, loading, hasSocket, blinded, uploads,
                   shownFaults>>

\* A failed request ends its poll. After a reconnection the socket is in no
\* room, and the page does not ask again.
JobsViewFault ==
    /\ shownFaults < ShownFaults
    /\ shownFaults' = shownFaults + 1 /\ blinded' = TRUE
    /\ \/ polling.st = "wait" /\ polling' = NoList /\ UNCHANGED <<fast, loading, room, mail>>
       \/ fast.st = "wait" /\ fast' = NoList /\ UNCHANGED <<polling, calm, loading, room, mail>>
       \/ loading.st = "wait" /\ loading' = NoList /\ UNCHANGED <<polling, fast, room, mail>>
       \/ room # Unsubscribed /\ room' = "deaf" /\ mail' = <<>> /\ UNCHANGED <<polling, fast, loading>>
    /\ UNCHANGED <<rows, jobsShown, jobsCached, calm, timer, hasSocket, uploads>>

JobsViewNext ==
    \/ \E j \in Jobs : JobChanges(j) \/ \E status \in {"active", "final"} : TellRoom(j, status)
    \/ AnswerSubscribe
    \/ PollAsks \/ PollAnswers \/ FastAsks \/ FastAnswers \/ LoadAnswers \/ Update
    \/ FilesUploaded \/ TimerFires
    \/ JobsViewFault

JobsViewSpec == JobsViewInit /\ [][JobsViewNext]_jobsViewVars

-----------------------------------------------------------------------------
JobsViewTypeOK ==
    /\ rows \in Lists /\ jobsShown \in Lists /\ jobsCached \in Lists
    /\ {polling, loading, fast} \subseteq [st : {"off", "idle", "wait"}, list : Lists]
    /\ calm \in 0 .. 2
    /\ room \in {Unsubscribed, "asking", "joined", "deaf"}
    /\ mail \in Seq([job : Jobs, status : {"active", "final"}])
    /\ {timer, hasSocket, blinded} \subseteq BOOLEAN
    /\ uploads \in 0 .. Uploads /\ shownFaults \in 0 .. ShownFaults

(* A job is never shown as running with nothing left that could correct    *)
(* it: in whatever order polls, loads and updates end each other, one of   *)
(* them goes on, unless a request failed or the socket had to reconnect.   *)
ActiveIsWatched ==
    AnyActive(jobsShown) /\ ~blinded =>
        \/ polling # NoList \/ loading # NoList \/ fast # NoList
        \/ room \in {"asking", "joined"}
=============================================================================
