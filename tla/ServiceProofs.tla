--------------------------- MODULE ServiceProofs ----------------------------
(***************************************************************************)
(* Proofs about the services beside the pipeline: the page that follows    *)
(* its jobs, the avatar of a user, the evaluation and review of a          *)
(* document, what a review reads of it and what it reports, and which law  *)
(* a document is under.                                                    *)
(***************************************************************************)
EXTENDS JobsView, AccountAssets, DocumentReviews, ReviewFindings, LegalEvidence,
        SequenceTheorems, FiniteSetTheorems, WellFoundedInduction, TLAPS

-----------------------------------------------------------------------------
(* The page that follows its jobs.                                         *)

Answers == [st : {"off", "idle", "wait"}, list : Lists]
Updates == [job : Jobs, status : {"active", "final"}]

\* Updates only wait in a room that was joined, and a subscription is only
\* lost by a reconnection.
MailIsJoined ==
    /\ mail # <<>> => room = "joined"
    /\ room = "deaf" => blinded

JobsViewInv == JobsViewTypeOK /\ MailIsJoined /\ ActiveIsWatched

LEMMA AwaitedLists ==
    /\ NoList \in Answers /\ Idling \in Answers /\ Idling # NoList
    /\ \A list \in Lists : Awaiting(list) \in Answers /\ Awaiting(list) # NoList
<1>1. /\ NoList = [st |-> "off", list |-> [j \in Jobs |-> "none"]]
      /\ Idling = [st |-> "idle", list |-> [j \in Jobs |-> "none"]]
  BY DEF NoList, Idling
<1>2. [j \in Jobs |-> "none"] \in Lists
  BY DEF Lists
<1>3. NoList.st = "off" /\ Idling.st = "idle" /\ \A list \in Lists : Awaiting(list).st = "wait"
  BY <1>1 DEF Awaiting
<1>4. \A list \in Lists : Awaiting(list) \in Answers
  BY DEF Awaiting, Answers
<1> QED
  BY <1>1, <1>2, <1>3, <1>4 DEF Answers

LEMMA MergedLists ==
    ASSUME jobsCached \in Lists, NEW answer \in Answers
    PROVE  answer.list \in Lists /\ Merge(answer.list) \in Lists
BY DEF Answers, Lists, Merge

LEMMA JobsViewInitial == JobsViewInit => JobsViewInv
<1> SUFFICES ASSUME JobsViewInit PROVE JobsViewInv
  OBVIOUS
<1>1. mail = <<>> /\ mail \in Seq(Updates)
  BY DEF JobsViewInit
<1>2. /\ polling \in Answers /\ loading \in Answers /\ fast \in Answers /\ loading # NoList
  BY AwaitedLists DEF JobsViewInit
<1>3. room \in {Unsubscribed, "asking"}
  BY DEF JobsViewInit, Subscribe
<1>4. JobsViewTypeOK
  <2>1. uploads \in 0 .. Uploads /\ shownFaults \in 0 .. ShownFaults
    BY JobsViewAssumption DEF JobsViewInit
  <2>2. /\ rows \in Lists /\ jobsShown \in Lists /\ jobsCached \in Lists
        /\ timer \in BOOLEAN /\ hasSocket \in BOOLEAN /\ blinded \in BOOLEAN
    BY Zenon DEF JobsViewInit
  <2>3. calm \in 0 .. 2
    BY DEF JobsViewInit
  <2> QED
    BY <1>1, <1>2, <1>3, <2>1, <2>2, <2>3 DEF JobsViewTypeOK, Answers, Updates
<1> QED
  BY <1>1, <1>2, <1>3, <1>4 DEF JobsViewInv, MailIsJoined, ActiveIsWatched, Unsubscribed

LEMMA JobsViewStep == JobsViewInv /\ [JobsViewNext]_jobsViewVars => JobsViewInv'
<1> SUFFICES ASSUME JobsViewInv, [JobsViewNext]_jobsViewVars PROVE JobsViewInv'
  OBVIOUS
<1>1. /\ rows \in Lists /\ jobsShown \in Lists /\ jobsCached \in Lists
      /\ polling \in Answers /\ loading \in Answers /\ fast \in Answers
      /\ calm \in 0 .. 2
      /\ room \in {Unsubscribed, "asking", "joined", "deaf"}
      /\ mail \in Seq(Updates)
      /\ timer \in BOOLEAN /\ hasSocket \in BOOLEAN /\ blinded \in BOOLEAN
      /\ uploads \in 0 .. Uploads /\ shownFaults \in 0 .. ShownFaults
  BY DEF JobsViewInv, JobsViewTypeOK, Answers, Updates
<1>2. /\ Merge(polling.list) \in Lists /\ polling.list \in Lists
      /\ Merge(loading.list) \in Lists /\ loading.list \in Lists
      /\ Merge(fast.list) \in Lists /\ fast.list \in Lists
  BY <1>1, MergedLists
<1>3. <<>> \in Seq(Updates)
  OBVIOUS
<1>4. \A list : FastStart(list) \in Answers
  BY <1>1, AwaitedLists DEF FastStart
<1>5. Subscribe \in {Unsubscribed, "asking"} /\ (hasSocket => Subscribe = "asking")
  BY DEF Subscribe
<1>6. SUFFICES /\ JobsViewTypeOK' /\ MailIsJoined'
               /\ AnyActive(jobsShown)' /\ ~blinded' =>
                    \/ polling' # NoList \/ loading' # NoList \/ fast' # NoList
                    \/ room' \in {"asking", "joined"}
  BY DEF JobsViewInv, ActiveIsWatched
<1> DEFINE Goal == /\ JobsViewTypeOK' /\ MailIsJoined'
                   /\ AnyActive(jobsShown)' /\ ~blinded' =>
                        \/ polling' # NoList \/ loading' # NoList \/ fast' # NoList
                        \/ room' \in {"asking", "joined"}
<1> USE DEF JobsViewInv, MailIsJoined, ActiveIsWatched
<1>7. ASSUME NEW j \in Jobs, JobChanges(j) PROVE Goal
  <2>1. rows' \in Lists
    BY <1>1, <1>7 DEF JobChanges, Lists
  <2> QED
    BY <1>1, <1>7, <2>1 DEF JobChanges, JobsViewTypeOK, Answers, Updates, AnyActive
<1>8. ASSUME NEW j \in Jobs, NEW status \in {"active", "final"}, TellRoom(j, status) PROVE Goal
  <2>1. mail' \in Seq(Updates)
    BY <1>1, <1>8 DEF TellRoom, Updates
  <2> QED
    BY <1>1, <1>8, <2>1 DEF TellRoom, JobsViewTypeOK, Answers, Updates, AnyActive
<1>9. CASE AnswerSubscribe
  <2>1. room' \in {"joined", Unsubscribed} /\ fast' \in Answers /\ mail = <<>>
    BY <1>1, <1>9, AwaitedLists DEF AnswerSubscribe
  <2> QED
    BY <1>1, <1>9, <2>1, AwaitedLists
    DEF AnswerSubscribe, JobsViewTypeOK, Answers, Updates, AnyActive, Unsubscribed
<1>10. CASE PollAsks \/ FastAsks
  BY <1>1, <1>10, AwaitedLists DEF PollAsks, FastAsks, JobsViewTypeOK, Answers, Updates, AnyActive
<1>11. CASE PollAnswers
  <2> DEFINE list == Merge(polling.list)
             quiet == ~AnyActive(list) /\ \E j \in Jobs : list[j] # "none"
  <2>1. jobsShown' = list /\ jobsCached' = polling.list
    BY <1>11 DEF PollAnswers, ApplyFromApi
  <2>2. CASE quiet /\ calm = 2
    <3>1. polling' = NoList /\ calm' = 0 /\ room' = Unsubscribed /\ mail' = <<>>
      BY <1>11, <2>2 DEF PollAnswers, Leave
    <3> QED
      BY <1>1, <1>2, <1>3, <1>11, <2>1, <2>2, <3>1, AwaitedLists
      DEF PollAnswers, JobsViewTypeOK, Answers, Updates, AnyActive, Unsubscribed
  <2>3. CASE ~(quiet /\ calm = 2)
    <3>1. /\ polling' = Idling /\ room' = room /\ mail' = mail
          /\ calm' = IF quiet THEN calm + 1 ELSE 0
      BY <1>11, <2>3 DEF PollAnswers
    <3>2. calm' \in 0 .. 2
      BY <1>1, <2>3, <3>1
    <3> QED
      BY <1>1, <1>2, <1>11, <2>1, <3>1, <3>2, AwaitedLists
      DEF PollAnswers, JobsViewTypeOK, Answers, Updates
  <2> QED
    BY <2>2, <2>3
<1>12. CASE FastAnswers
  <2>1. /\ jobsShown' = Merge(fast.list) /\ jobsCached' = fast.list
        /\ fast' = IF AnyActive(Merge(fast.list)) THEN Idling ELSE NoList
    BY <1>12 DEF FastAnswers, ApplyFromApi
  <2> QED
    BY <1>1, <1>2, <1>12, <2>1, AwaitedLists
    DEF FastAnswers, JobsViewTypeOK, Answers, Updates, AnyActive
<1>13. CASE LoadAnswers
  <2>1. jobsShown' = Merge(loading.list) /\ jobsCached' = loading.list /\ loading' = NoList
    BY <1>13 DEF LoadAnswers, ApplyFromApi
  <2>2. CASE AnyActive(Merge(loading.list))
    <3>1. room' = Subscribe /\ mail' = <<>> /\ fast' = FastStart(Merge(loading.list))
      BY <1>13, <2>2 DEF LoadAnswers
    <3>2. room' = "asking" \/ fast' = Idling
      BY <1>5, <2>2, <3>1 DEF FastStart
    <3>3. room' # "deaf"
      BY <1>5, <3>1 DEF Unsubscribed
    <3> QED
      BY <1>1, <1>2, <1>3, <1>4, <1>5, <1>13, <2>1, <3>1, <3>2, <3>3, AwaitedLists
      DEF LoadAnswers, JobsViewTypeOK, Answers, Updates
  <2>3. CASE ~AnyActive(Merge(loading.list))
    <3>1. room' = Unsubscribed /\ mail' = <<>> /\ fast' = NoList
      BY <1>13, <2>3 DEF LoadAnswers, Leave
    <3> QED
      BY <1>1, <1>2, <1>3, <1>13, <2>1, <2>3, <3>1, AwaitedLists
      DEF LoadAnswers, JobsViewTypeOK, Answers, Updates, AnyActive, Unsubscribed
  <2> QED
    BY <2>2, <2>3
<1>14. CASE Update
  <2> DEFINE list == [jobsShown EXCEPT ![Head(mail).job] = Head(mail).status]
  <2>1. Head(mail) \in Updates /\ Tail(mail) \in Seq(Updates) /\ room = "joined"
    BY <1>1, <1>14, HeadTailProperties DEF Update
  <2>2. list \in Lists
    BY <1>1, <2>1 DEF Lists, Updates
  <2>3. /\ jobsShown' = list /\ jobsCached' = list
        /\ IF AnyActive(list) THEN mail' = Tail(mail) /\ room' = room
           ELSE room' = Unsubscribed /\ mail' = <<>>
    BY <1>14 DEF Update, Leave
  <2> HIDE DEF list
  <2> QED
    BY <1>1, <1>3, <1>14, <2>1, <2>2, <2>3
    DEF Update, JobsViewTypeOK, Answers, Updates, AnyActive, Unsubscribed
<1>15. CASE FilesUploaded
  <2>1. loading' \in Answers /\ loading' # NoList /\ jobsShown' \in Lists
    BY <1>1, <1>15, AwaitedLists DEF FilesUploaded
  <2>2. uploads' \in 0 .. Uploads /\ timer' \in BOOLEAN
    BY <1>1, <1>15, JobsViewAssumption DEF FilesUploaded
  <2>3. UNCHANGED <<rows, jobsCached, polling, calm, fast, room, mail, hasSocket, blinded, shownFaults>>
    BY <1>15 DEF FilesUploaded
  <2>4. JobsViewTypeOK'
    BY <1>1, <2>1, <2>2, <2>3 DEF JobsViewTypeOK, Answers, Updates
  <2>5. MailIsJoined'
    BY <2>3 DEF MailIsJoined
  <2> QED
    BY <2>1, <2>4, <2>5
<1>16. CASE TimerFires
  <2>1. CASE AnyActive(jobsShown)
    <3>1. room' = Subscribe /\ mail' = <<>> /\ fast' = FastStart(jobsShown)
      BY <1>16, <2>1 DEF TimerFires
    <3>2. room' = "asking" \/ fast' = Idling
      BY <1>5, <2>1, <3>1 DEF FastStart
    <3>3. room' # "deaf"
      BY <1>5, <3>1 DEF Unsubscribed
    <3>4. /\ UNCHANGED <<rows, jobsShown, jobsCached, polling, calm, loading, hasSocket, blinded,
                        uploads, shownFaults>>
          /\ timer' \in BOOLEAN
      BY <1>16 DEF TimerFires
    <3>5. fast' \in Answers /\ room' \in {Unsubscribed, "asking"} /\ mail' \in Seq(Updates)
      BY <1>3, <1>4, <1>5, <3>1
    <3>6. JobsViewTypeOK'
      BY <1>1, <3>4, <3>5 DEF JobsViewTypeOK, Answers, Updates
    <3> QED
      BY <3>1, <3>2, <3>3, <3>6, AwaitedLists
  <2>2. CASE ~AnyActive(jobsShown)
    BY <1>1, <1>16, <2>2 DEF TimerFires, JobsViewTypeOK, Answers, Updates, AnyActive
  <2> QED
    BY <2>1, <2>2
<1>17. CASE JobsViewFault
  <2>1. shownFaults' \in 0 .. ShownFaults /\ blinded' = TRUE
    BY <1>1, <1>17, JobsViewAssumption DEF JobsViewFault
  <2>2. /\ polling' \in Answers /\ loading' \in Answers /\ fast' \in Answers
        /\ \/ room' = room /\ mail' = mail
           \/ room' = "deaf" /\ mail' = <<>>
    BY <1>1, <1>17, AwaitedLists DEF JobsViewFault
  <2> QED
    BY <1>1, <1>3, <1>17, <2>1, <2>2 DEF JobsViewFault, JobsViewTypeOK, Answers, Updates
<1>18. CASE UNCHANGED jobsViewVars
  BY <1>18 DEF jobsViewVars, JobsViewTypeOK, AnyActive
<1> QED
  BY <1>7, <1>8, <1>9, <1>10, <1>11, <1>12, <1>13, <1>14, <1>15, <1>16, <1>17, <1>18
  DEF JobsViewNext

LEMMA JobsViewAlways == JobsViewSpec => []JobsViewInv
BY JobsViewInitial, JobsViewStep, PTL DEF JobsViewSpec

(* The page's lists, polls and subscription stay within their types.       *)
THEOREM JobsViewTypes == JobsViewSpec => []JobsViewTypeOK
<1>1. JobsViewInv => JobsViewTypeOK
  BY DEF JobsViewInv
<1> QED
  BY JobsViewAlways, <1>1, PTL

(* A job shown as running always has a poll, a load or a subscription that *)
(* will correct it, unless a request failed or the socket reconnected.     *)
THEOREM JobsViewWatched == JobsViewSpec => []ActiveIsWatched
<1>1. JobsViewInv => ActiveIsWatched
  BY DEF JobsViewInv
<1> QED
  BY JobsViewAlways, <1>1, PTL

-----------------------------------------------------------------------------
(* Avatars.                                                                *)

AssetCallType == [pc : {"idle", "find", "unlink", "remove", "save", "done"},
                  kind : {"upload", "delete"}, old : AssetCalls \cup {NoKey}, storage : Storages]

\* A new object stays where it was put until its call saves the row, and a
\* call that is about to unlink or remove knows of an avatar, not its own.
Fresh(c) ==
    /\ call[c].pc \in {"unlink", "remove"} => call[c].old # NoKey
    /\ call[c].pc \in {"idle", "find"} => call[c].old = NoKey
    /\ call[c].pc \in {"idle", "save"} => call[c].kind = "upload"
    /\ call[c].kind = "upload" /\ call[c].pc \in {"find", "unlink", "remove", "save"} =>
           <<call[c].storage, c>> \in objects
    \* Nobody knows of an avatar before its call has saved it.
    /\ call[c].kind = "delete" \/ call[c].pc # "done" =>
           avatar # c /\ \A d \in AssetCalls : call[d].old # c

FreshObjects == \A c \in AssetCalls : Fresh(c)

AssetInv == AssetTypeOK /\ FreshObjects /\ AvatarReadable

LEMMA AssetInitial == AssetInit => AssetInv
<1> SUFFICES ASSUME AssetInit PROVE AssetInv
  OBVIOUS
<1>1. /\ storage \in Storages /\ avatar = NoKey /\ objects = {} /\ ~disturbed
      /\ assetFaults \in 0 .. AssetFaults
  BY AssetAssumption DEF AssetInit
<1>2. /\ call \in [AssetCalls -> AssetCallType]
      /\ \A c \in AssetCalls : /\ call[c].pc = "idle" /\ call[c].kind = "upload"
                               /\ call[c].old = NoKey
  BY <1>1 DEF AssetInit, AssetCallType
<1>3. disturbed \in BOOLEAN
  BY DEF AssetInit
<1> QED
  BY <1>1, <1>2, <1>3, AssetAssumption
  DEF AssetInv, AssetTypeOK, AssetCallType, FreshObjects, Fresh, AvatarReadable

LEMMA AssetStep == AssetInv /\ [AssetNext]_assetVars => AssetInv'
<1> SUFFICES ASSUME AssetInv, [AssetNext]_assetVars PROVE AssetInv'
  OBVIOUS
<1> USE AssetAssumption DEF AssetInv
<1>1. /\ call \in [AssetCalls -> AssetCallType] /\ avatar \in AssetCalls \cup {NoKey}
      /\ objects \subseteq Storages \X AssetCalls /\ storage \in Storages
      /\ disturbed \in BOOLEAN /\ assetFaults \in 0 .. AssetFaults
  BY DEF AssetTypeOK, AssetCallType
<1>2. ASSUME NEW c \in AssetCalls, UploadImage(c) \/ DeleteImage(c) PROVE AssetInv'
  <2>1. call' \in [AssetCalls -> AssetCallType]
    BY <1>1, <1>2 DEF UploadImage, DeleteImage, AssetCallType
  <2>2. /\ \A d \in AssetCalls \ {c} : call'[d] = call[d]
        /\ call[c].pc = "idle" /\ call'[c].pc = "find" /\ call'[c].old = call[c].old
        /\ call'[c].kind = "upload" => <<call'[c].storage, c>> \in objects'
    BY <1>1, <1>2 DEF UploadImage, DeleteImage, AssetCallType
  <2>3. objects \subseteq objects' /\ objects' \subseteq Storages \X AssetCalls
    BY <1>1, <1>2 DEF UploadImage, DeleteImage
  <2>4. UNCHANGED <<avatar, storage, disturbed, assetFaults>>
    BY <1>2 DEF UploadImage, DeleteImage
  <2>5. FreshObjects'
    <3>1. Fresh(c) => Fresh(c)'
      BY <2>2, <2>4 DEF Fresh
    <3>2. ASSUME NEW d \in AssetCalls \ {c}, Fresh(d) PROVE Fresh(d)'
      BY <2>2, <2>3, <2>4, <3>2 DEF Fresh
    <3> QED
      BY <3>1, <3>2 DEF FreshObjects
  <2>6. AvatarReadable'
    BY <1>1, <2>2, <2>3, <2>4 DEF AvatarReadable
  <2> QED
    BY <1>1, <2>1, <2>3, <2>4, <2>5, <2>6 DEF AssetTypeOK, AssetCallType
<1>3. ASSUME NEW c \in AssetCalls, FindImage(c) PROVE AssetInv'
  <2>1. call' \in [AssetCalls -> AssetCallType]
    BY <1>1, <1>3 DEF FindImage, AssetCallType
  <2>2. /\ \A d \in AssetCalls \ {c} : call'[d] = call[d]
        /\ call[c].pc = "find" /\ call'[c].old = avatar
        /\ call'[c].kind = call[c].kind /\ call'[c].storage = call[c].storage
        /\ call'[c].pc = IF avatar # NoKey THEN "unlink"
                         ELSE IF call[c].kind = "upload" THEN "save" ELSE "done"
    BY <1>1, <1>3 DEF FindImage, AssetCallType
  <2>3. UNCHANGED <<avatar, objects, storage, disturbed, assetFaults>>
    BY <1>3 DEF FindImage
  <2> QED
    BY <1>1, <2>1, <2>2, <2>3 DEF AssetTypeOK, AssetCallType, FreshObjects, Fresh, AvatarReadable
<1>4. ASSUME NEW c \in AssetCalls, UnlinkOld(c) PROVE AssetInv'
  <2>1. call' \in [AssetCalls -> AssetCallType]
    BY <1>1, <1>4 DEF UnlinkOld, Move, AssetCallType
  <2>2. /\ \A d \in AssetCalls \ {c} : call'[d] = call[d]
        /\ call[c].pc = "unlink" /\ call'[c].pc = "remove" /\ call'[c].old = call[c].old
        /\ call'[c].kind = call[c].kind /\ call'[c].storage = call[c].storage
    BY <1>1, <1>4 DEF UnlinkOld, Move, AssetCallType
  <2>3. /\ objects' = objects \ {<<storage, call[c].old>>}
        /\ UNCHANGED <<avatar, storage, disturbed, assetFaults>>
    BY <1>4 DEF UnlinkOld
  <2>4. FreshObjects'
    <3>1. ASSUME NEW d \in AssetCalls, call[d].kind = "upload", call[d].pc \in {"find", "unlink", "remove", "save"}
          PROVE  <<call[d].storage, d>> \in objects'
      BY <2>3, <3>1 DEF FreshObjects, Fresh
    <3> QED
      BY <2>2, <2>3, <3>1 DEF FreshObjects, Fresh
  <2> QED
    BY <1>1, <2>1, <2>2, <2>3, <2>4 DEF AssetTypeOK, AssetCallType, AvatarReadable
<1>5. ASSUME NEW c \in AssetCalls, RemoveOld(c) PROVE AssetInv'
  <2>1. call' \in [AssetCalls -> AssetCallType]
    BY <1>1, <1>5 DEF RemoveOld, Move, AssetCallType
  <2>2. /\ \A d \in AssetCalls \ {c} : call'[d] = call[d]
        /\ call[c].pc = "remove" /\ call'[c].old = call[c].old
        /\ call'[c].pc = IF call[c].kind = "upload" THEN "save" ELSE "done"
        /\ call'[c].kind = call[c].kind /\ call'[c].storage = call[c].storage
    BY <1>1, <1>5 DEF RemoveOld, Move, AssetCallType
  <2>3. /\ avatar' = IF avatar = call[c].old THEN NoKey ELSE avatar
        /\ disturbed' = IF avatar' = NoKey THEN FALSE ELSE disturbed
        /\ UNCHANGED <<objects, storage, assetFaults>>
    BY <1>5 DEF RemoveOld
  <2>4. AvatarReadable'
    BY <1>1, <2>2, <2>3 DEF AvatarReadable, FreshObjects, Fresh
  <2>5. FreshObjects'
    BY <1>1, <2>2, <2>3 DEF FreshObjects, Fresh
  <2> QED
    BY <1>1, <2>1, <2>3, <2>4, <2>5 DEF AssetTypeOK, AssetCallType
<1>6. ASSUME NEW c \in AssetCalls, SaveImage(c) PROVE AssetInv'
  <2>1. call' \in [AssetCalls -> AssetCallType]
    BY <1>1, <1>6 DEF SaveImage, Move, AssetCallType
  <2>2. /\ \A d \in AssetCalls \ {c} : call'[d] = call[d]
        /\ call[c].pc = "save" /\ call'[c].pc = "done" /\ call'[c].old = call[c].old
        /\ call'[c].kind = call[c].kind /\ call'[c].storage = call[c].storage
    BY <1>1, <1>6 DEF SaveImage, Move, AssetCallType
  <2>3. /\ avatar' = IF avatar = NoKey THEN c ELSE avatar
        /\ disturbed' = IF avatar = NoKey THEN call[c].storage # storage ELSE disturbed
        /\ UNCHANGED <<objects, storage, assetFaults>>
    BY <1>6 DEF SaveImage
  <2>4. CASE avatar = NoKey
    <3>1. <<call[c].storage, c>> \in objects /\ disturbed' = (call[c].storage # storage)
      BY <2>2, <2>3, <2>4 DEF FreshObjects, Fresh
    <3>2. AvatarReadable' /\ disturbed' \in BOOLEAN
      BY <2>3, <2>4, <3>1, Zenon DEF AvatarReadable
    <3>3. FreshObjects'
      BY <1>1, <2>2, <2>3, <2>4 DEF FreshObjects, Fresh
    <3> QED
      BY <1>1, <2>1, <2>3, <3>2, <3>3 DEF AssetTypeOK, AssetCallType
  <2>5. CASE avatar # NoKey
    <3>1. AvatarReadable'
      BY <2>2, <2>3, <2>5 DEF AvatarReadable
    <3>2. FreshObjects'
      BY <1>1, <2>2, <2>3, <2>5 DEF FreshObjects, Fresh
    <3> QED
      BY <1>1, <2>1, <2>3, <2>5, <3>1, <3>2 DEF AssetTypeOK, AssetCallType
  <2> QED
    BY <2>4, <2>5
<1>7. ASSUME NEW c \in AssetCalls, CallFails(c) PROVE AssetInv'
  <2>1. call' \in [AssetCalls -> AssetCallType] /\ assetFaults' \in 0 .. AssetFaults
    BY <1>1, <1>7 DEF CallFails, Move, AssetFault, AssetCallType
  <2>2. /\ \A d \in AssetCalls \ {c} : call'[d] = call[d]
        /\ call'[c].pc = "done" /\ call'[c].old = call[c].old
        /\ call'[c].kind = call[c].kind /\ call'[c].storage = call[c].storage
    BY <1>1, <1>7 DEF CallFails, Move, AssetCallType
  <2>3. /\ disturbed' = (disturbed \/ (call[c].pc = "remove" /\ avatar = call[c].old))
        /\ UNCHANGED <<avatar, objects, storage>>
    BY <1>7 DEF CallFails
  <2>4. FreshObjects'
    BY <1>1, <2>2, <2>3 DEF FreshObjects, Fresh
  <2>5. AvatarReadable'
    BY <1>1, <2>2, <2>3 DEF AvatarReadable
  <2>6. disturbed' \in BOOLEAN
    BY <1>1, <2>3
  <2> QED
    BY <1>1, <2>1, <2>3, <2>4, <2>5, <2>6 DEF AssetTypeOK, AssetCallType
<1>8. CASE ChangeStorage
  <2>1. /\ storage' \in Storages /\ assetFaults' \in 0 .. AssetFaults
        /\ UNCHANGED <<avatar, objects, call>>
    BY <1>1, <1>8 DEF ChangeStorage, AssetFault
  <2>2. disturbed' \in BOOLEAN /\ (avatar # NoKey => disturbed')
    BY <1>8, Zenon DEF ChangeStorage
  <2>3. FreshObjects'
    BY <2>1 DEF FreshObjects, Fresh
  <2> QED
    BY <1>1, <2>1, <2>2, <2>3 DEF AssetTypeOK, AssetCallType, AvatarReadable
<1>9. CASE UNCHANGED assetVars
  BY <1>9 DEF assetVars, AssetTypeOK, FreshObjects, Fresh, AvatarReadable
<1> QED
  BY <1>2, <1>3, <1>4, <1>5, <1>6, <1>7, <1>8, <1>9 DEF AssetNext

LEMMA AssetAlways == AssetSpec => []AssetInv
BY AssetInitial, AssetStep, PTL DEF AssetSpec

(* Rows, objects and calls stay within their types.                        *)
THEOREM AssetTypes == AssetSpec => []AssetTypeOK
<1>1. AssetInv => AssetTypeOK
  BY DEF AssetInv
<1> QED
  BY AssetAlways, <1>1, PTL

(* For any number of overlapping uploads and deletions, an avatar can be   *)
(* read or is being removed, unless a call was cut off or the storage      *)
(* changed.                                                                *)
THEOREM AvatarsReadable == AssetSpec => []AvatarReadable
<1>1. AssetInv => AvatarReadable
  BY DEF AssetInv
<1> QED
  BY AssetAlways, <1>1, PTL

-----------------------------------------------------------------------------
(* Evaluation and review of a document.                                    *)

ReviewStates == {"none", "queued", "evaluated", "saving", "enqueueing", "looking", "inserting",
                 "done", "failed"}
JobsOf(Results) == [st : ReviewStates, tries : 0 .. ReviewAttempts, stalls : 0 .. 2,
                    result : Results \cup {"none"}, row : Row]

\* A job that has not failed has an attempt left and has stalled at most once,
\* and one that looks for a review knows which model it asked.
Bounded(j) ==
    /\ j.st # "failed" => j.tries < ReviewAttempts /\ j.stalls <= 1
    /\ j.st \in {"looking", "inserting"} => j.result \in Models

\* A job that is saving holds a copy of an existing row; a document that is
\* gone has no reviews and none is remembered.
RowsAreReal ==
    /\ \A e \in Evaluations : evaluation[e].st = "saving" => evaluation[e].row.here
    /\ ~docRow.here => reviews = {} /\ ~everReviewed

ReviewInv ==
    /\ ReviewTypeOK
    /\ \A e \in Evaluations : Bounded(evaluation[e])
    /\ \A j \in ReviewJobs : Bounded(review[j])
    /\ RowsAreReal
    /\ ReviewGapHasForcedRun

LEMMA RowTypes ==
    /\ NoRow \in Row /\ ~NoRow.here
    /\ \A row \in Row, j \in Jurisdictions \cup {"none"} :
          [row EXCEPT !.jurisdiction = j] \in Row /\ [row EXCEPT !.jurisdiction = j].here = row.here
    /\ \A row \in Row : [row EXCEPT !.title = 1] \in Row /\ [row EXCEPT !.title = 1].here = row.here
BY DEF NoRow, Row

LEMMA NewJobs ==
    ASSUME NEW Results, NEW st \in ReviewStates \ {"looking", "inserting"}
    PROVE  /\ NewJob(st) \in JobsOf(Results) /\ NewJob(st).st = st
           /\ Bounded(NewJob(st))
BY ReviewAssumption, RowTypes DEF NewJob, JobsOf, Bounded

\* A job that throws or stalls is given back or given up, within its bounds.
LEMMA GivenBack ==
    ASSUME NEW Results, NEW Names, NEW jobs \in [Names -> JobsOf(Results)],
           \A n \in Names : Bounded(jobs[n]),
           NEW n \in Names, jobs[n].st # "failed",
           NEW next \in {Throw(jobs, n), Stalled(jobs, n)}
    PROVE  /\ next \in [Names -> JobsOf(Results)]
           /\ \A m \in Names : Bounded(next[m])
           /\ \A m \in Names \ {n} : next[m] = jobs[m]
           /\ next[n].st \in {"queued", "failed"}
<1> DEFINE job == jobs[n]
<1>1. /\ job \in JobsOf(Results) /\ job.tries < ReviewAttempts /\ job.stalls <= 1
      /\ job.tries \in Nat /\ job.stalls \in Nat /\ ReviewAttempts \in Nat
  BY ReviewAssumption DEF JobsOf, Bounded
<1>2. ASSUME NEW again \in BOOLEAN, NEW tries \in 0 .. ReviewAttempts, NEW stalls \in 0 .. 2,
             again => tries < ReviewAttempts /\ stalls <= 1
      PROVE  LET new == [NewJob(IF again THEN "queued" ELSE "failed") EXCEPT
                            !.tries = tries, !.stalls = stalls]
             IN new \in JobsOf(Results) /\ Bounded(new) /\ new.st \in {"queued", "failed"}
  BY <1>2, RowTypes DEF NewJob, JobsOf, Bounded, ReviewStates
<1>3. CASE next = Throw(jobs, n)
  <2> DEFINE again == job.tries + 1 < ReviewAttempts
  <2>1. next = [jobs EXCEPT ![n] = [NewJob(IF again THEN "queued" ELSE "failed") EXCEPT
                                        !.tries = job.tries + 1, !.stalls = job.stalls]]
    BY <1>1, <1>3 DEF Throw, Again, JobsOf
  <2>2. job.tries + 1 \in 0 .. ReviewAttempts /\ job.stalls \in 0 .. 2 /\ again \in BOOLEAN
    BY <1>1
  <2> DEFINE new == [NewJob(IF again THEN "queued" ELSE "failed") EXCEPT
                        !.tries = job.tries + 1, !.stalls = job.stalls]
  <2>3. new \in JobsOf(Results) /\ Bounded(new) /\ new.st \in {"queued", "failed"}
    BY <1>1, <1>2, <2>2
  <2>4. next = [jobs EXCEPT ![n] = new]
    BY <2>1
  <2> HIDE DEF new
  <2> QED
    BY <2>3, <2>4
<1>4. CASE next = Stalled(jobs, n)
  <2> DEFINE again == job.stalls < 1
  <2>1. next = [jobs EXCEPT ![n] = [NewJob(IF again THEN "queued" ELSE "failed") EXCEPT
                                        !.tries = job.tries, !.stalls = job.stalls + 1]]
    BY <1>1, <1>4 DEF Stalled, Again, JobsOf
  <2>2. job.tries \in 0 .. ReviewAttempts /\ job.stalls + 1 \in 0 .. 2 /\ again \in BOOLEAN
    BY <1>1
  <2> DEFINE new == [NewJob(IF again THEN "queued" ELSE "failed") EXCEPT
                        !.tries = job.tries, !.stalls = job.stalls + 1]
  <2>3. new \in JobsOf(Results) /\ Bounded(new) /\ new.st \in {"queued", "failed"}
    <3>1. again => job.tries < ReviewAttempts /\ job.stalls + 1 <= 1
      BY <1>1
    <3> HIDE DEF again
    <3> QED
      BY <1>2, <2>2, <3>1
  <2>4. next = [jobs EXCEPT ![n] = new]
    BY <2>1
  <2> HIDE DEF new
  <2> QED
    BY <2>3, <2>4
<1> QED
  BY <1>3, <1>4

\* One job is replaced by another, the others stay.
LEMMA Replaced ==
    ASSUME NEW Results, NEW Names, NEW jobs \in [Names -> JobsOf(Results)], NEW n \in Names,
           NEW job \in JobsOf(Results), NEW next, next = [jobs EXCEPT ![n] = job]
    PROVE  /\ next \in [Names -> JobsOf(Results)] /\ next[n] = job
           /\ \A m \in Names \ {n} : next[m] = jobs[m]
OBVIOUS

Reviews == [model : Models, jurisdiction : Jurisdictions \cup {"none"}]

LEMMA ReviewInitial == ReviewInit => ReviewInv
<1> SUFFICES ASSUME ReviewInit PROVE ReviewInv
  OBVIOUS
<1>1. /\ docRow \in Row /\ docRow.here /\ edit \in Row /\ reviews = {} /\ ~everReviewed
      /\ reviewFaults = 0
  <2>1. docRow = [NoRow EXCEPT !.here = TRUE] /\ edit = NoRow
    BY DEF ReviewInit
  <2>2. docRow \in Row /\ docRow.here /\ edit \in Row
    BY <2>1, Zenon, RowTypes DEF NoRow, Row
  <2>3. reviews = {} /\ ~everReviewed /\ reviewFaults = 0
    BY DEF ReviewInit
  <2> QED
    BY <2>2, <2>3
<1>2. /\ evaluation \in [Evaluations -> JobsOf(Jurisdictions)]
      /\ \A e \in Evaluations : Bounded(evaluation[e]) /\ evaluation[e].st = "none"
  BY NewJobs DEF ReviewInit, ReviewStates
<1>3. review \in [ReviewJobs -> JobsOf(Models)] /\ \A j \in ReviewJobs : Bounded(review[j])
  BY NewJobs DEF ReviewInit, ReviewStates
<1>4. reviewFaults \in 0 .. ReviewFaults
  BY <1>1, ReviewAssumption
<1>5. everReviewed \in BOOLEAN
  BY DEF ReviewInit
<1>6. ReviewTypeOK
  BY <1>1, <1>2, <1>3, <1>4, <1>5 DEF ReviewTypeOK, JobsOf, ReviewStates
<1> QED
  BY <1>1, <1>2, <1>3, <1>6 DEF ReviewInv, RowsAreReal, ReviewGapHasForcedRun

\* What the type invariant says, one variable at a time.
LEMMA ReviewTyped ==
    ReviewTypeOK <=>
        /\ docRow \in Row /\ edit \in Row
        /\ evaluation \in [Evaluations -> JobsOf(Jurisdictions)]
        /\ review \in [ReviewJobs -> JobsOf(Models)]
        /\ reviews \subseteq Reviews
        /\ everReviewed \in BOOLEAN
        /\ reviewFaults \in 0 .. ReviewFaults
BY DEF ReviewTypeOK, JobsOf, ReviewStates, Reviews

\* A step of one evaluation that leaves it with a fitting job.
LEMMA EvaluationMoves ==
    ASSUME ReviewInv, NEW e \in Evaluations,
           evaluation' \in [Evaluations -> JobsOf(Jurisdictions)],
           \A d \in Evaluations \ {e} : evaluation'[d] = evaluation[d],
           Bounded(evaluation'[e]),
           evaluation'[e].st = "saving" => evaluation'[e].row.here,
           docRow' \in Row, docRow.here => docRow'.here,
           review' \in [ReviewJobs -> JobsOf(Models)], \A j \in ReviewJobs : Bounded(review'[j]),
           \A j \in Reruns : review'[j] = review[j],
           reviewFaults' \in 0 .. ReviewFaults,
           UNCHANGED <<reviews, edit, everReviewed>>
    PROVE  ReviewInv'
<1>1. ReviewTypeOK'
  BY ReviewTyped DEF ReviewInv, ReviewTypeOK, JobsOf, ReviewStates
<1>2. RowsAreReal'
  BY DEF ReviewInv, RowsAreReal
<1>3. ReviewGapHasForcedRun'
  BY DEF ReviewInv, RowsAreReal, ReviewGapHasForcedRun
<1> QED
  BY <1>1, <1>2, <1>3 DEF ReviewInv

LEMMA AnyEvaluationMoves ==
    ASSUME ReviewInv, NEW e \in Evaluations, QueueEvaluation(e) \/ EvaluationStep(e)
    PROVE  ReviewInv'
<1>1. /\ docRow \in Row /\ evaluation \in [Evaluations -> JobsOf(Jurisdictions)]
      /\ review \in [ReviewJobs -> JobsOf(Models)]
      /\ reviewFaults \in 0 .. ReviewFaults /\ reviewFaults \in Nat /\ ReviewFaults \in Nat
      /\ Bounded(evaluation[e]) /\ \A j \in ReviewJobs : Bounded(review[j])
  BY ReviewTyped, ReviewAssumption DEF ReviewInv
<1>2. CASE QueueEvaluation(e)
  <2>1. /\ evaluation' \in [Evaluations -> JobsOf(Jurisdictions)]
        /\ evaluation'[e].st = "queued" /\ Bounded(evaluation'[e])
        /\ \A d \in Evaluations \ {e} : evaluation'[d] = evaluation[d]
    BY <1>1, <1>2 DEF QueueEvaluation, Set, JobsOf, ReviewStates, Bounded
  <2> QED
    BY <1>1, <1>2, <2>1, EvaluationMoves DEF QueueEvaluation
<1>3. CASE Evaluate(e)
  <2>1. /\ evaluation' \in [Evaluations -> JobsOf(Jurisdictions)]
        /\ evaluation'[e].st = "evaluated" /\ Bounded(evaluation'[e])
        /\ \A d \in Evaluations \ {e} : evaluation'[d] = evaluation[d]
    <3>1. PICK j \in Jurisdictions :
              evaluation' = [evaluation EXCEPT ![e].st = "evaluated", ![e].result = j]
      BY <1>3 DEF Evaluate
    <3> DEFINE job == [evaluation[e] EXCEPT !.st = "evaluated", !.result = j]
    <3>2. job \in JobsOf(Jurisdictions) /\ job.st = "evaluated" /\ Bounded(job)
      BY <1>1, <1>3, ZenonT(60) DEF Evaluate, JobsOf, ReviewStates, Bounded
    <3>3. evaluation' = [evaluation EXCEPT ![e] = job]
      BY <1>1, <3>1
    <3> HIDE DEF job
    <3> QED
      BY <1>1, <3>2, <3>3, Replaced
  <2> QED
    BY <1>1, <1>3, <2>1, EvaluationMoves DEF Evaluate
<1>4. CASE LoadDocument(e)
  <2>1. CASE docRow.here
    <3> DEFINE row == [docRow EXCEPT !.jurisdiction = evaluation[e].result]
    <3>1. row \in Row /\ row.here
      BY <1>1, <2>1, RowTypes DEF JobsOf
    <3>2. evaluation' = [evaluation EXCEPT ![e].st = "saving", ![e].result = "none", ![e].row = row]
      BY <1>4, <2>1 DEF LoadDocument
    <3> HIDE DEF row
    <3>3. /\ evaluation' \in [Evaluations -> JobsOf(Jurisdictions)]
          /\ Bounded(evaluation'[e]) /\ evaluation'[e].row.here
          /\ \A d \in Evaluations \ {e} : evaluation'[d] = evaluation[d]
      <4> DEFINE job == [evaluation[e] EXCEPT !.st = "saving", !.result = "none", !.row = row]
      <4>1. job \in JobsOf(Jurisdictions) /\ job.row.here /\ Bounded(job)
        BY <1>1, <1>4, <3>1 DEF LoadDocument, JobsOf, ReviewStates, Bounded
      <4>2. evaluation' = [evaluation EXCEPT ![e] = job]
        BY <1>1, <3>2
      <4> HIDE DEF job
      <4> QED
        BY <1>1, <4>1, <4>2, Replaced
    <3> QED
      BY <1>1, <1>4, <3>3, EvaluationMoves DEF LoadDocument
  <2>2. CASE ~docRow.here
    <3>1. evaluation' = [evaluation EXCEPT ![e] = NewJob("done")]
      BY <1>4, <2>2 DEF LoadDocument
    <3>2. NewJob("done") \in JobsOf(Jurisdictions) /\ Bounded(NewJob("done")) /\ NewJob("done").st = "done"
      BY NewJobs DEF ReviewStates
    <3> QED
      BY <1>1, <1>4, <3>1, <3>2, EvaluationMoves DEF LoadDocument
  <2> QED
    BY <2>1, <2>2
<1>5. CASE SaveDocument(e)
  <2>1. evaluation[e].row \in Row /\ evaluation[e].row.here
    BY <1>1, <1>5 DEF SaveDocument, JobsOf, ReviewInv, RowsAreReal
  <2>2. /\ evaluation' \in [Evaluations -> JobsOf(Jurisdictions)]
        /\ evaluation'[e].st = "enqueueing" /\ Bounded(evaluation'[e])
        /\ \A d \in Evaluations \ {e} : evaluation'[d] = evaluation[d]
    <3> DEFINE job == [evaluation[e] EXCEPT !.st = "enqueueing", !.row = NoRow, !.result = "none"]
    <3>1. job \in JobsOf(Jurisdictions) /\ job.st = "enqueueing" /\ Bounded(job)
      BY <1>1, <1>5, RowTypes, ZenonT(60) DEF SaveDocument, JobsOf, ReviewStates, Bounded
    <3>2. evaluation' = [evaluation EXCEPT ![e] = job]
      BY <1>1, <1>5 DEF SaveDocument
    <3> HIDE DEF job
    <3> QED
      BY <1>1, <3>1, <3>2, Replaced
  <2> QED
    BY <1>1, <1>5, <2>1, <2>2, EvaluationMoves DEF SaveDocument, Row
<1>6. CASE EnqueueReview(e)
  <2>1. /\ evaluation' = [evaluation EXCEPT ![e] = NewJob("done")]
        /\ review' = review \/ (review' = Set(review, e, "queued") /\ review[e].st = "none")
        /\ reviewFaults' \in 0 .. ReviewFaults
        /\ UNCHANGED <<docRow, reviews, edit, everReviewed>>
    BY <1>1, <1>6 DEF EnqueueReview
  <2>2. /\ evaluation' \in [Evaluations -> JobsOf(Jurisdictions)]
        /\ evaluation'[e].st = "done" /\ Bounded(evaluation'[e])
        /\ \A d \in Evaluations \ {e} : evaluation'[d] = evaluation[d]
    BY <1>1, <2>1, NewJobs DEF ReviewStates
  <2>3. /\ review' \in [ReviewJobs -> JobsOf(Models)]
        /\ \A j \in ReviewJobs : Bounded(review'[j])
        /\ \A j \in ReviewJobs \ {e} : review'[j] = review[j]
    BY <1>1, <2>1 DEF Set, JobsOf, ReviewStates, Bounded
  <2>4. \A j \in Reruns : j \in ReviewJobs \ {e}
    BY ReviewAssumption DEF ReviewJobs
  <2> QED
    BY <1>1, <2>1, <2>2, <2>3, <2>4, EvaluationMoves
<1> QED
  BY <1>2, <1>3, <1>4, <1>5, <1>6 DEF EvaluationStep

\* A step of one review job that leaves the reviews alone, and a forced job
\* that had still to make up for its deletion with one that still has.
LEMMA ReviewMoves ==
    ASSUME ReviewInv, NEW j \in ReviewJobs,
           review' \in [ReviewJobs -> JobsOf(Models)], Bounded(review'[j]),
           \A i \in ReviewJobs \ {j} : review'[i] = review[i],
           review[j].st \in {"inserting", "queued", "looking", "failed"} /\ j \in Reruns =>
               review'[j].st \in {"inserting", "queued", "looking", "failed"},
           reviewFaults' \in 0 .. ReviewFaults,
           UNCHANGED <<docRow, evaluation, reviews, edit, everReviewed>>
    PROVE  ReviewInv'
<1>1. ReviewTypeOK'
  BY ReviewTyped DEF ReviewInv, ReviewTypeOK, JobsOf, ReviewStates
<1>2. RowsAreReal' /\ \A i \in ReviewJobs : Bounded(review'[i])
  BY DEF ReviewInv, RowsAreReal
<1>3. \A i \in Reruns : i \in ReviewJobs
  BY DEF ReviewJobs
<1>4. ReviewGapHasForcedRun'
  BY <1>3 DEF ReviewInv, ReviewGapHasForcedRun
<1> QED
  BY <1>1, <1>2, <1>4 DEF ReviewInv

LEMMA ReviewSteps ==
    ASSUME ReviewInv, NEW j \in ReviewJobs, Rerun(j) \/ ReviewStep(j)
    PROVE  ReviewInv'
<1>1. /\ docRow \in Row /\ review \in [ReviewJobs -> JobsOf(Models)] /\ reviews \subseteq Reviews
      /\ reviewFaults \in 0 .. ReviewFaults
      /\ Bounded(review[j]) /\ \A i \in ReviewJobs : Bounded(review[i])
  BY ReviewTyped DEF ReviewInv
<1>2. CASE Rerun(j)
  <2> DEFINE job == [review[j] EXCEPT !.st = "queued"]
  <2>1. job \in JobsOf(Models) /\ Bounded(job) /\ job.st = "queued"
    BY <1>1, <1>2 DEF Rerun, JobsOf, ReviewStates, Bounded
  <2>2. review' = [review EXCEPT ![j] = job]
    BY <1>1, <1>2 DEF Rerun, Set
  <2> HIDE DEF job
  <2> QED
    BY <1>1, <1>2, <2>1, <2>2, Replaced, ReviewMoves DEF Rerun
<1>3. CASE Inspect(j)
  <2>1. ASSUME NEW m \in Models,
               review' = [review EXCEPT ![j].st = "looking", ![j].result = m,
                                        ![j].row.jurisdiction = docRow.jurisdiction]
        PROVE  ReviewInv'
    <3> DEFINE row == [review[j].row EXCEPT !.jurisdiction = docRow.jurisdiction]
               job == [review[j] EXCEPT !.st = "looking", !.result = m, !.row = row]
    <3>2. row \in Row
      BY <1>1, RowTypes DEF JobsOf, Row
    <3>3. job \in JobsOf(Models) /\ Bounded(job) /\ job.st = "looking"
      BY <1>1, <1>3, <3>2 DEF Inspect, JobsOf, ReviewStates, Bounded
    <3>4. review' = [review EXCEPT ![j] = job]
      BY <1>1, <2>1 DEF JobsOf
    <3> HIDE DEF job
    <3> QED
      BY <1>1, <1>3, <3>3, <3>4, Replaced, ReviewMoves DEF Inspect
  <2>2. CASE review' = Throw(review, j)
    <3>1. review' = Throw(review, j) /\ review[j].st # "failed"
      BY <1>3, <2>2 DEF Inspect
    <3>2. /\ review' \in [ReviewJobs -> JobsOf(Models)] /\ \A i \in ReviewJobs : Bounded(review'[i])
          /\ \A i \in ReviewJobs \ {j} : review'[i] = review[i]
          /\ review'[j].st \in {"queued", "failed"}
      BY <1>1, <3>1, GivenBack
    <3> QED
      BY <1>1, <1>3, <3>2, ReviewMoves DEF Inspect
  <2> QED
    BY <1>3, <2>1, <2>2 DEF Inspect
<1>4. CASE LookUp(j)
  <2> DEFINE job == [review[j] EXCEPT !.st = "inserting"]
  <2>1. job \in JobsOf(Models) /\ Bounded(job) /\ job.st = "inserting"
    BY <1>1, <1>4 DEF LookUp, JobsOf, ReviewStates, Bounded
  <2>2. Set(review, j, "inserting") = [review EXCEPT ![j] = job]
    BY <1>1 DEF Set
  <2> HIDE DEF job
  <2>3. CASE j \in Reruns
    <3>1. /\ review' = [review EXCEPT ![j] = job] /\ reviews' \subseteq reviews
          /\ UNCHANGED <<docRow, evaluation, edit, everReviewed, reviewFaults>>
      BY <1>4, <2>2, <2>3 DEF LookUp
    <3>2. /\ review' \in [ReviewJobs -> JobsOf(Models)] /\ review'[j] = job
          /\ \A i \in ReviewJobs \ {j} : review'[i] = review[i]
      BY <1>1, <2>1, <3>1, Replaced
    <3>3. ReviewTypeOK'
      BY <1>1, <3>1, <3>2, ReviewTyped DEF ReviewInv, ReviewTypeOK, JobsOf, ReviewStates, Reviews
    <3>4. ReviewGapHasForcedRun'
      BY <2>1, <2>3, <3>2 DEF ReviewGapHasForcedRun
    <3>5. RowsAreReal' /\ \A e \in Evaluations : Bounded(evaluation'[e])
      BY <3>1 DEF ReviewInv, RowsAreReal
    <3>6. \A i \in ReviewJobs : Bounded(review'[i])
      BY <1>1, <2>1, <3>2
    <3> QED
      BY <3>3, <3>4, <3>5, <3>6 DEF ReviewInv
  <2>4. CASE j \notin Reruns
    <3>1. /\ review' \in {[review EXCEPT ![j] = NewJob("done")], [review EXCEPT ![j] = job]}
          /\ UNCHANGED <<docRow, evaluation, reviews, edit, everReviewed, reviewFaults>>
      BY <1>4, <2>2, <2>4 DEF LookUp
    <3>2. NewJob("done") \in JobsOf(Models) /\ Bounded(NewJob("done"))
      BY NewJobs DEF ReviewStates
    <3>3. /\ review' \in [ReviewJobs -> JobsOf(Models)] /\ Bounded(review'[j])
          /\ \A i \in ReviewJobs \ {j} : review'[i] = review[i]
      BY <1>1, <2>1, <3>1, <3>2, Replaced
    <3> QED
      BY <1>1, <2>4, <3>1, <3>3, ReviewMoves
  <2> QED
    BY <2>3, <2>4
<1>5. CASE InsertReview(j)
  <2> DEFINE m == review[j].result
             refused == SameKey(m) # {} \/ ~docRow.here
             new == [model |-> m, jurisdiction |-> review[j].row.jurisdiction]
  <2>1. CASE refused
    <3>1. /\ review' = Throw(review, j) /\ review[j].st = "inserting"
          /\ reviews' = reviews /\ everReviewed' = everReviewed
          /\ UNCHANGED <<docRow, evaluation, edit, reviewFaults>>
      <4>1. /\ review' = Throw(review, j) /\ review[j].st = "inserting" /\ reviews' = reviews
            /\ everReviewed' = (everReviewed \/ FALSE)
            /\ UNCHANGED <<docRow, evaluation, edit, reviewFaults>>
        BY <1>5, <2>1 DEF InsertReview
      <4>2. everReviewed \in BOOLEAN
        BY ReviewTyped DEF ReviewInv
      <4> QED
        BY <4>1, <4>2
    <3>2. /\ review' \in [ReviewJobs -> JobsOf(Models)] /\ \A i \in ReviewJobs : Bounded(review'[i])
          /\ \A i \in ReviewJobs \ {j} : review'[i] = review[i]
          /\ review'[j].st \in {"queued", "failed"}
      BY <1>1, <3>1, GivenBack
    <3> QED
      BY <1>1, <3>1, <3>2, ReviewMoves
  <2>2. CASE ~refused
    <3>1. /\ review' = [review EXCEPT ![j] = NewJob("done")] /\ reviews' = reviews \cup {new}
          /\ docRow.here
          /\ UNCHANGED <<docRow, evaluation, edit, reviewFaults>>
      BY <1>5, <2>2 DEF InsertReview
    <3>2. everReviewed' \in BOOLEAN
      BY <1>5 DEF InsertReview
    <3>3. new \in Reviews
      <4>1. m \in Models \cup {"none"} /\ review[j].row.jurisdiction \in Jurisdictions \cup {"none"}
        BY <1>1 DEF JobsOf, Row
      <4>2. m \in Models
        BY <1>1, <1>5 DEF InsertReview, Bounded
      <4> QED
        BY <4>1, <4>2 DEF Reviews
    <3>4. NewJob("done") \in JobsOf(Models) /\ Bounded(NewJob("done"))
      BY NewJobs DEF ReviewStates
    <3> HIDE DEF new
    <3>5. /\ review' \in [ReviewJobs -> JobsOf(Models)] /\ Bounded(review'[j])
          /\ \A i \in ReviewJobs \ {j} : review'[i] = review[i]
      BY <1>1, <3>1, <3>4, Replaced
    <3>6. ReviewTypeOK'
      BY <1>1, <3>1, <3>2, <3>3, <3>5, ReviewTyped
      DEF ReviewInv, ReviewTypeOK, JobsOf, ReviewStates, Reviews
    <3>7. RowsAreReal' /\ ReviewGapHasForcedRun'
      BY <3>1 DEF ReviewInv, RowsAreReal, ReviewGapHasForcedRun
    <3>8. /\ \A i \in ReviewJobs : Bounded(review'[i])
          /\ \A e \in Evaluations : Bounded(evaluation'[e])
      BY <1>1, <3>1, <3>5 DEF ReviewInv
    <3> QED
      BY <3>6, <3>7, <3>8 DEF ReviewInv
  <2> QED
    BY <2>1, <2>2
<1> QED
  BY <1>2, <1>3, <1>4, <1>5 DEF ReviewStep

LEMMA FaultSteps == ASSUME ReviewInv, ReviewFault PROVE ReviewInv'
<1>1. /\ docRow \in Row /\ edit \in Row /\ reviews \subseteq Reviews
      /\ evaluation \in [Evaluations -> JobsOf(Jurisdictions)]
      /\ review \in [ReviewJobs -> JobsOf(Models)]
      /\ \A e \in Evaluations : Bounded(evaluation[e])
      /\ \A i \in ReviewJobs : Bounded(review[i])
  BY ReviewTyped DEF ReviewInv
<1>2. reviewFaults' \in 0 .. ReviewFaults
  BY ReviewTyped, ReviewAssumption DEF ReviewInv, ReviewFault
<1>3. ASSUME NEW e \in Evaluations, Running(evaluation[e]),
             evaluation' \in {Throw(evaluation, e), Stalled(evaluation, e)},
             UNCHANGED <<docRow, review, reviews, edit, everReviewed>>
      PROVE  ReviewInv'
  <2>1. /\ evaluation' \in [Evaluations -> JobsOf(Jurisdictions)]
        /\ \A d \in Evaluations : Bounded(evaluation'[d])
        /\ \A d \in Evaluations \ {e} : evaluation'[d] = evaluation[d]
        /\ evaluation'[e].st \in {"queued", "failed"}
    BY <1>1, <1>3, GivenBack DEF Running
  <2> QED
    BY <1>1, <1>2, <1>3, <2>1, EvaluationMoves
<1>4. ASSUME NEW j \in ReviewJobs, Running(review[j]),
             review' \in {Throw(review, j), Stalled(review, j)},
             UNCHANGED <<docRow, evaluation, reviews, edit, everReviewed>>
      PROVE  ReviewInv'
  <2>1. /\ review' \in [ReviewJobs -> JobsOf(Models)]
        /\ \A i \in ReviewJobs : Bounded(review'[i])
        /\ \A i \in ReviewJobs \ {j} : review'[i] = review[i]
        /\ review'[j].st \in {"queued", "failed"}
    BY <1>1, <1>4, GivenBack DEF Running
  <2> QED
    BY <1>1, <1>2, <1>4, <2>1, ReviewMoves
<1>5. CASE StartEdit
  <2>1. edit' \in Row /\ UNCHANGED <<docRow, evaluation, review, reviews, everReviewed>>
    BY <1>1, <1>5, RowTypes DEF StartEdit
  <2>2. ReviewTypeOK'
    BY <1>1, <1>2, <2>1, ReviewTyped DEF ReviewInv, ReviewTypeOK, JobsOf, ReviewStates, Reviews
  <2> QED
    BY <1>1, <2>1, <2>2 DEF ReviewInv, RowsAreReal, ReviewGapHasForcedRun
<1>6. CASE DeleteReviewedDocument
  <2>1. /\ docRow' \in Row /\ ~docRow'.here /\ reviews' = {} /\ ~everReviewed'
        /\ everReviewed' \in BOOLEAN /\ UNCHANGED <<evaluation, review, edit>>
    BY <1>6, RowTypes DEF DeleteReviewedDocument
  <2>2. ReviewTypeOK'
    BY <1>1, <1>2, <2>1 DEF ReviewTypeOK, JobsOf, ReviewStates, Reviews
  <2> QED
    BY <1>1, <2>1, <2>2 DEF ReviewInv, RowsAreReal, ReviewGapHasForcedRun
<1> QED
  BY <1>3, <1>4, <1>5, <1>6 DEF ReviewFault

LEMMA ReviewNextStep == ReviewInv /\ [ReviewNext]_reviewVars => ReviewInv'
<1> SUFFICES ASSUME ReviewInv, [ReviewNext]_reviewVars PROVE ReviewInv'
  OBVIOUS
<1>1. CASE SaveEdit
  <2>1. /\ docRow' = edit /\ edit.here /\ edit' = NoRow
        /\ UNCHANGED <<evaluation, review, reviews, everReviewed, reviewFaults>>
    BY <1>1 DEF SaveEdit
  <2>2. edit \in Row /\ NoRow \in Row
    BY RowTypes, ReviewTyped DEF ReviewInv
  <2>3. ReviewTypeOK'
    BY <2>1, <2>2 DEF ReviewInv, ReviewTypeOK
  <2> QED
    BY <2>1, <2>3 DEF ReviewInv, RowsAreReal, ReviewGapHasForcedRun
<1>2. CASE UNCHANGED reviewVars
  BY <1>2 DEF reviewVars, ReviewInv, ReviewTypeOK, RowsAreReal, ReviewGapHasForcedRun
<1> QED
  BY <1>1, <1>2, AnyEvaluationMoves, ReviewSteps, FaultSteps DEF ReviewNext

LEMMA ReviewAlways == ReviewSpec => []ReviewInv
BY ReviewInitial, ReviewNextStep, PTL DEF ReviewSpec

(* Rows, jobs and reviews stay within their types.                         *)
THEOREM ReviewTypes == ReviewSpec => []ReviewTypeOK
<1>1. ReviewInv => ReviewTypeOK
  BY DEF ReviewInv
<1> QED
  BY ReviewAlways, <1>1, PTL

(* Whatever workers, reruns, failures and edits do, a reviewed document is *)
(* without a review only on account of a forced run.                       *)
THEOREM ReviewGaps == ReviewSpec => []ReviewGapHasForcedRun
<1>1. ReviewInv => ReviewGapHasForcedRun
  BY DEF ReviewInv
<1> QED
  BY ReviewAlways, <1>1, PTL

\* A deleted document that no handler holds is neither saved nor loaded.
LEMMA ForgottenStep ==
    ReviewTypeOK /\ [ReviewNext]_reviewVars => (Forgotten => Forgotten')
<1> SUFFICES ASSUME ReviewTypeOK, [ReviewNext]_reviewVars, Forgotten PROVE Forgotten'
  OBVIOUS
<1>1. /\ evaluation \in [Evaluations -> JobsOf(Jurisdictions)]
      /\ ~docRow.here /\ ~edit.here /\ \A e \in Evaluations : evaluation[e].st # "saving"
  BY ReviewTyped DEF Forgotten
<1>2. ASSUME NEW e \in Evaluations, NEW st \in ReviewStates \ {"saving"},
             evaluation'[e].st = st, \A d \in Evaluations \ {e} : evaluation'[d] = evaluation[d],
             UNCHANGED <<docRow, edit>>
      PROVE  Forgotten'
  BY <1>1, <1>2 DEF Forgotten
<1>3. ASSUME NEW e \in Evaluations, QueueEvaluation(e) \/ EvaluationStep(e) PROVE Forgotten'
  <2>1. CASE QueueEvaluation(e) \/ SaveDocument(e)
    BY <1>1, <2>1 DEF QueueEvaluation, SaveDocument
  <2>2. CASE Evaluate(e)
    <3>1. /\ evaluation'[e].st = "evaluated"
          /\ \A d \in Evaluations \ {e} : evaluation'[d] = evaluation[d]
      BY <1>1, <2>2 DEF Evaluate, JobsOf
    <3> QED
      BY <1>2, <2>2, <3>1 DEF Evaluate, ReviewStates
  <2>3. CASE LoadDocument(e) \/ EnqueueReview(e)
    <3>1. evaluation' = [evaluation EXCEPT ![e] = NewJob("done")] /\ UNCHANGED <<docRow, edit>>
      BY <1>1, <2>3 DEF LoadDocument, EnqueueReview
    <3>2. NewJob("done").st = "done"
      BY DEF NewJob
    <3> QED
      BY <1>1, <1>2, <3>1, <3>2 DEF ReviewStates
  <2> QED
    BY <1>3, <2>1, <2>2, <2>3 DEF EvaluationStep
<1>4. ASSUME NEW j \in ReviewJobs, Rerun(j) \/ ReviewStep(j) PROVE Forgotten'
  BY <1>1, <1>4 DEF Rerun, ReviewStep, Inspect, LookUp, InsertReview, Forgotten
<1>5. CASE SaveEdit \/ UNCHANGED reviewVars
  BY <1>1, <1>5 DEF SaveEdit, reviewVars, Forgotten
<1>6. CASE ReviewFault
  <2>1. ASSUME NEW e \in Evaluations, evaluation' \in {Throw(evaluation, e), Stalled(evaluation, e)},
               UNCHANGED <<docRow, edit>>
        PROVE  Forgotten'
    <3>1. PICK again, st : evaluation' = [evaluation EXCEPT ![e] =
              [NewJob(IF again THEN "queued" ELSE "failed") EXCEPT !.tries = st.tries,
                                                                   !.stalls = st.stalls]]
      BY <2>1 DEF Throw, Stalled, Again
    <3>2. evaluation'[e].st \in {"queued", "failed"}
      BY <1>1, <3>1 DEF NewJob
    <3> QED
      BY <1>1, <1>2, <2>1, <3>1, <3>2 DEF ReviewStates
  <2>2. CASE UNCHANGED <<docRow, evaluation, edit>> \/ DeleteReviewedDocument \/ StartEdit
    BY <1>1, <2>2 DEF DeleteReviewedDocument, StartEdit, Forgotten
  <2> QED
    BY <1>6, <2>1, <2>2 DEF ReviewFault
<1> QED
  BY <1>3, <1>4, <1>5, <1>6 DEF ReviewNext

(* A deleted document of which no handler holds a copy stays deleted,      *)
(* whatever evaluations and reviews are still queued or running.           *)
THEOREM DeletedDocuments == ReviewSpec => DeletedStaysDeleted
<1>1. ReviewInv /\ [ReviewNext]_reviewVars => [Forgotten => Forgotten']_reviewVars
  BY ForgottenStep DEF ReviewInv
<1> QED
  BY ReviewAlways, <1>1, PTL DEF ReviewSpec, DeletedStaysDeleted

-----------------------------------------------------------------------------
(* What a review reads of its document.                                    *)

(* A passage of one more than the overlap lies whole in a window that was   *)
(* answered; while no window was lost, all those that begin before the      *)
(* window at hand do.                                                       *)
Passage(from) == from .. Min({from + WindowOverlap, Len(reviewText)})
Covered(from) == \E w \in readWindows : Passage(from) \subseteq w

FindingsInv ==
    /\ FindingsTypeOK
    /\ reviewStep = "rules" => windowFrom = 0
    /\ reviewStep = "model" /\ ~degraded => \A from \in 1 .. windowFrom : Covered(from)
    /\ reviewStep \in {"merge", "done"} /\ modelAsked /\ ~degraded =>
           \A from \in DOMAIN reviewText : Covered(from)

\* The lesser of two numbers.
LEMMA Lesser ==
    ASSUME NEW a \in Nat, NEW b \in Nat
    PROVE  Min({a, b}) = IF a <= b THEN a ELSE b
<1>1. Min({a, b}) = CHOOSE x \in {a, b} : \A y \in {a, b} : x <= y
  BY DEF Min
<1>2. \E x \in {a, b} : \A y \in {a, b} : x <= y
  OBVIOUS
<1>3. Min({a, b}) \in {a, b} /\ \A y \in {a, b} : Min({a, b}) <= y
  BY <1>1, <1>2
<1> QED
  BY <1>3

\* No window was read yet.
LEMMA FindingsInitial == FindingsInit => FindingsInv
<1> SUFFICES ASSUME FindingsInit PROVE FindingsInv
  OBVIOUS
<1>1. Len(reviewText) \in Nat
  BY FindingsAssumption DEF FindingsInit
<1>2. FindingsTypeOK
  <2>1. windowFrom \in 0 .. Len(reviewText) /\ attempt \in 1 .. 2
    BY <1>1 DEF FindingsInit
  <2>2. modelAsked \in BOOLEAN /\ degraded \in BOOLEAN
    BY Zenon DEF FindingsInit
  <2> QED
    BY <2>1, <2>2 DEF FindingsInit, FindingsTypeOK
<1> QED
  BY <1>2 DEF FindingsInit, FindingsInv

\* The window at hand, and the passages it adds to those before it.
LEMMA WindowAtHand ==
    ASSUME FindingsTypeOK
    PROVE  /\ Len(reviewText) \in Nat \ {0} /\ DOMAIN reviewText = 1 .. Len(reviewText)
           /\ WindowEnd \in 0 .. Len(reviewText)
           /\ WindowEnd = Len(reviewText) =>
                  \A from \in windowFrom + 1 .. Len(reviewText) :
                      Passage(from) \subseteq windowFrom + 1 .. WindowEnd
           /\ WindowEnd # Len(reviewText) =>
                  /\ NextStart \in 0 .. Len(reviewText)
                  /\ \A from \in windowFrom + 1 .. NextStart :
                         Passage(from) \subseteq windowFrom + 1 .. WindowEnd
<1> DEFINE len == Len(reviewText)
<1>1. len \in Nat \ {0} /\ DOMAIN reviewText = 1 .. len
  BY FindingsAssumption DEF FindingsTypeOK
<1>2. WindowChars \in Nat /\ WindowOverlap \in Nat /\ WindowOverlap < WindowChars
      /\ windowFrom \in 0 .. len
  BY FindingsAssumption DEF FindingsTypeOK
<1>3. WindowEnd = Min({windowFrom + WindowChars, len})
      /\ \A from : Passage(from) = from .. Min({from + WindowOverlap, len})
  BY DEF WindowEnd, Passage
<1> HIDE DEF len
<1>4. /\ windowFrom + WindowChars <= len => WindowEnd = windowFrom + WindowChars
      /\ windowFrom + WindowChars > len => WindowEnd = len
  <2>1. windowFrom + WindowChars \in Nat
    BY <1>1, <1>2
  <2> QED
    BY <1>1, <1>2, <1>3, <2>1, Lesser
<1>5. ASSUME NEW from \in Nat, NEW i \in Passage(from)
      PROVE  i \in Int /\ i >= from /\ i <= from + WindowOverlap /\ i <= len
  <2>1. from + WindowOverlap \in Nat
    BY <1>2
  <2>2. CASE from + WindowOverlap <= len
    <3>1. Passage(from) = from .. from + WindowOverlap
      BY <1>1, <1>3, <2>1, <2>2, Lesser
    <3> QED
      BY <1>1, <1>2, <1>5, <2>2, <3>1
  <2>3. CASE from + WindowOverlap > len
    <3>1. Passage(from) = from .. len
      <4>1. ~(from + WindowOverlap <= len)
        BY <1>1, <2>1, <2>3
      <4>2. Min({from + WindowOverlap, len}) = len
        BY <1>1, <2>1, <4>1, Lesser
      <4> QED
        BY <1>3, <4>2
    <3> QED
      BY <1>1, <1>2, <1>5, <2>3, <3>1
  <2> QED
    BY <1>1, <2>1, <2>2, <2>3
<1>6. WindowEnd \in 0 .. len
  BY <1>1, <1>2, <1>4
<1>7. WindowEnd # len => NextStart \in 0 .. len /\ NextStart + WindowOverlap = WindowEnd
  BY <1>1, <1>2, <1>4 DEF NextStart
<1>8. ASSUME WindowEnd = len, NEW from \in windowFrom + 1 .. len
      PROVE  Passage(from) \subseteq windowFrom + 1 .. WindowEnd
  <2>1. from \in Nat /\ windowFrom + 1 <= from
    BY <1>1, <1>2
  <2> QED
    BY <1>1, <1>2, <1>5, <1>8, <2>1
<1>9. ASSUME WindowEnd # len, NEW from \in windowFrom + 1 .. NextStart
      PROVE  Passage(from) \subseteq windowFrom + 1 .. WindowEnd
  <2>1. from \in Nat /\ windowFrom + 1 <= from /\ from + WindowOverlap <= WindowEnd
    BY <1>1, <1>2, <1>6, <1>7, <1>9
  <2> QED
    BY <1>1, <1>2, <1>5, <1>6, <2>1
<1> QED
  BY <1>1, <1>6, <1>7, <1>8, <1>9 DEF len

\* The windows follow each other without a gap, until one is dropped.
LEMMA FindingsStep == FindingsInv /\ [FindingsNext]_findingsVars => FindingsInv'
<1> SUFFICES ASSUME FindingsInv, [FindingsNext]_findingsVars PROVE FindingsInv'
  OBVIOUS
<1>1. FindingsTypeOK
  BY DEF FindingsInv
<1>2. /\ Len(reviewText) \in Nat \ {0} /\ DOMAIN reviewText = 1 .. Len(reviewText)
      /\ WindowEnd \in 0 .. Len(reviewText)
      /\ windowFrom \in 0 .. Len(reviewText)
  BY <1>1, WindowAtHand DEF FindingsTypeOK
<1>3. CASE RunRules
  BY <1>3 DEF RunRules, FindingsInv, FindingsTypeOK, Covered, Passage
<1>4. CASE DetectorFails
  BY <1>4 DEF DetectorFails, FindingsInv, FindingsTypeOK, Covered, Passage
<1>5. CASE ValidAnswer
  <2>1. /\ readWindows' = readWindows \cup {windowFrom + 1 .. WindowEnd}
        /\ UNCHANGED <<reviewText, textLaw, loadedRules, modelAsked, degraded>>
        /\ attempt' = 1 /\ reviewStep = "model"
    BY <1>5 DEF ValidAnswer, NextWindow
  <2>2. windowFrom + 1 .. WindowEnd \subseteq DOMAIN reviewText
    BY <1>2
  <2>3. \A from : Covered(from) => Covered(from)'
    BY <2>1 DEF Covered, Passage
  <2>4. \A from : Passage(from) \subseteq windowFrom + 1 .. WindowEnd => Covered(from)'
    BY <2>1 DEF Covered, Passage
  <2>5. ~degraded => \A from \in 1 .. windowFrom : Covered(from)
    BY <2>1 DEF FindingsInv
  <2>6. CASE WindowEnd = Len(reviewText)
    <3>1. reviewStep' = "merge" /\ UNCHANGED windowFrom
      BY <1>5, <2>6 DEF ValidAnswer, NextWindow
    <3>2. ~degraded => \A from \in DOMAIN reviewText : Covered(from)'
      <4>1. \A from \in DOMAIN reviewText :
                from \in 1 .. windowFrom \/ from \in windowFrom + 1 .. Len(reviewText)
        BY <1>2
      <4> QED
        BY <1>1, <2>3, <2>4, <2>5, <2>6, <4>1, WindowAtHand
    <3>3. FindingsTypeOK'
      <4>1. windowFrom' \in 0 .. Len(reviewText)' /\ attempt' \in 1 .. 2
        BY <1>2, <2>1, <3>1
      <4>2. \A w \in readWindows' : w \subseteq DOMAIN reviewText'
        BY <1>1, <2>1, <2>2 DEF FindingsTypeOK
      <4> QED
        BY <1>1, <2>1, <3>1, <4>1, <4>2 DEF FindingsTypeOK
    <3> QED
      BY <2>1, <3>1, <3>2, <3>3 DEF FindingsInv
  <2>7. CASE WindowEnd # Len(reviewText)
    <3>1. windowFrom' = NextStart /\ UNCHANGED reviewStep
      BY <1>5, <2>7 DEF ValidAnswer, NextWindow
    <3>2. NextStart \in 0 .. Len(reviewText)
      BY <1>1, <2>7, WindowAtHand
    <3>3. ~degraded => \A from \in 1 .. NextStart : Covered(from)'
      <4>1. \A from \in 1 .. NextStart : from \in 1 .. windowFrom \/ from \in windowFrom + 1 .. NextStart
        BY <1>2, <3>2
      <4> QED
        BY <1>1, <2>3, <2>4, <2>5, <2>7, <4>1, WindowAtHand
    <3>4. FindingsTypeOK'
      <4>1. windowFrom' \in 0 .. Len(reviewText)' /\ attempt' \in 1 .. 2
        BY <2>1, <3>1, <3>2
      <4>2. \A w \in readWindows' : w \subseteq DOMAIN reviewText'
        BY <1>1, <2>1, <2>2 DEF FindingsTypeOK
      <4> QED
        BY <1>1, <2>1, <3>1, <4>1, <4>2 DEF FindingsTypeOK
    <3> QED
      BY <2>1, <3>1, <3>3, <3>4 DEF FindingsInv
  <2> QED
    BY <2>6, <2>7
<1>6. CASE InvalidAnswer
  <2>1. FindingsTypeOK'
    BY <1>1, <1>6 DEF InvalidAnswer, FindingsTypeOK
  <2> QED
    BY <1>6, <2>1 DEF InvalidAnswer, FindingsInv, Covered, Passage
<1>7. CASE WindowDropped
  <2>1. /\ UNCHANGED <<reviewText, textLaw, loadedRules, modelAsked, readWindows>>
        /\ attempt' = 1 /\ reviewStep = "model" /\ degraded'
        /\ reviewStep' \in {"merge", "model"}
    BY <1>7 DEF WindowDropped, NextWindow
  <2>2. windowFrom' \in 0 .. Len(reviewText)
    BY <1>1, <1>2, <1>7, WindowAtHand DEF WindowDropped, NextWindow
  <2> QED
    BY <1>1, <1>7, <2>1, <2>2 DEF FindingsInv, FindingsTypeOK, WindowDropped
<1>8. CASE MergeIssues
  BY <1>8 DEF MergeIssues, FindingsInv, FindingsTypeOK, Covered, Passage
<1>9. CASE UNCHANGED findingsVars
  BY <1>9 DEF findingsVars, FindingsInv, FindingsTypeOK, Covered, Passage
<1> QED
  BY <1>3, <1>4, <1>5, <1>6, <1>7, <1>8, <1>9 DEF FindingsNext

(* A review that says it succeeded has read everything, whatever its text,  *)
(* the size of the windows and their overlap: every passage of one more     *)
(* than the overlap lies whole in a window the model answered about.        *)
THEOREM ReviewsReadAll == FindingsSpec => []SucceededSawAll
<1>1. FindingsInv => SucceededSawAll
  BY DEF FindingsInv, SucceededSawAll, ReviewStatus, Covered, Passage
<1> QED
  BY <1>1, FindingsInitial, FindingsStep, PTL DEF FindingsSpec

(* A review stays within its text: the windows that were read are passages *)
(* of it, and each is asked for at most twice.                             *)
THEOREM FindingsTypes == FindingsSpec => []FindingsTypeOK
<1>1. FindingsInv => FindingsTypeOK
  BY DEF FindingsInv
<1> QED
  BY <1>1, FindingsInitial, FindingsStep, PTL DEF FindingsSpec

-----------------------------------------------------------------------------
(* Numbers, sequences and finite sets.  The least-number principle stands  *)
(* in for induction over the length of a sequence.                         *)

\* A nonempty set of natural numbers has a least one.
LEMMA LeastNumber ==
  ASSUME NEW T \in SUBSET Nat, T # {}
  PROVE  \E i \in T : \A k \in T : ~(k < i)
<1>1. IsWellFoundedOn(OpToRel(<, Nat), Nat)
  BY NatLessThanWellFounded
<1>2. PICK i \in T : \A k \in T : <<k, i>> \notin OpToRel(<, Nat)
  BY <1>1, WFMin
<1>3. \A k \in T : <<k, i>> \notin {ss \in Nat \X Nat : ss[1] < ss[2]}
  BY <1>2 DEF OpToRel
<1> QED
  BY <1>3

\* So a set that goes on from each of its numbers to the next, and has the
\* first, has them all.
LEMMA GoingOn ==
  ASSUME NEW n \in Nat, NEW S \in SUBSET (0 .. n), 0 \in S, \A k \in 1 .. n : k - 1 \in S => k \in S
  PROVE  S = 0 .. n
<1> SUFFICES ASSUME (0 .. n) \ S # {} PROVE FALSE
  OBVIOUS
<1>1. (0 .. n) \ S \in SUBSET Nat
  OBVIOUS
<1>2. PICK i \in (0 .. n) \ S : \A k \in (0 .. n) \ S : ~(k < i)
  BY <1>1, LeastNumber
<1>3. i \in 1 .. n /\ i - 1 \in 0 .. n /\ i - 1 < i
  BY <1>2
<1> QED
  BY <1>2, <1>3

-----------------------------------------------------------------------------
(* Sequences put end to end.                                               *)
Flattened(seqs) ==
    CHOOSE f : f = [i \in 1 .. Len(seqs) |-> IF i = 1 THEN seqs[i] ELSE f[i - 1] \o seqs[i]]

LEMMA FlattenIs ==
  ASSUME NEW seqs
  PROVE  FlattenSeq(seqs) = IF Len(seqs) = 0 THEN seqs ELSE Flattened(seqs)[Len(seqs)]
BY DEF FlattenSeq, Flattened

\* The recursion has a solution.
LEMMA FlattenedSteps ==
  ASSUME NEW T, NEW seqs \in Seq(Seq(T))
  PROVE  /\ \A i \in 1 .. Len(seqs) :
               Flattened(seqs)[i] = IF i = 1 THEN seqs[i] ELSE Flattened(seqs)[i - 1] \o seqs[i]
         /\ \A i \in 1 .. Len(seqs) : Flattened(seqs)[i] \in Seq(T)
<1> DEFINE n == Len(seqs)
           Next1(f, i) == IF i = 1 THEN seqs[i] ELSE f[i - 1] \o seqs[i]
           Good == {k \in 0 .. n : \E f \in [1 .. k -> Seq(T)] : \A i \in 1 .. k : f[i] = Next1(f, i)}
<1>n. n \in Nat /\ \A i \in 1 .. n : seqs[i] \in Seq(T)
  BY ElementOfSeq, LenProperties
<1>1. Good = 0 .. n
  <2>1. 0 \in Good
    <3> DEFINE none == [i \in 1 .. 0 |-> <<>>]
    <3>1. none \in [1 .. 0 -> Seq(T)]
      OBVIOUS
    <3>2. \A i \in 1 .. 0 : none[i] = Next1(none, i)
      BY SMT
    <3>3. 0 \in 0 .. n
      BY ONLY <1>n
    <3> HIDE DEF none, Next1
    <3> QED
      BY <3>1, <3>2, <3>3
  <2>2. ASSUME NEW k \in 1 .. n, k - 1 \in Good PROVE k \in Good
    <3>1. PICK f \in [1 .. k - 1 -> Seq(T)] : \A i \in 1 .. k - 1 : f[i] = Next1(f, i)
      BY <2>2
    <3> DEFINE g == [i \in 1 .. k |-> IF i = k THEN Next1(f, k) ELSE f[i]]
    <3>2. Next1(f, k) \in Seq(T)
      <4>1. CASE k = 1
        BY <4>1, <1>n
      <4>2. CASE k # 1
        <5>1. f[k - 1] \in Seq(T) /\ seqs[k] \in Seq(T)
          BY <4>2, <1>n
        <5> QED
          BY <4>2, <5>1, ConcatProperties
      <4> QED
        BY <4>1, <4>2
    <3>3. \A i \in 1 .. k : (i = k \/ i \in 1 .. k - 1) /\ (i = 1 \/ i - 1 \in 1 .. k - 1)
      BY <1>n
    <3> HIDE DEF Next1
    <3>4. g \in [1 .. k -> Seq(T)]
      BY <3>2, <3>3
    <3>5. \A i \in 1 .. k - 1 : g[i] = f[i]
      BY <1>n
    <3>6. \A i \in 1 .. k : Next1(g, i) = Next1(f, i)
      BY <3>3, <3>5 DEF Next1
    <3>7. \A i \in 1 .. k : g[i] = Next1(g, i)
      BY <3>1, <3>3, <3>6
    <3>8. k \in 0 .. n
      BY <1>n
    <3> QED
      BY <3>4, <3>7, <3>8
  <2>3. Good \in SUBSET (0 .. n)
    OBVIOUS
  <2> HIDE DEF Good
  <2> QED
    BY <1>n, <2>1, <2>2, <2>3, GoingOn
<1>2. PICK f \in [1 .. n -> Seq(T)] : \A i \in 1 .. n : f[i] = Next1(f, i)
  <2>1. n \in 0 .. n
    BY ONLY <1>n
  <2>2. n \in Good
    BY ONLY <1>1, <2>1
  <2> QED
    BY <2>2
<1>3. f = [i \in 1 .. n |-> Next1(f, i)]
  <2> HIDE DEF Next1
  <2> QED
    BY <1>2
<1>4. Flattened(seqs) = [i \in 1 .. n |-> Next1(Flattened(seqs), i)]
  BY <1>3, Zenon DEF Flattened
<1> DEFINE F == Flattened(seqs)
<1> HIDE DEF F
<1>5. \A i \in 1 .. n : F[i] = Next1(F, i)
  BY <1>4 DEF F
<1> DEFINE Typed == {k \in 0 .. n : k = 0 \/ F[k] \in Seq(T)}
<1>6. Typed = 0 .. n
  <2>1. 0 \in Typed /\ Typed \in SUBSET (0 .. n)
    BY <1>n
  <2>2. ASSUME NEW k \in 1 .. n, k - 1 \in Typed PROVE k \in Typed
    <3>1. k \in 0 .. n /\ seqs[k] \in Seq(T) /\ F[k] = Next1(F, k)
      BY <1>n, <1>5
    <3>2. CASE k = 1
      BY <3>1, <3>2
    <3>3. CASE k # 1
      <4>1. F[k - 1] \in Seq(T)
        BY <2>2, <3>3
      <4>2. F[k - 1] \o seqs[k] \in Seq(T)
        BY <4>1, <3>1, ConcatProperties
      <4> QED
        BY <4>2, <3>1, <3>3
    <3> QED
      BY <3>2, <3>3
  <2> HIDE DEF Typed
  <2> QED
    BY <1>n, <2>1, <2>2, GoingOn
<1>7. \A i \in 1 .. n : F[i] \in Seq(T)
  <2> TAKE i \in 1 .. n
  <2>1. i \in 0 .. n /\ i # 0
    BY ONLY <1>n, i \in 1 .. n
  <2>2. i \in Typed
    BY ONLY <1>6, <2>1
  <2> QED
    BY <2>1, <2>2
<1> QED
  BY <1>5, <1>7 DEF F

\* The places in the first m of some sequences.
Spots(seqs, m) == {p \in (1 .. m) \X Nat : p[2] \in 1 .. Len(seqs[p[1]])}

\* A numbering of those places by the places of one sequence.
Numbers(g, S, seqs, flat) ==
    /\ g \in [S -> 1 .. Len(flat)]
    /\ \A p, q \in S : g[p] = g[q] => p = q
    /\ \A d \in 1 .. Len(flat) : \E p \in S : g[p] = d
    /\ \A p \in S : flat[g[p]] = seqs[p[1]][p[2]]

\* One sequence more at the end.
LEMMA OneMore ==
  ASSUME NEW T, NEW seqs \in Seq(Seq(T)), NEW m \in 1 .. Len(seqs), NEW flat \in Seq(T),
         NEW g, Numbers(g, Spots(seqs, m - 1), seqs, flat)
  PROVE  \E h : Numbers(h, Spots(seqs, m), seqs, flat \o seqs[m])
<1> DEFINE S == Spots(seqs, m - 1)
           N == Spots(seqs, m)
           l == Len(flat)
           all == flat \o seqs[m]
           h == [p \in N |-> IF p[1] = m THEN l + p[2] ELSE g[p]]
<1>1. /\ seqs[m] \in Seq(T) /\ Len(seqs[m]) \in Nat /\ l \in Nat /\ m \in Nat /\ m # 0
      /\ Len(all) = l + Len(seqs[m])
      /\ \A i \in 1 .. Len(all) : all[i] = IF i <= l THEN flat[i] ELSE seqs[m][i - l]
  BY ElementOfSeq, LenProperties, ConcatProperties
<1>2. \A p \in N : \/ p[1] = m /\ p[2] \in 1 .. Len(seqs[m]) /\ h[p] = l + p[2] /\ p = <<m, p[2]>>
                   \/ p[1] # m /\ p \in S /\ h[p] = g[p]
  <2> TAKE p \in N
  <2>1. p \in (1 .. m) \X Nat /\ p[2] \in 1 .. Len(seqs[p[1]])
    BY DEF Spots
  <2>2. h[p] = IF p[1] = m THEN l + p[2] ELSE g[p]
    OBVIOUS
  <2>3. p[1] # m => p \in S
    BY <1>1, <2>1 DEF Spots
  <2> HIDE DEF h, S, N, l
  <2> QED
    BY <2>1, <2>2, <2>3
<1>3. /\ \A p \in S : g[p] \in 1 .. l /\ flat[g[p]] = seqs[p[1]][p[2]]
      /\ \A p, q \in S : g[p] = g[q] => p = q
      /\ \A d \in 1 .. l : \E p \in S : g[p] = d
  BY DEF Numbers
<1>4. \A p \in S : p \in N /\ p[1] # m
  BY <1>1 DEF Spots
<1>5. \A i \in 1 .. Len(seqs[m]) : <<m, i>> \in N
  BY <1>1 DEF Spots
<1>6. \A p \in N : h[p] = IF p[1] = m THEN l + p[2] ELSE g[p]
  OBVIOUS
<1>7. DOMAIN h = N /\ h = [p \in N |-> h[p]]
  OBVIOUS
<1> HIDE DEF h, S, N, l, all
<1>8. h \in [N -> 1 .. Len(all)]
  <2>1. \A p \in N : h[p] \in 1 .. Len(all)
    <3> TAKE p \in N
    <3>1. CASE p[1] = m
      <4>1. p[2] \in 1 .. Len(seqs[m]) /\ h[p] = l + p[2]
        BY <1>2, <3>1
      <4> QED
        BY ONLY <4>1, <1>1
    <3>2. CASE p[1] # m
      <4>1. h[p] \in 1 .. l
        BY <1>2, <1>3, <3>2
      <4> QED
        BY ONLY <4>1, <1>1
    <3> QED
      BY <3>1, <3>2
  <2> QED
    BY <1>7, <2>1
<1>9. ASSUME NEW p \in N, NEW q \in N, h[p] = h[q] PROVE p = q
  <2>1. \A o \in N : o[1] = m => o[2] \in 1 .. Len(seqs[m]) /\ h[o] = l + o[2] /\ o = <<m, o[2]>>
    BY <1>2
  <2>2. \A o \in N : o[1] # m => o \in S /\ h[o] = g[o] /\ h[o] \in 1 .. l
    BY <1>2, <1>3
  <2>3. CASE p[1] = m /\ q[1] = m
    <3>1. p[2] = q[2]
      BY <1>1, <1>9, <2>1, <2>3
    <3> QED
      BY <2>1, <2>3, <3>1
  <2>4. CASE p[1] # m /\ q[1] # m
    BY <1>3, <1>9, <2>2, <2>4
  <2>5. CASE p[1] = m /\ q[1] # m
    BY <1>1, <1>9, <2>1, <2>2, <2>5
  <2>6. CASE p[1] # m /\ q[1] = m
    BY <1>1, <1>9, <2>1, <2>2, <2>6
  <2> QED
    BY <2>3, <2>4, <2>5, <2>6
<1>10. ASSUME NEW d \in 1 .. Len(all) PROVE \E p \in N : h[p] = d
  <2>1. CASE d <= l
    <3>0. d \in 1 .. l
      BY <1>1, <2>1
    <3>1. PICK p \in S : g[p] = d
      BY <1>3, <3>0
    <3> QED
      BY <1>4, <1>6, <3>1
  <2>2. CASE ~(d <= l)
    <3>1. d - l \in 1 .. Len(seqs[m]) /\ l + (d - l) = d
      BY <1>1, <2>2
    <3>2. <<m, d - l>> \in N /\ h[<<m, d - l>>] = d
      BY <1>5, <1>6, <3>1
    <3> QED
      BY <3>2
  <2> QED
    BY <2>1, <2>2
<1>11. ASSUME NEW p \in N PROVE all[h[p]] = seqs[p[1]][p[2]]
  <2>1. CASE p[1] = m
    <3>1. p[2] \in 1 .. Len(seqs[m]) /\ h[p] = l + p[2]
      BY <1>2, <2>1
    <3>2. PICK i \in 1 .. Len(seqs[m]) : i = p[2]
      BY <3>1
    <3> HIDE DEF h, all, l
    <3>3. h[p] = l + i /\ l + i \in 1 .. Len(all) /\ ~(l + i <= l) /\ (l + i) - l = i
      <4>1. h[p] = l + i
        BY <3>1, <3>2
      <4>2. i \in Nat /\ 1 <= i /\ i <= Len(seqs[m])
        BY <1>1
      <4> QED
        BY <1>1, <4>1, <4>2
    <3> USE DEF h, all, l
    <3>4. all[l + i] = seqs[m][(l + i) - l]
      BY <1>1, <3>3
    <3> QED
      BY <2>1, <3>2, <3>3, <3>4
  <2>2. CASE p[1] # m
    <3>1. p \in S /\ h[p] = g[p] /\ g[p] \in 1 .. l
      BY <1>2, <1>3, <2>2
    <3>2. PICK i \in 1 .. l : i = g[p]
      BY <3>1
    <3>3. i \in 1 .. Len(all) /\ i <= l
      BY <1>1, <3>2
    <3>4. all[i] = flat[i]
      BY <1>1, <3>3
    <3> QED
      BY <1>3, <3>1, <3>2, <3>4
  <2> QED
    BY <2>1, <2>2
<1>12. Numbers(h, N, seqs, all)
  BY <1>8, <1>9, <1>10, <1>11 DEF Numbers
<1> QED
  BY <1>12 DEF N, all

\* Each element of the sequences has its place in the whole, and there is no
\* other.
LEMMA FlattenPlaces ==
  ASSUME NEW T, NEW seqs \in Seq(Seq(T))
  PROVE  /\ FlattenSeq(seqs) \in Seq(T)
         /\ \E g : Numbers(g, Spots(seqs, Len(seqs)), seqs, FlattenSeq(seqs))
<1> DEFINE n == Len(seqs)
           E(m) == IF m = 0 THEN <<>> ELSE Flattened(seqs)[m]
           Good == {m \in 0 .. n : \E g : Numbers(g, Spots(seqs, m), seqs, E(m))}
<1>n. n \in Nat
  BY LenProperties
<1>1. \A m \in 0 .. n : E(m) \in Seq(T)
  BY <1>n, FlattenedSteps
<1>2. ASSUME NEW m \in 1 .. n PROVE E(m) = E(m - 1) \o seqs[m]
  <2>1. m \in Nat /\ m # 0 /\ seqs[m] \in Seq(T) /\ (m # 1 => m - 1 # 0)
    BY <1>n, ElementOfSeq
  <2>2. Flattened(seqs)[m] = IF m = 1 THEN seqs[m] ELSE Flattened(seqs)[m - 1] \o seqs[m]
    BY FlattenedSteps
  <2>3. <<>> \o seqs[m] = seqs[m]
    BY <2>1, ConcatEmptySeq
  <2>4. E(m) = Flattened(seqs)[m] /\ E(m - 1) = IF m = 1 THEN <<>> ELSE Flattened(seqs)[m - 1]
    BY <2>1
  <2> HIDE DEF E
  <2> QED
    BY <2>2, <2>3, <2>4
<1>3. 0 \in Good
  <2>1. Spots(seqs, 0) = {}
    BY DEF Spots
  <2>2. Len(E(0)) = 0
    OBVIOUS
  <2> DEFINE none == [p \in {} |-> 0]
  <2>3. none \in [{} -> 1 .. 0] /\ 1 .. 0 = {}
    OBVIOUS
  <2>4. Numbers(none, Spots(seqs, 0), seqs, E(0))
    BY <2>1, <2>2, <2>3 DEF Numbers
  <2>5. 0 \in 0 .. n
    BY ONLY <1>n
  <2> HIDE DEF E, none
  <2> QED
    BY <2>4, <2>5
<1> HIDE DEF E
<1>4. ASSUME NEW m \in 1 .. n, m - 1 \in Good PROVE m \in Good
  <2>1. PICK g : Numbers(g, Spots(seqs, m - 1), seqs, E(m - 1))
    BY <1>4
  <2>2. m - 1 \in 0 .. n /\ m \in 0 .. n
    BY <1>n
  <2>3. \E h : Numbers(h, Spots(seqs, m), seqs, E(m - 1) \o seqs[m])
    BY <1>1, <2>1, <2>2, OneMore
  <2> QED
    BY <1>2, <2>2, <2>3
<1>5. Good = 0 .. n
  <2>1. Good \in SUBSET (0 .. n)
    OBVIOUS
  <2> HIDE DEF Good
  <2> QED
    BY <1>n, <1>3, <1>4, <2>1, GoingOn
<1>6. FlattenSeq(seqs) = E(n)
  <2>1. n = 0 => seqs = <<>>
    BY EmptySeq
  <2> QED
    BY <2>1, FlattenIs DEF E
<1>7. n \in 0 .. n
  BY ONLY <1>n
<1>8. n \in Good
  BY ONLY <1>5, <1>7
<1> QED
  BY <1>1, <1>6, <1>7, <1>8

\* What Min returns.
LEMMA LeastOf ==
  ASSUME NEW T \in SUBSET Nat, T # {}
  PROVE  Min(T) \in T /\ \A k \in T : Min(T) <= k
<1>1. PICK i \in T : \A k \in T : ~(k < i)
  BY LeastNumber
<1>2. \A k \in T : i <= k
  BY <1>1
<1> QED
  BY <1>2 DEF Min

\* What stands in one of some sequences stands in the whole.
LEMMA FlattenHas ==
  ASSUME NEW T, NEW seqs \in Seq(Seq(T)), NEW k \in 1 .. Len(seqs), NEW i \in 1 .. Len(seqs[k])
  PROVE  \E d \in 1 .. Len(FlattenSeq(seqs)) : FlattenSeq(seqs)[d] = seqs[k][i]
<1>1. PICK g : Numbers(g, Spots(seqs, Len(seqs)), seqs, FlattenSeq(seqs))
  BY FlattenPlaces
<1>2. seqs[k] \in Seq(T)
  BY ElementOfSeq
<1>3. i \in Nat
  BY <1>2, LenProperties
<1>4. <<k, i>> \in Spots(seqs, Len(seqs))
  BY <1>3 DEF Spots
<1> QED
  BY <1>1, <1>4 DEF Numbers
-----------------------------------------------------------------------------
(* Finite sets in order.                                                   *)
Below(S, before, x) == {y \in S : <<y, x>> \in before}

Orders(S, before) ==
    /\ \A x \in S : <<x, x>> \notin before
    /\ \A x, y \in S : x # y => <<x, y>> \in before \/ <<y, x>> \in before
    /\ \A x, y, z \in S : <<x, y>> \in before /\ <<y, z>> \in before => <<x, z>> \in before

LEMMA FirstNumbers ==
  ASSUME NEW m \in Nat
  PROVE  IsFiniteSet(1 .. m) /\ Cardinality(1 .. m) = m
<1>1. 1 \in Int /\ m \in Int
  OBVIOUS
<1>2. IsFiniteSet(1 .. m) /\ Cardinality(1 .. m) = IF 1 > m THEN 0 ELSE m - 1 + 1
  BY <1>1, FS_Interval
<1> QED
  BY <1>2

\* An element has as many before it as its place says: so places and
\* elements are in one-to-one correspondence.
LEMMA OrderedIs ==
  ASSUME NEW S, IsFiniteSet(S), NEW before, Orders(S, before)
  PROVE  LET order == Ordered(S, before)
             n == Cardinality(S) IN
         /\ n \in Nat /\ order \in [1 .. n -> S]
         /\ \A x \in S : \E k \in 1 .. n : order[k] = x
         /\ \A k, l \in 1 .. n : k < l => <<order[k], order[l]>> \in before
<1> DEFINE n == Cardinality(S)
           rank == [x \in S |-> Cardinality(Below(S, before, x))]
           order == Ordered(S, before)
<1>n. n \in Nat
  BY FS_CardinalityType
<1>1. \A x \in S : IsFiniteSet(Below(S, before, x)) /\ rank[x] \in Nat
  <2> TAKE x \in S
  <2>1. Below(S, before, x) \in SUBSET S
    BY DEF Below
  <2>2. IsFiniteSet(Below(S, before, x))
    BY <2>1, FS_Subset
  <2> QED
    BY <2>2, FS_CardinalityType
<1>2. \A x, y \in S : <<x, y>> \in before => rank[x] < rank[y]
  <2> SUFFICES ASSUME NEW x \in S, NEW y \in S, <<x, y>> \in before PROVE rank[x] < rank[y]
    OBVIOUS
  <2> DEFINE B == Below(S, before, x)
             C == Below(S, before, y)
  <2>1. x \notin B /\ B \cup {x} \in SUBSET C
    BY DEF Orders, Below
  <2>2. IsFiniteSet(B) /\ IsFiniteSet(C) /\ Cardinality(B) \in Nat /\ Cardinality(C) \in Nat
    BY <1>1
  <2> HIDE DEF B, C
  <2>3. Cardinality(B \cup {x}) = Cardinality(B) + 1
    BY <2>1, <2>2, FS_AddElement
  <2>4. Cardinality(B \cup {x}) <= Cardinality(C)
    BY <2>1, <2>2, FS_Subset
  <2>5. Cardinality(B) < Cardinality(C)
    BY <2>2, <2>3, <2>4
  <2>6. rank[x] = Cardinality(B) /\ rank[y] = Cardinality(C)
    BY DEF B, C
  <2> QED
    BY <2>5, <2>6
<1>3. \A x \in S : rank[x] \in 0 .. n - 1
  <2> TAKE x \in S
  <2>1. Below(S, before, x) \in SUBSET (S \ {x})
    BY DEF Orders, Below
  <2>2. IsFiniteSet(S \ {x}) /\ Cardinality(S \ {x}) = n - 1
    BY FS_RemoveElement
  <2>3. Cardinality(Below(S, before, x)) <= n - 1
    BY <2>1, <2>2, FS_Subset
  <2>4. rank[x] <= n - 1
    BY <2>3
  <2> HIDE DEF rank, n
  <2> QED
    BY <1>1, <1>n, <2>4
<1>4. \A x, y \in S : rank[x] = rank[y] => x = y
  <2> SUFFICES ASSUME NEW x \in S, NEW y \in S, rank[x] = rank[y], x # y PROVE FALSE
    OBVIOUS
  <2>1. rank[x] < rank[y] \/ rank[y] < rank[x]
    BY <1>2 DEF Orders
  <2> HIDE DEF rank
  <2> QED
    BY <1>1, <2>1
<1>5. rank \in [S -> 0 .. n - 1]
  BY <1>3
<1>6. IsFiniteSet(0 .. n - 1) /\ Cardinality(0 .. n - 1) = n
  <2>1. 0 \in Int /\ n - 1 \in Int
    BY <1>n
  <2>2. IsFiniteSet(0 .. n - 1) /\ Cardinality(0 .. n - 1) = IF 0 > n - 1 THEN 0 ELSE (n - 1) - 0 + 1
    BY <2>1, FS_Interval
  <2> HIDE DEF n
  <2> QED
    BY <1>n, <2>2
<1> HIDE DEF rank
<1>7. rank \in Injection(S, 0 .. n - 1)
  BY <1>4, <1>5 DEF Injection, IsInjective
<1>8. rank \in Surjection(S, 0 .. n - 1)
  <2> HIDE DEF n
  <2>1. Cardinality(S) = Cardinality(0 .. n - 1)
    BY <1>6 DEF n
  <2> QED
    BY <1>6, <1>7, <2>1, FS_Injection
<1>9. \A r \in 0 .. n - 1 : \E x \in S : rank[x] = r
  BY <1>8 DEF Surjection
<1>10. \A k \in 1 .. n : order[k] = CHOOSE x \in S : rank[x] = k - 1
  BY DEF Ordered, rank, Below
<1> HIDE DEF order
<1>11. \A k \in 1 .. n : order[k] \in S /\ rank[order[k]] = k - 1
  <2> TAKE k \in 1 .. n
  <2>1. k - 1 \in 0 .. n - 1
    BY <1>n
  <2>2. \E x \in S : rank[x] = k - 1
    BY <1>9, <2>1
  <2> QED
    BY <1>10, <2>2
<1>12. order = [k \in 1 .. n |-> order[k]]
  <2> DEFINE f(k) == CHOOSE x \in S : Cardinality({y \in S : <<y, x>> \in before}) = k - 1
  <2>1. order = [k \in 1 .. n |-> f(k)]
    BY Zenon DEF Ordered, order, n
  <2> HIDE DEF f, n
  <2> QED
    BY <2>1
<1>13. order \in [1 .. n -> S]
  BY <1>11, <1>12
<1>14. ASSUME NEW x \in S PROVE \E k \in 1 .. n : order[k] = x
  <2>1. PICK r \in 0 .. n - 1 : rank[x] = r
    BY <1>3
  <2>2. r + 1 \in 1 .. n /\ (r + 1) - 1 = r
    BY <1>n
  <2>3. order[r + 1] \in S /\ rank[order[r + 1]] = r
    BY <1>11, <2>2
  <2> QED
    BY <1>4, <2>1, <2>2, <2>3
<1>15. ASSUME NEW k \in 1 .. n, NEW l \in 1 .. n, k < l PROVE <<order[k], order[l]>> \in before
  <2>1. /\ order[k] \in S /\ order[l] \in S
        /\ rank[order[k]] = k - 1 /\ rank[order[l]] = l - 1
    BY <1>11
  <2>2. k - 1 # l - 1 /\ ~(l - 1 < k - 1)
    BY <1>n, <1>15
  <2>3. order[k] # order[l] /\ <<order[l], order[k]>> \notin before
    BY <1>2, <2>1, <2>2
  <2> QED
    BY <2>1, <2>3 DEF Orders
<1> QED
  BY <1>n, <1>13, <1>14, <1>15 DEF order

\* Places in ascending order.
LEMMA AscendingIs ==
  ASSUME NEW m \in Nat, NEW places \in SUBSET (1 .. m)
  PROVE  LET order == Ascending(places)
             n == Cardinality(places) IN
         /\ n \in Nat /\ order \in [1 .. n -> places]
         /\ \A i \in places : \E k \in 1 .. n : order[k] = i
         /\ \A k, l \in 1 .. n : k < l => order[k] < order[l]
<1> DEFINE before == {p \in places \X places : p[1] < p[2]}
<1>1. IsFiniteSet(places)
  BY FirstNumbers, FS_Subset
<1>2. \A x, y \in places : <<x, y>> \in before <=> x < y
  OBVIOUS
<1> HIDE DEF before
<1>3. \A x \in places : x \in Nat
  OBVIOUS
<1>4. Orders(places, before)
  BY <1>2, <1>3 DEF Orders
<1>5. Ascending(places) = Ordered(places, before)
  BY DEF Ascending, before
<1> DEFINE order == Ordered(places, before)
           n == Cardinality(places)
<1>6. /\ n \in Nat /\ order \in [1 .. n -> places]
      /\ \A x \in places : \E k \in 1 .. n : order[k] = x
      /\ \A k, l \in 1 .. n : k < l => <<order[k], order[l]>> \in before
  BY <1>1, <1>4, OrderedIs
<1> HIDE DEF order, n
<1>7. \A k, l \in 1 .. n : k < l => order[k] < order[l]
  BY <1>2, <1>6
<1> QED
  BY <1>5, <1>6, <1>7 DEF order, n

\* What is selected stands in the order of the sequence it comes from.
Picks(order, s, places) ==
    /\ order \in [1 .. Len(Selected(s, places)) -> places]
    /\ \A i \in places : \E k \in 1 .. Len(Selected(s, places)) : order[k] = i
    /\ \A k, l \in 1 .. Len(Selected(s, places)) : k < l => order[k] < order[l]
    /\ \A k \in 1 .. Len(Selected(s, places)) : Selected(s, places)[k] = s[order[k]]

LEMMA SelectedIs ==
  ASSUME NEW m \in Nat, NEW s, NEW places \in SUBSET (1 .. m)
  PROVE  /\ Len(Selected(s, places)) \in Nat
         /\ Selected(s, places) = [k \in 1 .. Len(Selected(s, places)) |-> Selected(s, places)[k]]
         /\ \E order : Picks(order, s, places)
<1> DEFINE order == Ascending(places)
           n == Cardinality(places)
<1>1. /\ n \in Nat /\ order \in [1 .. n -> places]
      /\ \A i \in places : \E k \in 1 .. n : order[k] = i
      /\ \A k, l \in 1 .. n : k < l => order[k] < order[l]
  BY AscendingIs
<1>2. Selected(s, places) = [k \in DOMAIN order |-> s[order[k]]]
  BY DEF Selected
<1> HIDE DEF order, n
<1>3. Selected(s, places) = [k \in 1 .. n |-> s[order[k]]]
  BY <1>1, <1>2
<1>4. Len(Selected(s, places)) = n
  BY <1>1, <1>3
<1>5. Picks(order, s, places)
  BY <1>1, <1>3, <1>4 DEF Picks
<1> QED
  BY <1>1, <1>3, <1>4, <1>5

-----------------------------------------------------------------------------
(* What the merge does with the issues it is given.                        *)
\* Of some issues one is the worst.
LEMMA WorstOf ==
  ASSUME NEW issues \in Seq(Issues), NEW cluster \in SUBSET DOMAIN issues, cluster # {}
  PROVE  \E i \in cluster : \A j \in cluster : SeverityOf(issues[j]) <= SeverityOf(issues[i])
<1> DEFINE Mildness(i) == 4 - SeverityOf(issues[i])
           T == {Mildness(i) : i \in cluster}
<1>1. \A i \in cluster : SeverityOf(issues[i]) \in 0 .. 4
  <2> TAKE i \in cluster
  <2>1. issues[i] \in Issues
    BY ElementOfSeq, LenProperties
  <2>2. issues[i].severity \in {"info", "low", "medium", "high", "blocker"}
    BY <2>1 DEF Issues, Severity
  <2> QED
    BY <2>2 DEF SeverityOf, Severity
<1>2. T \in SUBSET Nat /\ T # {}
  BY <1>1
<1>3. PICK t \in T : \A k \in T : ~(k < t)
  BY <1>2, LeastNumber
<1>4. PICK i \in cluster : t = Mildness(i)
  BY <1>3
<1>5. ASSUME NEW j \in cluster PROVE SeverityOf(issues[j]) <= SeverityOf(issues[i])
  <2>1. ~(Mildness(j) < Mildness(i))
    BY <1>3, <1>4
  <2> QED
    BY <1>1, <2>1
<1> QED
  BY <1>5

\* A cluster collapses into an issue of its key that is as bad as its worst.
LEMMA CollapseKeeps ==
  ASSUME NEW issues \in Seq(Issues), NEW cluster \in SUBSET DOMAIN issues, cluster # {}
  PROVE  \E w \in cluster :
            /\ SameBucket(Collapse(issues, cluster), issues[w])
            /\ SeverityOf(Collapse(issues, cluster)) = SeverityOf(issues[w])
            /\ \A j \in cluster : SeverityOf(issues[j]) <= SeverityOf(issues[w])
<1> DEFINE Worst == {i \in cluster : \A j \in cluster : SeverityOf(issues[j]) <= SeverityOf(issues[i])}
           WithLaws == {i \in cluster : issues[i].law # "none"}
           w == Min(Worst)
           Amended == [issues[w] EXCEPT !.message = issues[Min(WithLaws)].message,
                                        !.law = issues[Min(WithLaws)].law]
<1>1. Worst \in SUBSET Nat /\ Worst # {}
  BY WorstOf, LenProperties
<1>2. w \in Worst
  BY <1>1, LeastOf
<1>3. issues[w] \in Issues
  BY <1>2, ElementOfSeq, LenProperties
<1>4. Collapse(issues, cluster) = IF WithLaws = {} THEN issues[w] ELSE Amended
  BY DEF Collapse
<1>5. Amended.category = issues[w].category /\ Amended.clause = issues[w].clause /\ Amended.severity = issues[w].severity
  BY <1>3 DEF Issues
<1> HIDE DEF w, Amended, Worst
<1>6. SameBucket(Collapse(issues, cluster), issues[w]) /\ SeverityOf(Collapse(issues, cluster)) = SeverityOf(issues[w])
  BY <1>4, <1>5 DEF SameBucket, SeverityOf
<1> QED
  BY <1>2, <1>6 DEF Worst

\* Each issue and the first of its cluster.
Heads(issues, f, i) ==
    {j \in 1 .. i - 1 : f[j] = j /\ SameBucket(issues[j], issues[i]) /\ Alike(issues[j], issues[i])}
HeadOf(issues, f, i) == IF Heads(issues, f, i) = {} THEN i ELSE Min(Heads(issues, f, i))

LEMMA ClusterIs ==
  ASSUME NEW issues
  PROVE  ClusterOf(issues) = CHOOSE f : f = [i \in DOMAIN issues |-> HeadOf(issues, f, i)]
BY DEF ClusterOf, HeadOf, Heads

\* The recursion has a solution: a head is looked for among those before.
LEMMA ClusterSteps ==
  ASSUME NEW issues \in Seq(Issues)
  PROVE  ClusterOf(issues) = [i \in DOMAIN issues |-> HeadOf(issues, ClusterOf(issues), i)]
<1> DEFINE n == Len(issues)
           Good == {k \in 0 .. n : \E f \in [1 .. k -> Nat] : \A i \in 1 .. k : f[i] = HeadOf(issues, f, i)}
<1>n. n \in Nat /\ DOMAIN issues = 1 .. n
  BY LenProperties
<1>1. \A k \in 1 .. n : k - 1 \in 0 .. n /\ k \in 0 .. n /\ k \in Nat
  BY <1>n
<1>2. 0 \in Good
  <2> DEFINE none == [i \in 1 .. 0 |-> 0]
  <2>1. none \in [1 .. 0 -> Nat] /\ \A i \in 1 .. 0 : none[i] = HeadOf(issues, none, i)
    OBVIOUS
  <2>2. 0 \in 0 .. n
    BY ONLY <1>n
  <2> HIDE DEF none
  <2> QED
    BY <2>1, <2>2
<1>3. ASSUME NEW k \in 1 .. n, k - 1 \in Good PROVE k \in Good
  <2>1. PICK f \in [1 .. k - 1 -> Nat] : \A i \in 1 .. k - 1 : f[i] = HeadOf(issues, f, i)
    BY <1>3
  <2> DEFINE g == [i \in 1 .. k |-> IF i = k THEN HeadOf(issues, f, k) ELSE f[i]]
  <2>2. HeadOf(issues, f, k) \in Nat
    <3>1. Heads(issues, f, k) \in SUBSET Nat
      BY DEF Heads
    <3>2. Heads(issues, f, k) # {} => Min(Heads(issues, f, k)) \in Nat
      BY <3>1, LeastOf
    <3> QED
      BY <1>1, <3>2 DEF HeadOf
  <2>3. \A i \in 1 .. k : i = k \/ i \in 1 .. k - 1
    BY <1>1
  <2>4. \A i \in 1 .. k : 1 .. i - 1 \subseteq 1 .. k - 1 /\ 1 .. k - 1 \subseteq 1 .. k /\ k \notin 1 .. k - 1
    BY <1>1
  <2>5. g \in [1 .. k -> Nat]
    BY <2>2, <2>3
  <2>6. \A j \in 1 .. k - 1 : g[j] = f[j]
    BY <2>4
  <2>7. g[k] = HeadOf(issues, f, k)
    BY <1>1
  <2> HIDE DEF g
  <2>8. \A i \in 1 .. k : Heads(issues, g, i) = Heads(issues, f, i)
    BY <2>4, <2>6 DEF Heads
  <2>9. \A i \in 1 .. k : HeadOf(issues, g, i) = HeadOf(issues, f, i)
    BY <2>8 DEF HeadOf
  <2>10. \A i \in 1 .. k : g[i] = HeadOf(issues, g, i)
    BY <2>1, <2>3, <2>6, <2>7, <2>9
  <2> QED
    BY <1>1, <2>5, <2>10
<1>4. Good = 0 .. n
  <2>1. Good \in SUBSET (0 .. n)
    OBVIOUS
  <2> HIDE DEF Good
  <2> QED
    BY <1>n, <1>2, <1>3, <2>1, GoingOn
<1>5. n \in 0 .. n
  BY ONLY <1>n
<1>6. n \in Good
  BY ONLY <1>4, <1>5
<1>7. PICK f \in [1 .. n -> Nat] : \A i \in 1 .. n : f[i] = HeadOf(issues, f, i)
  BY <1>6
<1>8. f = [i \in DOMAIN issues |-> HeadOf(issues, f, i)]
  BY <1>n, <1>7
<1> QED
  BY <1>8, ClusterIs, Zenon

LEMMA ClusterHeads ==
  ASSUME NEW issues \in Seq(Issues), NEW i \in DOMAIN issues
  PROVE  LET first == ClusterOf(issues) IN
         /\ first[i] \in DOMAIN issues /\ first[first[i]] = first[i]
         /\ SameBucket(issues[first[i]], issues[i])
<1> DEFINE first == ClusterOf(issues)
<1>1. \A j \in DOMAIN issues : first[j] = HeadOf(issues, first, j)
  BY ClusterSteps, Zenon
<1>2. Len(issues) \in Nat /\ DOMAIN issues = 1 .. Len(issues) /\ i \in Nat
  BY LenProperties
<1> HIDE DEF first
<1>3. CASE Heads(issues, first, i) = {}
  <2>1. first[i] = i
    BY <1>1, <1>3 DEF HeadOf
  <2> QED
    BY <2>1 DEF first, SameBucket
<1>4. CASE Heads(issues, first, i) # {}
  <2>1. Heads(issues, first, i) \in SUBSET Nat
    BY DEF Heads
  <2>2. first[i] = Min(Heads(issues, first, i))
    BY <1>1, <1>4 DEF HeadOf
  <2>3. first[i] \in Heads(issues, first, i)
    BY <1>4, <2>1, <2>2, LeastOf
  <2>4. first[i] \in 1 .. i - 1 /\ first[first[i]] = first[i] /\ SameBucket(issues[first[i]], issues[i])
    BY <2>3 DEF Heads
  <2> QED
    BY <1>2, <2>4 DEF first
<1> QED
  BY <1>3, <1>4

\* No issue is lost in the merge: one of its key, no better, is there.
LEMMA MergedKeeps ==
  ASSUME NEW issues \in Seq(Issues), NEW i \in DOMAIN issues
  PROVE  \E h \in DOMAIN Merged(issues) :
            /\ SameBucket(Merged(issues)[h], issues[i])
            /\ SeverityOf(Merged(issues)[h]) >= SeverityOf(issues[i])
<1> DEFINE first == ClusterOf(issues)
           h == first[i]
           Cluster(x) == {j \in DOMAIN issues : first[j] = x}
<1>1. h \in DOMAIN issues /\ first[h] = h /\ SameBucket(issues[h], issues[i])
  BY ClusterHeads
<1>2. h \in DOMAIN Merged(issues) /\ Merged(issues)[h] = Collapse(issues, Cluster(h))
  BY <1>1 DEF Merged
<1>3. i \in Cluster(h) /\ Cluster(h) \in SUBSET DOMAIN issues
  OBVIOUS
<1>4. PICK w \in Cluster(h) :
          /\ SameBucket(Collapse(issues, Cluster(h)), issues[w])
          /\ SeverityOf(Collapse(issues, Cluster(h))) = SeverityOf(issues[w])
          /\ \A j \in Cluster(h) : SeverityOf(issues[j]) <= SeverityOf(issues[w])
  BY <1>3, CollapseKeeps
<1>5. SameBucket(issues[h], issues[w])
  BY <1>4, ClusterHeads
<1>6. SameBucket(Merged(issues)[h], issues[i])
  BY <1>1, <1>2, <1>4, <1>5 DEF SameBucket
<1>7. SeverityOf(Merged(issues)[h]) >= SeverityOf(issues[i])
  BY <1>2, <1>3, <1>4
<1> QED
  BY <1>2, <1>6, <1>7

-----------------------------------------------------------------------------
(* What the rules find.                                                    *)

\* The whole text is one chunk, whose clause is none.
LEMMA NoClause ==
  ASSUME NEW offset
  PROVE  FindClauseRef(Chunks, offset) = "none"
<1>1. Chunks = <<[length |-> Len(reviewText), clause |-> "none"]>>
  BY DEF Chunks
<1>2. DOMAIN Chunks = {1} /\ Chunks[1].clause = "none"
  BY <1>1
<1> DEFINE Holding == {i \in DOMAIN Chunks : offset <
                (CHOOSE next : next = [i_1 \in 0 .. Len(Chunks) |->
                    IF i_1 = 0 THEN 0 ELSE next[i_1 - 1] + Chunks[i_1].length + 2])[i]}
<1>3. FindClauseRef(Chunks, offset) = IF Holding = {} THEN "none" ELSE Chunks[Min(Holding)].clause
  BY DEF FindClauseRef
<1>4. Holding \in SUBSET {1}
  BY <1>2
<1> HIDE DEF Holding
<1>5. Holding # {} => Min(Holding) = 1
  <2>1. Holding \in SUBSET Nat
    BY <1>4
  <2> QED
    BY <1>4, <2>1, LeastOf
<1> QED
  BY <1>2, <1>3, <1>5

RuleAt(f, r) == RuleFiles[f].rules[r]
IssueOf(f, r) == RuleIssue(RuleFiles[f], RuleAt(f, r), "none")

LEMMA RuleIssues ==
  ASSUME NEW f \in DOMAIN RuleFiles, NEW r \in DOMAIN RuleFiles[f].rules
  PROVE  IssueOf(f, r) \in Issues
<1> DEFINE rule == RuleAt(f, r)
<1>1. rule.severity \in DOMAIN Severity /\ rule.message \in STRING /\ rule.law \in STRING
      /\ RuleFiles[f].category \in STRING
  BY IssuesAssumption DEF RuleAt
<1> HIDE DEF rule
<1>2. PICK file : file = RuleFiles[f]
  OBVIOUS
<1>3. "none" \in STRING \cup {"none"}
  OBVIOUS
<1>4. RuleIssue(file, rule, "none") \in Issues
  BY ONLY <1>1, <1>2, <1>3 DEF RuleIssue, Issues
<1> QED
  BY <1>2, <1>4 DEF IssueOf, rule

LEMMA OccurrencesAreFinite ==
  ASSUME reviewText \in ReviewTexts, NEW term
  PROVE  /\ Cardinality(Occurs(term)) \in Nat
         /\ Occurs(term) # {} => Cardinality(Occurs(term)) # 0
<1>1. DOMAIN reviewText = 1 .. Len(reviewText) /\ Len(reviewText) \in Nat
  BY FindingsAssumption
<1>2. IsFiniteSet(1 .. Len(reviewText))
  BY <1>1, FirstNumbers
<1>3. Occurs(term) \in SUBSET (1 .. Len(reviewText))
  BY <1>1 DEF Occurs
<1>4. IsFiniteSet(Occurs(term))
  BY <1>2, <1>3, FS_Subset
<1> QED
  BY <1>4, FS_CardinalityType, FS_EmptySet

\* A rule finds issues, and its own when it fires.
LEMMA HitsOfRule ==
  ASSUME reviewText \in ReviewTexts, NEW f \in DOMAIN RuleFiles, NEW r \in DOMAIN RuleFiles[f].rules
  PROVE  LET hits == RuleHits(RuleFiles[f], RuleAt(f, r)) IN
         /\ hits \in Seq(Issues)
         /\ Fires(RuleAt(f, r)) => \E i \in 1 .. Len(hits) : hits[i] = IssueOf(f, r)
<1> DEFINE file == RuleFiles[f]
           rule == RuleAt(f, r)
           hits == RuleHits(file, rule)
<1>1. IssueOf(f, r) \in Issues
  BY RuleIssues
<1>2. CASE rule.shape = "pattern"
  <2> DEFINE found == Occurs(rule.pattern)
             cap == IF rule.global THEN HitCap + 1 ELSE 1
             kept == Min({Cardinality(found), cap})
  <2>1. cap \in Nat /\ cap # 0
    BY FindingsAssumption
  <2>2. Cardinality(found) \in Nat /\ (found # {} => Cardinality(found) # 0)
    BY OccurrencesAreFinite
  <2> HIDE DEF cap, found
  <2>3. {Cardinality(found), cap} \in SUBSET Nat /\ {Cardinality(found), cap} # {}
    BY <2>1, <2>2
  <2>4. kept \in {Cardinality(found), cap}
    BY <2>3, LeastOf
  <2> HIDE DEF kept
  <2>5. kept \in Nat /\ (found # {} => kept # 0)
    BY <2>1, <2>2, <2>4
  <2>6. hits = PatternHits(file, rule)
    BY <1>2 DEF RuleHits
  <2>7. PatternHits(file, rule) = [i \in 1 .. kept |-> RuleIssue(file, rule, FindClauseRef(Chunks, Nth(found, i) - 1))]
    BY DEF PatternHits, kept, cap, found
  <2>8. \A i \in 1 .. kept : RuleIssue(file, rule, FindClauseRef(Chunks, Nth(found, i) - 1)) = IssueOf(f, r)
    BY NoClause DEF IssueOf
  <2> HIDE DEF hits
  <2>9. hits = [i \in 1 .. kept |-> IssueOf(f, r)]
    BY <2>6, <2>7, <2>8
  <2>10. hits \in Seq(Issues) /\ Len(hits) = kept
    BY <1>1, <2>5, <2>9
  <2>11. Fires(rule) => found # {}
    BY <1>2 DEF Fires, found
  <2>12. kept # 0 => 1 \in 1 .. kept
    BY <2>5
  <2>13. Fires(rule) => 1 \in 1 .. Len(hits) /\ hits[1] = IssueOf(f, r)
    BY <2>5, <2>9, <2>10, <2>11, <2>12
  <2> QED
    BY <2>10, <2>13 DEF hits
<1>3. CASE rule.shape = "statute" /\ StatuteMissing(rule)
  <2>1. hits = <<IssueOf(f, r)>>
    BY <1>3 DEF RuleHits, IssueOf
  <2> HIDE DEF hits
  <2>2. hits \in Seq(Issues) /\ Len(hits) = 1 /\ hits[1] = IssueOf(f, r)
    BY <1>1, <2>1
  <2>3. 1 \in 1 .. Len(hits)
    BY <2>2
  <2> QED
    BY <2>2, <2>3 DEF hits
<1>4. CASE rule.shape # "pattern" /\ ~(rule.shape = "statute" /\ StatuteMissing(rule))
  <2>1. hits = <<>>
    BY <1>4 DEF RuleHits
  <2>2. ~Fires(rule)
    BY <1>4 DEF Fires
  <2>3. <<>> \in Seq(Issues)
    OBVIOUS
  <2> QED
    BY <2>1, <2>2, <2>3
<1> QED
  BY <1>2, <1>3, <1>4

LEMMA HitsOfFile ==
  ASSUME reviewText \in ReviewTexts, NEW f \in DOMAIN RuleFiles
  PROVE  /\ FileHits(RuleFiles[f]) \in Seq(Issues)
         /\ \A r \in DOMAIN RuleFiles[f].rules : Fires(RuleAt(f, r)) =>
               \E d \in 1 .. Len(FileHits(RuleFiles[f])) : FileHits(RuleFiles[f])[d] = IssueOf(f, r)
<1> DEFINE rules == RuleFiles[f].rules
           all == [r \in DOMAIN rules |-> RuleHits(RuleFiles[f], rules[r])]
<1>1. Len(rules) \in Nat /\ DOMAIN rules = 1 .. Len(rules)
  BY IssuesAssumption
<1>2. \A r \in DOMAIN rules : all[r] \in Seq(Issues)
  BY HitsOfRule DEF RuleAt
<1>3. all \in Seq(Seq(Issues)) /\ Len(all) = Len(rules)
  <2>1. all = [r \in 1 .. Len(rules) |-> all[r]]
    BY <1>1
  <2> HIDE DEF all
  <2>2. all \in [1 .. Len(rules) -> Seq(Issues)]
    BY <1>1, <1>2, <2>1
  <2> QED
    BY <1>1, <2>2
<1>4. FileHits(RuleFiles[f]) = FlattenSeq(all)
  BY DEF FileHits
<1>5. ASSUME NEW r \in DOMAIN rules, Fires(RuleAt(f, r))
      PROVE  \E d \in 1 .. Len(FlattenSeq(all)) : FlattenSeq(all)[d] = IssueOf(f, r)
  <2>1. all[r] = RuleHits(RuleFiles[f], RuleAt(f, r))
    BY DEF RuleAt
  <2>2. PICK i \in 1 .. Len(all[r]) : all[r][i] = IssueOf(f, r)
    BY <1>5, <2>1, HitsOfRule
  <2> HIDE DEF all
  <2>3. r \in 1 .. Len(all)
    BY <1>1, <1>3
  <2>4. \E d \in 1 .. Len(FlattenSeq(all)) : FlattenSeq(all)[d] = all[r][i]
    BY <1>3, <2>3, FlattenHas
  <2> QED
    BY <2>2, <2>4
<1> QED
  BY <1>3, <1>4, <1>5, FlattenPlaces

\* The whole of it: each rule of a loaded file that fires is there.
LEMMA DetectFinds ==
  ASSUME reviewText \in ReviewTexts
  PROVE  /\ Detect \in Seq(Issues)
         /\ \A f \in DOMAIN RuleFiles : f \in loadedRules /\ AppliesTo(RuleFiles[f]) =>
               \A r \in DOMAIN RuleFiles[f].rules : Fires(RuleAt(f, r)) =>
                  \E d \in 1 .. Len(Detect) : Detect[d] = IssueOf(f, r)
<1> DEFINE all == [f \in DOMAIN RuleFiles |->
              IF f \in loadedRules /\ AppliesTo(RuleFiles[f]) THEN FileHits(RuleFiles[f]) ELSE <<>>]
<1>1. Len(RuleFiles) \in Nat /\ DOMAIN RuleFiles = 1 .. Len(RuleFiles)
  BY IssuesAssumption
<1>2. \A f \in DOMAIN RuleFiles : all[f] \in Seq(Issues)
  <2>1. <<>> \in Seq(Issues)
    OBVIOUS
  <2> QED
    BY <2>1, HitsOfFile
<1>3. all \in Seq(Seq(Issues)) /\ Len(all) = Len(RuleFiles)
  <2>1. all = [f \in 1 .. Len(RuleFiles) |-> all[f]]
    BY <1>1
  <2> HIDE DEF all
  <2>2. all \in [1 .. Len(RuleFiles) -> Seq(Issues)]
    BY <1>1, <1>2, <2>1
  <2> QED
    BY <1>1, <2>2
<1>4. Detect = FlattenSeq(all)
  BY DEF Detect
<1>5. ASSUME NEW f \in DOMAIN RuleFiles, f \in loadedRules, AppliesTo(RuleFiles[f]),
             NEW r \in DOMAIN RuleFiles[f].rules, Fires(RuleAt(f, r))
      PROVE  \E d \in 1 .. Len(FlattenSeq(all)) : FlattenSeq(all)[d] = IssueOf(f, r)
  <2>1. all[f] = FileHits(RuleFiles[f])
    BY <1>5
  <2>2. PICK i \in 1 .. Len(all[f]) : all[f][i] = IssueOf(f, r)
    BY <1>5, <2>1, HitsOfFile
  <2> HIDE DEF all
  <2>3. f \in 1 .. Len(all)
    BY <1>1, <1>3
  <2>4. \E d \in 1 .. Len(FlattenSeq(all)) : FlattenSeq(all)[d] = all[f][i]
    BY <1>3, <2>3, FlattenHas
  <2> QED
    BY <2>2, <2>4
<1> QED
  BY <1>3, <1>4, <1>5, FlattenPlaces

-----------------------------------------------------------------------------
(* The review.                                                             *)

\* What the two detectors found is kept until it is merged.
Gathered ==
    /\ reviewText \in ReviewTexts /\ loadedRules \subseteq DOMAIN RuleFiles
    /\ llmIssues \in Seq(Issues)
    /\ reviewStep # "rules" => ruleIssues = Detect
    /\ reviewStep = "done" => findings = Merged(ruleIssues \o llmIssues)

LEMMA GatheredInit == FindingsInit => Gathered
BY DEF FindingsInit, Gathered

LEMMA DetectStays ==
  ASSUME UNCHANGED <<reviewText, textLaw, loadedRules>>
  PROVE  Detect' = Detect
<1>1. \A term : Occurs(term)' = Occurs(term)
  BY DEF Occurs
<1>2. \A rule : StatuteMissing(rule)' = StatuteMissing(rule)
  BY <1>1 DEF StatuteMissing
<1>3. Chunks' = Chunks
  BY DEF Chunks
<1>4. \A file, rule : PatternHits(file, rule)' = PatternHits(file, rule)
  BY <1>1, <1>3 DEF PatternHits
<1>5. \A file, rule : RuleHits(file, rule)' = RuleHits(file, rule)
  BY <1>2, <1>4 DEF RuleHits
<1>6. \A file : FileHits(file)' = FileHits(file)
  BY <1>5 DEF FileHits
<1>7. \A file : AppliesTo(file)' = AppliesTo(file)
  BY DEF AppliesTo
<1> QED
  BY <1>6, <1>7 DEF Detect

LEMMA GatheredStep == Gathered /\ [FindingsNext]_findingsVars => Gathered'
<1> SUFFICES ASSUME Gathered, [FindingsNext]_findingsVars PROVE Gathered'
  OBVIOUS
<1>1. UNCHANGED <<reviewText, textLaw, loadedRules>>
  BY DEF FindingsNext, RunRules, DetectorFails, ValidAnswer, InvalidAnswer, WindowDropped, NextWindow,
         MergeIssues, findingsVars
<1>2. Detect' = Detect
  BY <1>1, DetectStays
<1>3. CASE RunRules
  BY <1>1, <1>2, <1>3 DEF RunRules, Gathered
<1>4. CASE DetectorFails
  BY <1>1, <1>2, <1>4 DEF DetectorFails, Gathered
<1>5. CASE ValidAnswer
  <2>1. PICK answer \in LlmAnswers : llmIssues' = llmIssues \o answer
    BY <1>5 DEF ValidAnswer
  <2>2. answer \in Seq(Issues)
    BY IssuesAssumption
  <2>3. llmIssues' \in Seq(Issues)
    BY <2>1, <2>2, ConcatProperties DEF Gathered
  <2>4. reviewStep = "model" /\ reviewStep' \in {"model", "merge"} /\ UNCHANGED <<ruleIssues, findings>>
    BY <1>5 DEF ValidAnswer, NextWindow
  <2> QED
    BY <1>1, <1>2, <2>3, <2>4 DEF Gathered
<1>6. CASE InvalidAnswer
  BY <1>1, <1>2, <1>6 DEF InvalidAnswer, Gathered
<1>7. CASE WindowDropped
  <2>1. reviewStep = "model" /\ reviewStep' \in {"model", "merge"} /\ UNCHANGED <<ruleIssues, llmIssues, findings>>
    BY <1>7 DEF WindowDropped, NextWindow
  <2> QED
    BY <1>1, <1>2, <2>1 DEF Gathered
<1>8. CASE MergeIssues
  BY <1>1, <1>2, <1>8 DEF MergeIssues, Gathered
<1>9. CASE UNCHANGED findingsVars
  BY <1>1, <1>2, <1>9 DEF findingsVars, Gathered
<1> QED
  BY <1>3, <1>4, <1>5, <1>6, <1>7, <1>8, <1>9 DEF FindingsNext

LEMMA GatheredAreReported == Gathered => FindingsAreReported
<1> SUFFICES ASSUME Gathered, reviewStep = "done" PROVE FindingsAreReported
  BY DEF FindingsAreReported
<1> DEFINE issues == ruleIssues \o llmIssues
<1>1. ruleIssues = Detect /\ findings = Merged(issues) /\ reviewText \in ReviewTexts
      /\ llmIssues \in Seq(Issues) /\ loadedRules \subseteq DOMAIN RuleFiles
  BY DEF Gathered
<1>2. ruleIssues \in Seq(Issues)
  BY <1>1, DetectFinds
<1>3. /\ issues \in Seq(Issues) /\ Len(issues) = Len(ruleIssues) + Len(llmIssues)
      /\ \A i \in 1 .. Len(ruleIssues) + Len(llmIssues) :
             issues[i] = IF i <= Len(ruleIssues) THEN ruleIssues[i] ELSE llmIssues[i - Len(ruleIssues)]
      /\ Len(ruleIssues) \in Nat /\ Len(llmIssues) \in Nat /\ DOMAIN issues = 1 .. Len(issues)
      /\ DOMAIN llmIssues = 1 .. Len(llmIssues)
  BY <1>1, <1>2, ConcatProperties, LenProperties
<1> HIDE DEF issues
<1>4. ASSUME NEW i \in DOMAIN issues PROVE Kept(issues[i])
  BY <1>1, <1>3, MergedKeeps DEF Kept
<1>5. ASSUME NEW f \in loadedRules, AppliesTo(RuleFiles[f]), NEW r \in DOMAIN RuleFiles[f].rules, Fires(RuleAt(f, r))
      PROVE  Kept(IssueOf(f, r))
  <2>1. PICK d \in 1 .. Len(ruleIssues) : ruleIssues[d] = IssueOf(f, r)
    BY <1>1, <1>5, DetectFinds
  <2>2. d \in DOMAIN issues /\ issues[d] = ruleIssues[d]
    BY <1>3
  <2> QED
    BY <1>4, <2>1, <2>2
<1>6. ASSUME NEW i \in DOMAIN llmIssues PROVE Kept(llmIssues[i])
  <2>1. PICK d \in Nat : d = Len(ruleIssues) + i
    BY <1>3
  <2>2. d \in 1 .. Len(ruleIssues) + Len(llmIssues) /\ ~(d <= Len(ruleIssues)) /\ d - Len(ruleIssues) = i
    BY <1>3, <2>1
  <2>3. d \in DOMAIN issues /\ issues[d] = llmIssues[i]
    BY <1>3, <2>2
  <2> QED
    BY <1>4, <2>3
<1> QED
  BY <1>5, <1>6 DEF FindingsAreReported, RuleAt, IssueOf

(* Whatever rules and texts there are and whatever the model answers, each *)
(* rule that fires and each issue of a valid answer is in the review, by   *)
(* category, clause and at least its own severity: merge.service.ts        *)
(* collapses issues but never drops the worst of a cluster.                *)
THEOREM IssuesReported == FindingsSpec => []FindingsAreReported
<1>1. Gathered /\ [FindingsNext]_findingsVars => Gathered'
  BY GatheredStep
<1> QED
  BY <1>1, GatheredInit, GatheredAreReported, PTL DEF FindingsSpec

-----------------------------------------------------------------------------
(* The evidence.                                                           *)
Laws == {LawAt(p, phrase) : p \in Patterns, phrase \in UNION {{text[i] : i \in DOMAIN text} : text \in FileTexts}}
Evidences == [law : Laws \ {NoLaw}, status : {"explicit", "inferred"}, confidence : {40, 50, 60, 90}]

\* A pattern finds all it captures that names a law.
LEMMA EvidenceIs ==
  ASSUME NEW p \in Patterns, NEW text \in FileTexts
  PROVE  /\ EvidenceOf(p, text) \in Seq(Evidences)
         /\ \A i \in DOMAIN text : Capturing(p, text[i]) /\ LawAt(p, text[i]) # NoLaw =>
               \E d \in 1 .. Len(EvidenceOf(p, text)) :
                  /\ EvidenceOf(p, text)[d].law = LawAt(p, text[i])
                  /\ EvidenceOf(p, text)[d].status = Status(p)
<1> DEFINE places == {i \in DOMAIN text : Capturing(p, text[i]) /\ LawAt(p, text[i]) # NoLaw}
           found == Selected(text, places)
           own == EvidenceOf(p, text)
           Evidence(phrase) == [law |-> LawAt(p, phrase), status |-> Status(p), confidence |-> Confidence(p)]
<1>1. Len(text) \in Nat /\ places \in SUBSET (1 .. Len(text)) /\ DOMAIN text = 1 .. Len(text)
  BY LawAssumption
<1>2. own = [i \in DOMAIN found |-> Evidence(found[i])]
  BY DEF EvidenceOf
<1> HIDE DEF own, found
<1>3. /\ Len(found) \in Nat /\ found = [k \in 1 .. Len(found) |-> found[k]]
      /\ \E order : Picks(order, text, places)
  BY <1>1, SelectedIs DEF found
<1>4. PICK order : Picks(order, text, places)
  BY <1>3
<1>5. /\ order \in [1 .. Len(found) -> places]
      /\ \A i \in places : \E k \in 1 .. Len(found) : order[k] = i
      /\ \A k \in 1 .. Len(found) : found[k] = text[order[k]]
  BY <1>4 DEF Picks, found
<1>6. \A k \in 1 .. Len(found) : order[k] \in places /\ own[k] = Evidence(text[order[k]])
  BY <1>2, <1>3, <1>5
<1>7. ASSUME NEW i \in places PROVE Evidence(text[i]) \in Evidences
  <2>1. LawAt(p, text[i]) \in Laws \ {NoLaw}
    BY <1>7 DEF Laws
  <2>2. Status(p) \in {"explicit", "inferred"} /\ Confidence(p) \in {40, 50, 60, 90}
    BY DEF Status, Confidence
  <2> QED
    BY ONLY <2>1, <2>2 DEF Evidences
<1>8. own = [k \in 1 .. Len(found) |-> own[k]] /\ \A k \in 1 .. Len(found) : own[k] \in Evidences
  <2>1. DOMAIN found = 1 .. Len(found)
    BY <1>3
  <2> HIDE DEF Evidence, places
  <2>2. own = [k \in 1 .. Len(found) |-> Evidence(found[k])]
    BY <1>2, <2>1
  <2> QED
    BY <1>6, <1>7, <2>2
<1>9. own \in Seq(Evidences) /\ Len(own) = Len(found)
  BY <1>3, <1>8
<1>10. ASSUME NEW i \in DOMAIN text, Capturing(p, text[i]) /\ LawAt(p, text[i]) # NoLaw
       PROVE  \E d \in 1 .. Len(own) : own[d].law = LawAt(p, text[i]) /\ own[d].status = Status(p)
  <2>1. PICK d \in 1 .. Len(found) : order[d] = i
    BY <1>5, <1>10
  <2>2. own[d] = Evidence(text[i])
    BY <1>6, <2>1
  <2> QED
    BY <1>9, <2>2
<1> QED
  BY <1>9, <1>10 DEF own

LEMMA AllPatterns ==
  ASSUME NEW text \in FileTexts
  PROVE  /\ ExtractAllEvidence(text) \in Seq(Evidences)
         /\ \A p \in Patterns, i \in DOMAIN text : Capturing(p, text[i]) /\ LawAt(p, text[i]) # NoLaw =>
               \E d \in 1 .. Len(ExtractAllEvidence(text)) :
                  /\ ExtractAllEvidence(text)[d].law = LawAt(p, text[i])
                  /\ ExtractAllEvidence(text)[d].status = Status(p)
<1> DEFINE seqs == [p \in Patterns |-> EvidenceOf(p, text)]
<1>1. ExtractAllEvidence(text) = FlattenSeq(seqs)
  BY DEF ExtractAllEvidence
<1>2. \A p \in Patterns : seqs[p] = EvidenceOf(p, text)
  OBVIOUS
<1>3. seqs = [p \in 1 .. 29 |-> seqs[p]]
  BY DEF Patterns
<1> HIDE DEF seqs
<1>4. seqs \in Seq(Seq(Evidences)) /\ Len(seqs) = 29
  <2>1. \A p \in 1 .. 29 : seqs[p] \in Seq(Evidences)
    BY <1>2, EvidenceIs DEF Patterns
  <2> QED
    BY <1>3, <2>1
<1>5. ASSUME NEW p \in Patterns, NEW i \in DOMAIN text, Capturing(p, text[i]) /\ LawAt(p, text[i]) # NoLaw
      PROVE  \E d \in 1 .. Len(FlattenSeq(seqs)) :
                FlattenSeq(seqs)[d].law = LawAt(p, text[i]) /\ FlattenSeq(seqs)[d].status = Status(p)
  <2>1. p \in 1 .. Len(seqs) /\ seqs[p] = EvidenceOf(p, text)
    BY <1>2, <1>4 DEF Patterns
  <2>2. PICK c \in 1 .. Len(seqs[p]) : seqs[p][c].law = LawAt(p, text[i]) /\ seqs[p][c].status = Status(p)
    BY <1>5, <2>1, EvidenceIs
  <2>3. seqs \in Seq(Seq(Evidences)) /\ p \in 1 .. Len(seqs)
    BY <1>4, <2>1
  <2>4. PICK d \in 1 .. Len(FlattenSeq(seqs)) : FlattenSeq(seqs)[d] = seqs[p][c]
    BY <2>3, FlattenHas
  <2> QED
    BY <2>2, <2>4
<1> QED
  BY <1>1, <1>4, <1>5, FlattenPlaces

\* An explicit law of a text is explicit evidence.
LEMMA ExplicitIsEvidence ==
  ASSUME NEW text \in FileTexts, ResolveJurisdiction(text).status = "explicit"
  PROVE  \E d \in 1 .. Len(ExtractAllEvidence(text)) :
            /\ ExtractAllEvidence(text)[d].law = ResolveJurisdiction(text).law
            /\ ExtractAllEvidence(text)[d].status = "explicit"
<1>1. ResolveInferred(text).status # "explicit"
  BY DEF ResolveInferred, Unresolved
<1>2. ResolveExplicit(text) # NoLaw /\ ResolveJurisdiction(text).law = ResolveExplicit(text)
  BY <1>1 DEF ResolveJurisdiction
<1> DEFINE caught(p) == {i \in DOMAIN text : Capturing(p, text[i])}
           firstOf(p) == text[Min(caught(p))]
           naming == {p \in ExplicitPatterns :
                         (\E i \in DOMAIN text : Capturing(p, text[i])) /\ LawAt(p, firstOf(p)) # NoLaw}
<1>3. ResolveExplicit(text) = IF naming = {} THEN NoLaw ELSE LawAt(Min(naming), firstOf(Min(naming)))
  BY DEF ResolveExplicit
<1>4. naming # {} /\ ResolveExplicit(text) = LawAt(Min(naming), firstOf(Min(naming)))
  BY <1>2, <1>3
<1>5. naming \in SUBSET Nat
  BY DEF ExplicitPatterns
<1>6. Min(naming) \in naming
  BY <1>4, <1>5, LeastOf
<1> DEFINE p == Min(naming)
           i == Min(caught(p))
<1>7. p \in ExplicitPatterns /\ (\E j \in DOMAIN text : Capturing(p, text[j])) /\ LawAt(p, firstOf(p)) # NoLaw
  BY <1>6
<1> HIDE DEF naming
<1>8. caught(p) \in SUBSET Nat /\ caught(p) # {}
  BY <1>7, LawAssumption
<1>9. i \in caught(p)
  BY <1>8, LeastOf
<1>10. i \in DOMAIN text /\ Capturing(p, text[i]) /\ firstOf(p) = text[i]
  BY <1>9
<1>11. p \in Patterns /\ Status(p) = "explicit"
  BY <1>7 DEF ExplicitPatterns, Patterns, Status
<1> HIDE DEF i, p
<1>12. PICK d \in 1 .. Len(ExtractAllEvidence(text)) :
           ExtractAllEvidence(text)[d].law = LawAt(p, text[i]) /\ ExtractAllEvidence(text)[d].status = Status(p)
  BY <1>7, <1>10, <1>11, AllPatterns
<1>13. ResolveExplicit(text) = LawAt(p, text[i])
  BY <1>4, <1>10 DEF p
<1> QED
  BY <1>2, <1>11, <1>12, <1>13

\* All files.
LawFiles == UNION {[1 .. n -> FileTexts] : n \in 0 .. MaxLawFiles}

LEMMA AllFiles ==
  ASSUME NEW files \in LawFiles
  PROVE  LET seqs == [f \in DOMAIN files |-> ExtractAllEvidence(files[f])] IN
         /\ Len(files) \in Nat /\ files \in [1 .. Len(files) -> FileTexts]
         /\ seqs \in Seq(Seq(Evidences)) /\ Len(seqs) = Len(files)
         /\ AllEvidence(files) = FlattenSeq(seqs)
         /\ AllEvidence(files) \in Seq(Evidences)
<1> DEFINE seqs == [f \in DOMAIN files |-> ExtractAllEvidence(files[f])]
<1>1. PICK n \in 0 .. MaxLawFiles : files \in [1 .. n -> FileTexts]
  BY DEF LawFiles
<1>2. n \in Nat
  BY LawAssumption
<1>3. Len(files) = n /\ DOMAIN files = 1 .. n
  BY <1>1, <1>2
<1>4. AllEvidence(files) = FlattenSeq(seqs)
  BY DEF AllEvidence
<1>5. \A f \in 1 .. n : seqs[f] \in Seq(Evidences)
  BY <1>1, <1>3, AllPatterns
<1>6. seqs = [f \in 1 .. n |-> seqs[f]]
  BY <1>3
<1> HIDE DEF seqs
<1>7. seqs \in Seq(Seq(Evidences)) /\ Len(seqs) = n
  BY <1>2, <1>5, <1>6
<1> QED
  BY <1>1, <1>2, <1>3, <1>4, <1>7, FlattenPlaces DEF seqs

LEMMA ExplicitEverywhere ==
  ASSUME NEW files \in LawFiles, NEW f \in DOMAIN files, ResolveJurisdiction(files[f]).status = "explicit"
  PROVE  \E d \in 1 .. Len(AllEvidence(files)) :
            /\ AllEvidence(files)[d].law = ResolveJurisdiction(files[f]).law
            /\ AllEvidence(files)[d].status = "explicit"
<1> DEFINE seqs == [g \in DOMAIN files |-> ExtractAllEvidence(files[g])]
<1>1. /\ Len(files) \in Nat /\ files \in [1 .. Len(files) -> FileTexts]
      /\ seqs \in Seq(Seq(Evidences)) /\ Len(seqs) = Len(files)
      /\ AllEvidence(files) = FlattenSeq(seqs)
  BY AllFiles
<1>2. f \in 1 .. Len(files) /\ files[f] \in FileTexts /\ seqs[f] = ExtractAllEvidence(files[f])
  BY <1>1
<1> HIDE DEF seqs
<1>3. PICK c \in 1 .. Len(seqs[f]) :
          seqs[f][c].law = ResolveJurisdiction(files[f]).law /\ seqs[f][c].status = "explicit"
  BY <1>2, ExplicitIsEvidence
<1>4. f \in 1 .. Len(seqs)
  BY <1>1, <1>2
<1>5. PICK d \in 1 .. Len(FlattenSeq(seqs)) : FlattenSeq(seqs)[d] = seqs[f][c]
  BY <1>1, <1>4, FlattenHas
<1> QED
  BY <1>1, <1>3, <1>5

-----------------------------------------------------------------------------
(* The candidates.                                                         *)
Naming(all, law) == {j \in DOMAIN all : all[j].law = law}
IsExplicit(all, law) == \E j \in Naming(all, law) : all[j].status = "explicit"

\* The candidates are the laws in evidence, each once, with how often it is.
Summary(all, some) ==
    /\ Len(some) \in Nat /\ some = [k \in 1 .. Len(some) |-> some[k]]
    /\ \A i \in 1 .. Len(all) : \E k \in 1 .. Len(some) : some[k].law = all[i].law
    /\ \A k \in 1 .. Len(some) :
          /\ \E i \in 1 .. Len(all) : some[k].law = all[i].law
          /\ some[k].law # NoLaw
          /\ some[k].evidenceCount = Cardinality(Naming(all, some[k].law))
          /\ some[k].evidenceCount \in 0 .. Len(all)
          /\ some[k].confidence \in {40, 50, 60, 90}
          /\ some[k].status \in {"explicit", "inferred"}
          /\ (some[k].status = "explicit") <=> IsExplicit(all, some[k].law)
          /\ some[k].status = "explicit" => some[k].confidence = 90
    /\ \A k, l \in 1 .. Len(some) : some[k].law = some[l].law => k = l

LEMMA CandidatesAre ==
  ASSUME NEW files, AllEvidence(files) \in Seq(Evidences)
  PROVE  Summary(AllEvidence(files), CandidatesOf(files))
<1> DEFINE all == AllEvidence(files)
           of(i) == {j \in DOMAIN all : all[j].law = all[i].law}
           firsts == {i \in DOMAIN all : i = Min(of(i))}
           explicit(i) == \E j \in of(i) : all[j].status = "explicit"
           candidate(i) == [law |-> all[i].law,
                            status |-> IF explicit(i) THEN "explicit" ELSE "inferred",
                            confidence |-> IF explicit(i) THEN 90 ELSE all[i].confidence,
                            evidenceCount |-> Cardinality(of(i))]
           order == Ascending(firsts)
           n == Cardinality(firsts)
           some == CandidatesOf(files)
<1>1. some = [k \in DOMAIN order |-> candidate(order[k])]
  BY DEF CandidatesOf
<1>2. /\ Len(all) \in Nat /\ DOMAIN all = 1 .. Len(all)
      /\ \A i \in 1 .. Len(all) : all[i] \in Evidences
  BY ElementOfSeq, LenProperties
<1> HIDE DEF some, all
<1>3. ASSUME NEW i \in 1 .. Len(all)
      PROVE  Min(of(i)) \in of(i) /\ of(i) = Naming(all, all[i].law) /\ Cardinality(of(i)) \in 0 .. Len(all)
  <2>1. of(i) \in SUBSET Nat /\ of(i) # {} /\ of(i) \in SUBSET (1 .. Len(all))
    BY <1>2
  <2>2. of(i) = Naming(all, all[i].law)
    BY DEF Naming
  <2> HIDE DEF of
  <2>3. Min(of(i)) \in of(i)
    BY <2>1, LeastOf
  <2>4. IsFiniteSet(1 .. Len(all)) /\ Cardinality(1 .. Len(all)) = Len(all)
    BY <1>2, FirstNumbers
  <2>5. Cardinality(of(i)) \in Nat /\ Cardinality(of(i)) <= Len(all)
    BY <2>1, <2>4, FS_Subset, FS_CardinalityType
  <2> QED
    BY <1>2, <2>2, <2>3, <2>5
<1>4. \A i \in firsts : i \in 1 .. Len(all) /\ i = Min(of(i))
  BY <1>2
<1>5. ASSUME NEW i \in 1 .. Len(all) PROVE \E j \in firsts : all[j].law = all[i].law
  <2> DEFINE j == Min(of(i))
  <2>1. j \in of(i)
    BY <1>3
  <2>2. j \in 1 .. Len(all) /\ all[j].law = all[i].law
    BY <1>2, <2>1
  <2> HIDE DEF j
  <2>3. of(j) = of(i)
    BY <2>2
  <2> HIDE DEF of
  <2>4. Min(of(j)) = j
    BY <2>3 DEF j
  <2> QED
    BY <1>2, <2>2, <2>4
<1>6. ASSUME NEW i \in firsts, NEW j \in firsts, all[i].law = all[j].law PROVE i = j
  <2>1. of(i) = of(j)
    BY <1>6
  <2> HIDE DEF of
  <2> QED
    BY <1>4, <2>1
<1>7. ASSUME NEW i \in 1 .. Len(all)
      PROVE  LET c == candidate(i) IN
             /\ c.law = all[i].law /\ c.law # NoLaw
             /\ c.evidenceCount = Cardinality(Naming(all, all[i].law))
             /\ c.evidenceCount \in 0 .. Len(all)
             /\ c.confidence \in {40, 50, 60, 90}
             /\ c.status \in {"explicit", "inferred"}
             /\ (c.status = "explicit") <=> IsExplicit(all, all[i].law)
             /\ c.status = "explicit" => c.confidence = 90
  <2>1. all[i].law # NoLaw /\ all[i].confidence \in {40, 50, 60, 90}
    BY <1>2 DEF Evidences
  <2>2. explicit(i) <=> IsExplicit(all, all[i].law)
    BY <1>3 DEF IsExplicit
  <2> HIDE DEF explicit
  <2>3. /\ candidate(i).law = all[i].law /\ candidate(i).evidenceCount = Cardinality(of(i))
        /\ candidate(i).status = IF explicit(i) THEN "explicit" ELSE "inferred"
        /\ candidate(i).confidence = IF explicit(i) THEN 90 ELSE all[i].confidence
    OBVIOUS
  <2> HIDE DEF candidate, of
  <2> QED
    BY <1>3, <2>1, <2>2, <2>3
<1>8. firsts \in SUBSET (1 .. Len(all))
  BY <1>4
<1> HIDE DEF firsts, candidate
<1>9. /\ n \in Nat /\ order \in [1 .. n -> firsts]
      /\ \A i \in firsts : \E k \in 1 .. n : order[k] = i
      /\ \A k, l \in 1 .. n : k < l => order[k] < order[l]
  BY <1>2, <1>8, AscendingIs
<1> HIDE DEF order, n
<1>10. some = [k \in 1 .. n |-> candidate(order[k])]
  BY <1>1, <1>9
<1>11. Len(some) = n /\ some = [k \in 1 .. n |-> some[k]] /\ \A k \in 1 .. n : some[k] = candidate(order[k])
  BY <1>9, <1>10
<1>12. \A k \in 1 .. n : order[k] \in firsts /\ order[k] \in 1 .. Len(all)
  BY <1>4, <1>9
<1>13. \A k \in 1 .. n : some[k].law = all[order[k]].law
  BY <1>7, <1>11, <1>12
<1>14. \A i \in 1 .. Len(all) : \E k \in 1 .. n : some[k].law = all[i].law
  <2> TAKE i \in 1 .. Len(all)
  <2>1. PICK j \in firsts : all[j].law = all[i].law
    BY <1>5
  <2>2. PICK k \in 1 .. n : order[k] = j
    BY <1>9
  <2> QED
    BY <1>13, <2>1, <2>2
<1>15. \A k, l \in 1 .. n : some[k].law = some[l].law => k = l
  <2> SUFFICES ASSUME NEW k \in 1 .. n, NEW l \in 1 .. n, some[k].law = some[l].law PROVE k = l
    OBVIOUS
  <2>1. order[k] = order[l]
    BY <1>6, <1>12, <1>13
  <2>2. order[k] \in Nat
    BY <1>12
  <2>3. ~(k < l) /\ ~(l < k)
    BY <1>9, <2>1, <2>2
  <2> QED
    BY <1>9, <2>3
<1>16. ASSUME NEW k \in 1 .. n
       PROVE  /\ \E i \in 1 .. Len(all) : some[k].law = all[i].law
              /\ some[k].law # NoLaw
              /\ some[k].evidenceCount = Cardinality(Naming(all, some[k].law))
              /\ some[k].evidenceCount \in 0 .. Len(all)
              /\ some[k].confidence \in {40, 50, 60, 90}
              /\ some[k].status \in {"explicit", "inferred"}
              /\ (some[k].status = "explicit") <=> IsExplicit(all, some[k].law)
              /\ some[k].status = "explicit" => some[k].confidence = 90
  <2> DEFINE i == order[k]
  <2>1. i \in 1 .. Len(all) /\ some[k] = candidate(i)
    BY <1>11, <1>12
  <2> HIDE DEF i
  <2> QED
    BY <1>7, <2>1
<1> QED
  BY <1>9, <1>11, <1>14, <1>15, <1>16 DEF Summary, all, some

\* Of finitely many with bounded weights, some weigh most.
LEMMA HeaviestOf ==
  ASSUME NEW n \in Nat, NEW pool \in SUBSET (1 .. n), pool # {}, NEW most \in Nat, NEW w,
         \A i \in pool : w[i] \in 0 .. most
  PROVE  \E i \in pool : \A j \in pool : w[j] <= w[i]
<1> DEFINE T == {most - w[i] : i \in pool}
<1>0. \A i \in pool : w[i] \in Nat /\ most - w[i] \in Nat
  <2> TAKE i \in pool
  <2>1. w[i] \in 0 .. most
    OBVIOUS
  <2> QED
    BY <2>1
<1>1. T \in SUBSET Nat /\ T # {}
  BY <1>0
<1>2. PICK least \in T : \A k \in T : ~(k < least)
  BY <1>1, LeastNumber
<1>3. PICK i \in pool : least = most - w[i]
  BY <1>2
<1>4. ASSUME NEW j \in pool PROVE w[j] <= w[i]
  <2>1. ~(most - w[j] < most - w[i])
    BY <1>2, <1>3
  <2>2. w[i] \in Nat /\ w[j] \in Nat
    BY <1>0
  <2> QED
    BY <2>1, <2>2
<1> QED
  BY <1>4

\* Without the model the rules take a candidate; an explicit one, of those
\* that are mentioned most, if there is any.
LEMMA FallbackIs ==
  ASSUME NEW all, Len(all) \in Nat, NEW some, Summary(all, some), Len(some) # 0
  PROVE  LET best == RuleBasedFallback(some) IN
         \E k \in 1 .. Len(some) :
            /\ best = [law |-> some[k].law, status |-> some[k].status,
                       confidence |-> some[k].confidence, by |-> "rules"]
            /\ (\E j \in 1 .. Len(some) : some[j].status = "explicit") =>
                  /\ some[k].status = "explicit"
                  /\ \A j \in 1 .. Len(some) : some[j].status = "explicit" =>
                        some[j].evidenceCount <= some[k].evidenceCount
<1> DEFINE n == Len(some)
           pool == IF Explicit(some) # {} THEN Explicit(some) ELSE DOMAIN some
           weight(i) == 1000 * some[i].confidence + some[i].evidenceCount
           tops == {i \in pool : \A j \in pool : weight(j) <= weight(i)}
           most == 90000 + Len(all)
           w == [i \in 1 .. n |-> weight(i)]
<1>1. /\ n \in Nat /\ DOMAIN some = 1 .. n /\ n # 0
      /\ \A k \in 1 .. n : /\ some[k].confidence \in {40, 50, 60, 90}
                           /\ some[k].evidenceCount \in 0 .. Len(all)
                           /\ some[k].status = "explicit" => some[k].confidence = 90
  <2>1. some = [k \in 1 .. n |-> some[k]] /\ n \in Nat
    BY DEF Summary
  <2>2. DOMAIN some = 1 .. n
    BY <2>1
  <2> QED
    BY <2>1, <2>2 DEF Summary
<1>2. Explicit(some) = {i \in 1 .. n : some[i].status = "explicit"}
  BY <1>1 DEF Explicit
<1>3. pool \in SUBSET (1 .. n) /\ pool # {}
  <2>1. 1 \in 1 .. n
    BY <1>1
  <2> QED
    BY <1>1, <1>2, <2>1
<1>4. ASSUME NEW i \in 1 .. n PROVE w[i] \in 0 .. most /\ w[i] = weight(i) /\ weight(i) \in Nat
  <2>1. some[i].confidence \in Nat /\ some[i].confidence <= 90
    BY <1>1
  <2>2. some[i].evidenceCount \in Nat /\ some[i].evidenceCount <= Len(all)
    BY <1>1
  <2>3. weight(i) \in Nat /\ weight(i) <= most
    BY <2>1, <2>2
  <2>4. w[i] = weight(i)
    OBVIOUS
  <2> HIDE DEF w, weight, most
  <2>5. most \in Nat
    BY DEF most
  <2> QED
    BY <2>3, <2>4, <2>5
<1>5. most \in Nat
  OBVIOUS
<1>6. RuleBasedFallback(some) =
          [law |-> some[Min(tops)].law, status |-> some[Min(tops)].status,
           confidence |-> some[Min(tops)].confidence, by |-> "rules"]
  BY DEF RuleBasedFallback
<1>7. Explicit(some) # {} => pool = Explicit(some)
  OBVIOUS
<1> HIDE DEF pool, most, w, n, weight
<1>8. \A i \in pool : w[i] \in 0 .. most
  BY <1>3, <1>4
<1>9. PICK i \in pool : \A j \in pool : w[j] <= w[i]
  <2>1. /\ n \in Nat /\ pool \in SUBSET (1 .. n) /\ pool # {} /\ most \in Nat
        /\ \A i \in pool : w[i] \in 0 .. most
    BY <1>1, <1>3, <1>5, <1>8
  <2> QED
    BY ONLY <2>1, HeaviestOf
<1>10. i \in tops
  BY <1>3, <1>4, <1>9
<1>11. tops \in SUBSET pool /\ pool \in SUBSET Nat
  <2>1. 1 .. n \in SUBSET Nat
    BY <1>1
  <2> QED
    BY <1>3, <2>1
<1>12. Min(tops) \in tops
  <2>1. tops \in SUBSET Nat /\ tops # {}
    BY <1>10, <1>11
  <2> HIDE DEF tops
  <2> QED
    BY <2>1, LeastOf
<1> DEFINE k == Min(tops)
<1>13. k \in pool /\ k \in 1 .. n /\ \A j \in pool : weight(j) <= weight(k)
  BY <1>3, <1>12
<1> HIDE DEF k, tops
<1>14. ASSUME NEW e \in 1 .. n, some[e].status = "explicit"
       PROVE  /\ some[k].status = "explicit"
              /\ \A j \in 1 .. n : some[j].status = "explicit" => some[j].evidenceCount <= some[k].evidenceCount
  <2>1. pool = Explicit(some)
    BY <1>2, <1>7, <1>14
  <2>2. some[k].status = "explicit"
    BY <1>2, <1>13, <2>1
  <2>3. ASSUME NEW j \in 1 .. n, some[j].status = "explicit"
        PROVE  some[j].evidenceCount <= some[k].evidenceCount
    <3>1. weight(j) <= weight(k)
      BY <1>2, <1>13, <2>1, <2>3
    <3>2. some[j].confidence = 90 /\ some[k].confidence = 90
          /\ some[j].evidenceCount \in Nat /\ some[k].evidenceCount \in Nat
      BY <1>1, <1>13, <2>2, <2>3
    <3> QED
      BY <3>1, <3>2 DEF weight
  <2> QED
    BY <2>2, <2>3
<1> QED
  BY <1>6, <1>13, <1>14 DEF n, k

-----------------------------------------------------------------------------
(* The files in another order.                                             *)

\* The same, in another order.
SamePlaces(h, s, t) ==
    /\ h \in [1 .. Len(s) -> 1 .. Len(t)]
    /\ \A d, e \in 1 .. Len(s) : h[d] = h[e] => d = e
    /\ \A c \in 1 .. Len(t) : \E d \in 1 .. Len(s) : h[d] = c
    /\ \A d \in 1 .. Len(s) : t[h[d]] = s[d]

LEMMA Backwards ==
  ASSUME NEW T, NEW seqs \in Seq(Seq(T)), NEW other \in Seq(Seq(T)), Len(other) = Len(seqs),
         \A k \in 1 .. Len(seqs) : other[k] = seqs[Len(seqs) - k + 1]
  PROVE  \E h : SamePlaces(h, FlattenSeq(seqs), FlattenSeq(other))
<1> DEFINE n == Len(seqs)
           s == FlattenSeq(seqs)
           t == FlattenSeq(other)
           here == Spots(seqs, n)
           there == Spots(other, n)
           back(p) == <<n - p[1] + 1, p[2]>>
<1>n. n \in Nat
  BY LenProperties
<1>1. PICK g : Numbers(g, here, seqs, s)
  BY FlattenPlaces
<1>2. PICK f : Numbers(f, there, other, t)
  BY FlattenPlaces
<1> HIDE DEF s, t
<1>3. \A k \in 1 .. n : n - k + 1 \in 1 .. n /\ n - (n - k + 1) + 1 = k
                        /\ other[n - k + 1] = seqs[k] /\ seqs[n - k + 1] = other[k]
  BY <1>n
<1>4. ASSUME NEW p \in here PROVE back(p) \in there /\ other[back(p)[1]] = seqs[p[1]] /\ back(p)[2] = p[2]
  <2>1. p[1] \in 1 .. n /\ p[2] \in Nat /\ p[2] \in 1 .. Len(seqs[p[1]])
    BY DEF Spots
  <2>2. n - p[1] + 1 \in 1 .. n /\ other[n - p[1] + 1] = seqs[p[1]]
    BY <1>3, <2>1
  <2> QED
    BY <2>1, <2>2 DEF Spots
<1>5. ASSUME NEW q \in there PROVE back(q) \in here /\ back(back(q)) = q
  <2>1. q \in (1 .. n) \X Nat /\ q[1] \in 1 .. n /\ q[2] \in Nat /\ q[2] \in 1 .. Len(other[q[1]]) /\ q = <<q[1], q[2]>>
    BY DEF Spots
  <2>2. n - q[1] + 1 \in 1 .. n /\ seqs[n - q[1] + 1] = other[q[1]] /\ n - (n - q[1] + 1) + 1 = q[1]
    BY <1>3, <2>1
  <2> QED
    BY <2>1, <2>2 DEF Spots
<1>6. ASSUME NEW p \in here, NEW q \in here, back(p) = back(q) PROVE p = q
  <2>1. p[1] \in 1 .. n /\ q[1] \in 1 .. n /\ p = <<p[1], p[2]>> /\ q = <<q[1], q[2]>>
    BY DEF Spots
  <2>2. n - p[1] + 1 = n - q[1] + 1 /\ p[2] = q[2]
    BY <1>6
  <2>3. p[1] = q[1]
    BY <1>n, <2>1, <2>2
  <2> QED
    BY <2>1, <2>2, <2>3
<1> HIDE DEF back, here, there, n
<1> DEFINE at(d) == CHOOSE p \in here : g[p] = d
           h == [d \in 1 .. Len(s) |-> f[back(at(d))]]
<1>7. \A d \in 1 .. Len(s) : at(d) \in here /\ g[at(d)] = d
  BY <1>1 DEF Numbers
<1>8. \A p \in here : g[p] \in 1 .. Len(s) /\ at(g[p]) = p
  BY <1>1, <1>7 DEF Numbers
<1> HIDE DEF at
<1>9. h \in [1 .. Len(s) -> 1 .. Len(t)]
  BY <1>2, <1>4, <1>7 DEF Numbers
<1>10. ASSUME NEW d \in 1 .. Len(s), NEW e \in 1 .. Len(s), h[d] = h[e] PROVE d = e
  <2>1. f[back(at(d))] = f[back(at(e))]
    BY <1>10
  <2>2. back(at(d)) = back(at(e))
    BY <1>2, <1>4, <1>7, <2>1 DEF Numbers
  <2> QED
    BY <1>6, <1>7, <2>2
<1>11. ASSUME NEW c \in 1 .. Len(t) PROVE \E d \in 1 .. Len(s) : h[d] = c
  <2>1. PICK q \in there : f[q] = c
    BY <1>2 DEF Numbers
  <2>2. back(q) \in here /\ back(back(q)) = q
    BY <1>5
  <2>3. g[back(q)] \in 1 .. Len(s) /\ at(g[back(q)]) = back(q)
    BY <1>8, <2>2
  <2> QED
    BY <2>1, <2>2, <2>3
<1>12. ASSUME NEW d \in 1 .. Len(s) PROVE t[h[d]] = s[d]
  <2>1. at(d) \in here /\ g[at(d)] = d /\ h[d] = f[back(at(d))]
    BY <1>7
  <2>2. s[d] = seqs[at(d)[1]][at(d)[2]]
    BY <1>1, <2>1 DEF Numbers
  <2>3. back(at(d)) \in there /\ other[back(at(d))[1]] = seqs[at(d)[1]] /\ back(at(d))[2] = at(d)[2]
    BY <1>4, <2>1
  <2>4. t[f[back(at(d))]] = other[back(at(d))[1]][back(at(d))[2]]
    BY <1>2, <2>3 DEF Numbers
  <2> QED
    BY <2>1, <2>2, <2>3, <2>4
<1> HIDE DEF h
<1>13. SamePlaces(h, s, t)
  BY <1>9, <1>10, <1>11, <1>12 DEF SamePlaces
<1> QED
  BY <1>13 DEF s, t

LEMMA SameCount ==
  ASSUME NEW T, NEW s \in Seq(T), NEW t \in Seq(T), NEW h, SamePlaces(h, s, t), NEW law
  PROVE  /\ Cardinality(Naming(s, law)) = Cardinality(Naming(t, law))
         /\ IsExplicit(s, law) <=> IsExplicit(t, law)
<1> DEFINE here == Naming(s, law)
           there == Naming(t, law)
           own == [d \in here |-> h[d]]
<1>1. DOMAIN s = 1 .. Len(s) /\ DOMAIN t = 1 .. Len(t) /\ Len(s) \in Nat
  BY LenProperties
<1>2. here = {d \in 1 .. Len(s) : s[d].law = law} /\ there = {c \in 1 .. Len(t) : t[c].law = law}
  BY <1>1 DEF Naming
<1> HIDE DEF here, there
<1>3. \A d \in here : h[d] \in there /\ t[h[d]] = s[d]
  BY <1>2 DEF SamePlaces
<1>4. \A c \in there : \E d \in here : h[d] = c
  <2> TAKE c \in there
  <2>1. PICK d \in 1 .. Len(s) : h[d] = c
    BY <1>2 DEF SamePlaces
  <2>2. s[d].law = law
    BY <1>2, <2>1 DEF SamePlaces
  <2> QED
    BY <1>2, <2>1, <2>2
<1>5. own \in Injection(here, there)
  <2>1. own \in [here -> there]
    BY <1>3
  <2>2. \A d, e \in here : h[d] = h[e] => d = e
    BY <1>2 DEF SamePlaces
  <2> QED
    BY <2>1, <2>2 DEF Injection, IsInjective
<1>6. own \in Surjection(here, there)
  BY <1>3, <1>4 DEF Surjection
<1>7. ExistsBijection(here, there)
  BY <1>5, <1>6 DEF ExistsBijection, Bijection
<1>8. IsFiniteSet(here)
  BY <1>1, <1>2, FirstNumbers, FS_Subset
<1>9. Cardinality(here) = Cardinality(there)
  BY <1>7, <1>8, FS_Bijection
<1>10. (\E d \in here : s[d].status = "explicit") <=> (\E c \in there : t[c].status = "explicit")
  BY <1>3, <1>4
<1> QED
  BY <1>9, <1>10 DEF here, there, IsExplicit

-----------------------------------------------------------------------------
(* The hints.                                                              *)
Earlier(places, m) == places \in SUBSET (1 .. m) /\ \A i \in places : \A j \in 1 .. i : j \in places

\* At most two are kept, the first of their kind; and what comes earlier is
\* not passed over for what comes later.
TwoOf(some, m, out) ==
    /\ Len(out) \in 0 .. 2 /\ DOMAIN out = 1 .. Len(out) /\ \A d \in 1 .. Len(out) : out[d] \in Hints
    /\ \A c, d \in 1 .. Len(out) : c # d => HintKey[out[c]] # HintKey[out[d]]
    /\ \A d \in 1 .. Len(out) :
          \E i \in 1 .. m : /\ out[d] = some[i]
                            /\ \A j \in 1 .. i - 1 : HintKey[some[j]] # HintKey[some[i]]
    /\ \A early \in SUBSET (1 .. m) : Earlier(early, m) =>
          \A d \in 1 .. Len(out) : HintKey[out[d]] \notin {HintKey[some[i]] : i \in early} =>
             \A i \in early : \E c \in 1 .. Len(out) : c < d /\ HintKey[out[c]] = HintKey[some[i]]

LEMMA FirstTwoIs ==
  ASSUME NEW some, NEW m \in Nat, DOMAIN some = 1 .. m, \A i \in 1 .. m : some[i] \in Hints
  PROVE  TwoOf(some, m, FirstTwo(some))
<1> DEFINE places == {i \in DOMAIN some : \A j \in 1 .. i - 1 : HintKey[some[j]] # HintKey[some[i]]}
           fresh == Selected(some, places)
           n == Len(fresh)
           size == Min({2, n})
           out == FirstTwo(some)
<1>1. out = SubSeq(fresh, 1, size)
  BY DEF FirstTwo
<1>2. places \in SUBSET (1 .. m)
  OBVIOUS
<1>3. \A i \in 1 .. m : i \in places <=> \A j \in 1 .. i - 1 : HintKey[some[j]] # HintKey[some[i]]
  OBVIOUS
<1> HIDE DEF places, out
<1>4. n \in Nat /\ fresh = [k \in 1 .. n |-> fresh[k]] /\ \E order : Picks(order, some, places)
  BY <1>2, SelectedIs
<1>5. PICK order : Picks(order, some, places)
  BY <1>4
<1>6. /\ order \in [1 .. n -> places]
      /\ \A i \in places : \E k \in 1 .. n : order[k] = i
      /\ \A k, l \in 1 .. n : k < l => order[k] < order[l]
      /\ \A k \in 1 .. n : fresh[k] = some[order[k]]
  BY <1>5 DEF Picks
<1>7. \A k \in 1 .. n : order[k] \in places /\ order[k] \in 1 .. m /\ fresh[k] \in Hints
  BY <1>2, <1>6
<1> HIDE DEF fresh, n
<1>8. size \in {2, n} /\ size \in Nat /\ size <= 2 /\ size <= n
  <2>1. {2, n} \in SUBSET Nat /\ {2, n} # {}
    BY <1>4
  <2>2. Min({2, n}) \in {2, n} /\ \A k \in {2, n} : Min({2, n}) <= k
    BY <2>1, LeastOf
  <2> HIDE DEF size
  <2>3. size \in {2, n} /\ size <= 2 /\ size <= n
    BY <2>2 DEF size
  <2> QED
    BY <1>4, <2>3
<1> HIDE DEF size
<1>9. fresh \in Seq(Hints) /\ Len(fresh) = n
  BY <1>4, <1>7
<1>10. out = [k \in 1 .. size |-> fresh[k]]
  <2>1. 1 \in 1 .. n + 1 /\ size \in 1 - 1 .. n
    BY <1>4, <1>8
  <2>2. /\ SubSeq(fresh, 1, size) \in Seq(Hints)
        /\ Len(SubSeq(fresh, 1, size)) = IF 1 <= size THEN size - 1 + 1 ELSE 0
        /\ \A k \in 1 .. size - 1 + 1 : SubSeq(fresh, 1, size)[k] = fresh[1 + k - 1]
    BY <1>9, <2>1, SubSeqProperties
  <2>3. Len(out) = size /\ out \in Seq(Hints)
    BY <1>1, <1>8, <2>2
  <2>4. \A k \in 1 .. size : k \in 1 .. size - 1 + 1 /\ 1 + k - 1 = k
    BY <1>8
  <2>5. \A k \in 1 .. size : out[k] = fresh[k]
    BY <1>1, <2>2, <2>4
  <2> QED
    BY <2>3, <2>5
<1>11. Len(out) = size /\ DOMAIN out = 1 .. size /\ \A k \in 1 .. size : k \in 1 .. n /\ out[k] = some[order[k]]
  <2>1. \A k \in 1 .. size : k \in 1 .. n
    BY <1>4, <1>8
  <2> QED
    BY <1>6, <1>8, <1>10, <2>1
<1>12. ASSUME NEW c \in 1 .. size, NEW d \in 1 .. size, c # d PROVE HintKey[out[c]] # HintKey[out[d]]
  <2>1. ASSUME NEW k \in 1 .. n, NEW l \in 1 .. n, k < l PROVE HintKey[some[order[k]]] # HintKey[some[order[l]]]
    <3>1. order[k] \in 1 .. m /\ order[l] \in 1 .. m /\ order[k] < order[l] /\ order[l] \in places
      BY <1>6, <1>7, <2>1
    <3>2. order[k] \in 1 .. order[l] - 1
      BY <3>1
    <3> QED
      BY <1>3, <3>1, <3>2
  <2>2. c < d \/ d < c
    BY <1>8, <1>12
  <2> QED
    BY <1>11, <2>1, <2>2
<1>13. \A d \in 1 .. size : \E i \in 1 .. m : out[d] = some[i]
                               /\ \A j \in 1 .. i - 1 : HintKey[some[j]] # HintKey[some[i]]
  BY <1>3, <1>7, <1>11
<1>14. ASSUME NEW early \in SUBSET (1 .. m), Earlier(early, m), NEW d \in 1 .. size,
              HintKey[out[d]] \notin {HintKey[some[i]] : i \in early}, NEW i \in early
       PROVE  \E c \in 1 .. size : c < d /\ HintKey[out[c]] = HintKey[some[i]]
  <2> DEFINE same == {j \in 1 .. i : HintKey[some[j]] = HintKey[some[i]]}
  <2>1. i \in 1 .. m /\ i \in same
    <3>1. i \in 1 .. m
      BY <1>14
    <3>2. i \in 1 .. i
      BY <3>1
    <3> QED
      BY <3>1, <3>2
  <2>2. same \in SUBSET Nat /\ same # {}
    BY <2>1
  <2>3. PICK j \in same : \A k \in same : ~(k < j)
    BY <2>2, LeastNumber
  <2>4. j \in 1 .. i /\ HintKey[some[j]] = HintKey[some[i]]
    BY <2>3
  <2>5. j \in 1 .. m /\ j \in early
    BY <1>14, <2>1, <2>4 DEF Earlier
  <2>6. ASSUME NEW k \in 1 .. j - 1 PROVE HintKey[some[k]] # HintKey[some[j]]
    <3>1. k \in 1 .. i /\ k < j
      BY <2>1, <2>4
    <3> QED
      BY <2>3, <2>4, <3>1
  <2>7. j \in places
    BY <1>3, <2>5, <2>6
  <2>8. PICK c \in 1 .. n : order[c] = j
    BY <1>6, <2>7
  <2>9. order[d] \notin early /\ d \in 1 .. n /\ order[d] \in 1 .. m
    BY <1>7, <1>11, <1>14
  <2>10. ~(order[d] <= j)
    <3>1. ASSUME order[d] <= j PROVE FALSE
      <4>1. order[d] \in 1 .. j
        BY <2>5, <2>9, <3>1
      <4>2. order[d] \in early
        BY <1>14, <2>5, <4>1 DEF Earlier
      <4> QED
        BY <2>9, <4>2
    <3> QED
      BY <3>1
  <2>11. c < d
    <3>1. ~(d < c) /\ d # c
      <4>1. d < c => order[d] < order[c]
        BY <1>6, <2>9
      <4>2. order[c] \in Nat /\ order[d] \in Nat
        BY <2>5, <2>8, <2>9
      <4> QED
        BY <2>8, <2>10, <4>1, <4>2
    <3> QED
      BY <1>4, <2>9, <3>1
  <2>12. c \in 1 .. size
    BY <1>4, <1>8, <2>11
  <2> QED
    BY <1>11, <2>4, <2>8, <2>11, <2>12
<1>15. Len(out) \in 0 .. 2 /\ DOMAIN out = 1 .. Len(out) /\ \A d \in 1 .. Len(out) : out[d] \in Hints
  <2>1. size \in 0 .. 2
    BY <1>8
  <2> QED
    BY <1>6, <1>7, <1>11, <2>1
<1>16. Len(out) = size
  BY <1>11
<1>17. TwoOf(some, m, out)
  <2>1. \A c, d \in 1 .. Len(out) : c # d => HintKey[out[c]] # HintKey[out[d]]
    BY <1>12, <1>16
  <2>2. \A early \in SUBSET (1 .. m) : Earlier(early, m) =>
          \A d \in 1 .. Len(out) : HintKey[out[d]] \notin {HintKey[some[i]] : i \in early} =>
             \A i \in early : \E c \in 1 .. Len(out) : c < d /\ HintKey[out[c]] = HintKey[some[i]]
    BY <1>14, <1>16
  <2> QED
    BY Zenon, <1>13, <1>15, <1>16, <2>1, <2>2 DEF TwoOf
<1> QED
  BY <1>17 DEF out

Usable(chunks) == {i \in DOMAIN chunks : chunks[i].act \in Hints \ ShortHints}

\* A hint that names no act of the corpus comes after all of them.
LEMMA DerivedHints ==
  ASSUME NEW chunks \in LegalChunkLists, NEW citations \in CitationLists
  PROVE  LET out == DeriveStatuteHints(chunks, citations) IN
         /\ Len(out) \in 0 .. 2 /\ DOMAIN out = 1 .. Len(out) /\ \A d \in 1 .. Len(out) : out[d] \in Hints
         /\ \A d \in 1 .. Len(out) : HintKey[out[d]] \notin {HintKey[chunks[i].act] : i \in Usable(chunks)} =>
               \A i \in Usable(chunks) : \E c \in 1 .. Len(out) : c < d /\ HintKey[out[c]] = HintKey[chunks[i].act]
<1> DEFINE a == Len(chunks)
           acts == [i \in DOMAIN chunks |-> chunks[i].act]
           named == acts \o citations
           places == {i \in DOMAIN named : named[i] \in Hints \ ShortHints}
           some == Selected(named, places)
           m == Len(some)
           out == DeriveStatuteHints(chunks, citations)
<1>1. out = FirstTwo(some)
  BY DEF DeriveStatuteHints
<1>2. /\ a \in Nat /\ DOMAIN chunks = 1 .. a
      /\ \A i \in 1 .. a : chunks[i].act \in Hints \cup {"none"}
  <2>1. chunks \in Seq([id : Nat, act : Hints \cup {"none"}, score : 0 .. 10])
    BY LawAssumption
  <2>2. a \in Nat /\ DOMAIN chunks = 1 .. a
    BY <2>1, LenProperties
  <2>3. ASSUME NEW i \in 1 .. a PROVE chunks[i].act \in Hints \cup {"none"}
    <3>1. chunks[i] \in [id : Nat, act : Hints \cup {"none"}, score : 0 .. 10]
      BY <2>1, ElementOfSeq
    <3> QED
      BY <3>1
  <2> QED
    BY <2>2, <2>3
<1>3. citations \in Seq(Hints \cup {"none"})
  <2>1. citations \in Seq(Hints)
    BY LawAssumption
  <2> QED
    BY <2>1
<1>4. acts \in Seq(Hints \cup {"none"}) /\ Len(acts) = a /\ \A i \in 1 .. a : acts[i] = chunks[i].act
  BY <1>2
<1> HIDE DEF acts, out
<1>5. /\ named \in Seq(Hints \cup {"none"}) /\ Len(named) = a + Len(citations) /\ Len(citations) \in Nat
      /\ DOMAIN named = 1 .. Len(named)
      /\ \A i \in 1 .. a + Len(citations) : i <= a => named[i] = chunks[i].act
  <2>1. /\ named \in Seq(Hints \cup {"none"}) /\ Len(named) = a + Len(citations)
        /\ \A i \in 1 .. a + Len(citations) : named[i] = IF i <= a THEN acts[i] ELSE citations[i - a]
    <3>1. PICK T : T = Hints \cup {"none"}
      OBVIOUS
    <3>2. acts \in Seq(T) /\ citations \in Seq(T)
      BY <1>3, <1>4, <3>1
    <3>3. /\ acts \o citations \in Seq(T) /\ Len(acts \o citations) = Len(acts) + Len(citations)
          /\ \A i \in 1 .. Len(acts) + Len(citations) :
                (acts \o citations)[i] = IF i <= Len(acts) THEN acts[i] ELSE citations[i - Len(acts)]
      BY ONLY <3>2, ConcatProperties
    <3> QED
      BY <1>4, <3>1, <3>3
  <2>2. Len(citations) \in Nat /\ DOMAIN named = 1 .. Len(named)
    BY <1>3, <2>1, LenProperties
  <2> HIDE DEF named
  <2>3. \A i \in 1 .. a + Len(citations) : i <= a => i \in 1 .. a
    BY <1>2, <2>2
  <2> QED
    BY <1>4, <2>1, <2>2, <2>3
<1> HIDE DEF named
<1>6. Len(named) \in Nat /\ places \in SUBSET (1 .. Len(named))
  BY <1>2, <1>5
<1>7. \A i \in 1 .. Len(named) : i \in places <=> named[i] \in Hints \ ShortHints
  BY <1>5
<1> HIDE DEF places
<1>8. m \in Nat /\ some = [k \in 1 .. m |-> some[k]] /\ \E order : Picks(order, named, places)
  BY <1>6, SelectedIs
<1>9. PICK order : Picks(order, named, places)
  BY <1>8
<1>10. /\ order \in [1 .. m -> places]
       /\ \A i \in places : \E k \in 1 .. m : order[k] = i
       /\ \A k, l \in 1 .. m : k < l => order[k] < order[l]
       /\ \A k \in 1 .. m : some[k] = named[order[k]]
  BY <1>9 DEF Picks
<1> HIDE DEF some, m, a
<1>11. \A k \in 1 .. m : order[k] \in places /\ order[k] \in 1 .. Len(named) /\ some[k] \in Hints
  BY <1>6, <1>7, <1>10
<1>12. DOMAIN some = 1 .. m
  BY <1>8
<1> DEFINE early == {k \in 1 .. m : order[k] <= a}
<1>13. Earlier(early, m)
  <2>1. ASSUME NEW k \in early, NEW l \in 1 .. k PROVE l \in early
    <3>1. l \in 1 .. m /\ k \in 1 .. m /\ order[k] <= a /\ (l < k \/ l = k)
      BY <1>8
    <3>2. l < k => order[l] < order[k]
      BY <1>10, <3>1
    <3>3. order[l] \in Nat /\ order[k] \in Nat
      BY <1>6, <1>11, <3>1
    <3>4. order[l] <= a
      BY <1>2, <3>1, <3>2, <3>3
    <3> QED
      BY <3>1, <3>4
  <2> QED
    BY <2>1 DEF Earlier
<1>14. {HintKey[some[k]] : k \in early} = {HintKey[chunks[i].act] : i \in Usable(chunks)}
  <2>1. ASSUME NEW k \in early PROVE \E i \in Usable(chunks) : some[k] = chunks[i].act
    <3>1. k \in 1 .. m /\ order[k] <= a /\ order[k] \in 1 .. Len(named)
      BY <1>11
    <3>2. order[k] \in 1 .. a
      BY <1>2, <1>5, <3>1
    <3>3. some[k] = chunks[order[k]].act /\ chunks[order[k]].act \in Hints \ ShortHints
      BY <1>5, <1>7, <1>10, <1>11, <3>1
    <3> QED
      BY <1>2, <3>2, <3>3 DEF Usable
  <2>2. ASSUME NEW i \in Usable(chunks) PROVE \E k \in early : some[k] = chunks[i].act
    <3>1. i \in 1 .. a /\ chunks[i].act \in Hints \ ShortHints
      BY <1>2 DEF Usable
    <3>2. i \in 1 .. a + Len(citations) /\ i <= a
      BY <1>2, <1>5, <3>1
    <3>3. named[i] = chunks[i].act /\ i \in places
      BY <1>5, <1>7, <3>1, <3>2
    <3>4. PICK k \in 1 .. m : order[k] = i
      BY <1>10, <3>3
    <3> QED
      BY <1>10, <3>2, <3>3, <3>4
  <2> HIDE DEF early
  <2> QED
    BY <2>1, <2>2
<1>15. ASSUME NEW i \in Usable(chunks) PROVE \E k \in early : HintKey[some[k]] = HintKey[chunks[i].act]
  BY <1>14
<1>16. early \in SUBSET (1 .. m)
  OBVIOUS
<1> HIDE DEF early
<1>17. TwoOf(some, m, out)
  BY <1>1, <1>8, <1>11, <1>12, FirstTwoIs
<1>18. Len(out) \in 0 .. 2 /\ DOMAIN out = 1 .. Len(out) /\ \A d \in 1 .. Len(out) : out[d] \in Hints
  BY <1>17 DEF TwoOf
<1>19. ASSUME NEW d \in 1 .. Len(out), HintKey[out[d]] \notin {HintKey[chunks[i].act] : i \in Usable(chunks)},
              NEW i \in Usable(chunks)
       PROVE  \E c \in 1 .. Len(out) : c < d /\ HintKey[out[c]] = HintKey[chunks[i].act]
  <2>1. HintKey[out[d]] \notin {HintKey[some[k]] : k \in early}
    BY <1>14, <1>19
  <2>2. PICK k \in early : HintKey[some[k]] = HintKey[chunks[i].act]
    BY <1>15
  <2>3. \A e \in 1 .. Len(out) : HintKey[out[e]] \notin {HintKey[some[l]] : l \in early} =>
           \A l \in early : \E c \in 1 .. Len(out) : c < e /\ HintKey[out[c]] = HintKey[some[l]]
    BY Zenon, <1>13, <1>16, <1>17 DEF TwoOf
  <2>4. \E c \in 1 .. Len(out) : c < d /\ HintKey[out[c]] = HintKey[some[k]]
    BY <2>1, <2>3
  <2> QED
    BY <2>2, <2>4
<1> QED
  BY <1>18, <1>19 DEF out

Curated(chunks, given) ==
    /\ Len(given) <= 2 /\ \A i \in DOMAIN given : given[i] \in Hints
    /\ \A i, j \in DOMAIN given : i # j => HintKey[given[i]] # HintKey[given[j]]
    /\ LET heads == {HintKey[HintHead[chunks[i].act]] : i \in Usable(chunks)}
       IN (\E i \in DOMAIN given : HintKey[given[i]] \notin heads)
              => heads \subseteq {HintKey[given[i]] : i \in DOMAIN given}

LEMMA NormalizedHints ==
  ASSUME NEW chunks \in LegalChunkLists, NEW citations \in CitationLists
  PROVE  Curated(chunks, NormalizeStatuteHints(DeriveStatuteHints(chunks, citations)))
<1> DEFINE derived == DeriveStatuteHints(chunks, citations)
           m == Len(derived)
           some == [i \in DOMAIN derived |-> HintHead[derived[i]]]
           out == NormalizeStatuteHints(derived)
           heads == {HintKey[HintHead[chunks[i].act]] : i \in Usable(chunks)}
<1>1. out = FirstTwo(some)
  BY DEF NormalizeStatuteHints
<1>2. /\ m \in 0 .. 2 /\ DOMAIN derived = 1 .. m /\ \A d \in 1 .. m : derived[d] \in Hints
      /\ \A d \in 1 .. m : HintKey[derived[d]] \notin {HintKey[chunks[i].act] : i \in Usable(chunks)} =>
            \A i \in Usable(chunks) : \E c \in 1 .. m : c < d /\ HintKey[derived[c]] = HintKey[chunks[i].act]
  BY DerivedHints
<1> HIDE DEF derived, out, m
<1>3. /\ DOMAIN some = 1 .. m /\ m \in Nat
      /\ \A i \in 1 .. m : some[i] = HintHead[derived[i]] /\ some[i] \in Hints
  <2>1. m \in Nat
    BY <1>2
  <2> QED
    BY <1>2, <2>1, LawAssumption
<1> HIDE DEF some
<1>4. TwoOf(some, m, out)
  BY <1>1, <1>3, FirstTwoIs
<1>5. \A x, y \in Hints : HintKey[x] = HintKey[y] => HintKey[HintHead[x]] = HintKey[HintHead[y]]
  BY LawAssumption
<1>6. ASSUME NEW d \in 1 .. Len(out), HintKey[out[d]] \notin heads, NEW u \in Usable(chunks)
      PROVE  \E c \in 1 .. Len(out) : HintKey[out[c]] = HintKey[HintHead[chunks[u].act]]
  <2>1. PICK i \in 1 .. m : out[d] = some[i] /\ \A j \in 1 .. i - 1 : HintKey[some[j]] # HintKey[some[i]]
    BY <1>4 DEF TwoOf
  <2>2. \A v \in Usable(chunks) : chunks[v].act \in Hints
    BY DEF Usable
  <2>3. derived[i] \in Hints /\ out[d] = HintHead[derived[i]]
    BY <1>2, <1>3, <2>1
  <2>4. HintKey[derived[i]] \notin {HintKey[chunks[v].act] : v \in Usable(chunks)}
    BY <1>5, <1>6, <2>2, <2>3
  <2>5. PICK k \in 1 .. m : k < i /\ HintKey[derived[k]] = HintKey[chunks[u].act]
    BY <1>2, <2>4
  <2>6. HintKey[some[k]] = HintKey[HintHead[chunks[u].act]]
    BY <1>2, <1>3, <1>5, <2>2, <2>5
  <2> DEFINE early == 1 .. i - 1
  <2>7. early \in SUBSET (1 .. m) /\ k \in early /\ Earlier(early, m)
    <3>1. early \in SUBSET (1 .. m) /\ k \in early
      BY <1>3, <2>5
    <3>2. \A e \in early : \A j \in 1 .. e : j \in early
      BY <1>3
    <3> QED
      BY <3>1, <3>2 DEF Earlier
  <2>8. HintKey[out[d]] \notin {HintKey[some[j]] : j \in early}
    BY <2>1
  <2> HIDE DEF early
  <2>9. \A e \in 1 .. Len(out) : HintKey[out[e]] \notin {HintKey[some[j]] : j \in early} =>
           \A j \in early : \E c \in 1 .. Len(out) : c < e /\ HintKey[out[c]] = HintKey[some[j]]
    BY Zenon, <1>4, <2>7 DEF TwoOf
  <2>10. PICK c \in 1 .. Len(out) : HintKey[out[c]] = HintKey[some[k]]
    BY <2>7, <2>8, <2>9
  <2> QED
    BY <2>6, <2>10
<1>7. Len(out) <= 2 /\ DOMAIN out = 1 .. Len(out) /\ \A i \in 1 .. Len(out) : out[i] \in Hints
  BY <1>4 DEF TwoOf
<1>8. (\E d \in DOMAIN out : HintKey[out[d]] \notin heads) => heads \subseteq {HintKey[out[i]] : i \in DOMAIN out}
  BY <1>6, <1>7
<1> HIDE DEF heads
<1>9. \A i, j \in DOMAIN out : i # j => HintKey[out[i]] # HintKey[out[j]]
  BY <1>4, <1>7 DEF TwoOf
<1> QED
  BY <1>7, <1>8, <1>9 DEF Curated, out, heads, derived

-----------------------------------------------------------------------------
(* The ranking.                                                            *)
Promoted(chunks, acts, out) ==
    /\ {out[i].id : i \in DOMAIN out} = {chunks[i].id : i \in DOMAIN chunks}
    /\ Len(out) = Len(chunks)
    /\ \A i, j \in DOMAIN chunks :
        (i < j /\ chunks[i].act \in acts \ ShortHints) =>
            \E k, l \in DOMAIN out :
                k < l /\ out[k].id = chunks[i].id /\ out[l].id = chunks[j].id

LEMMA Reranked ==
  ASSUME NEW chunks \in LegalChunkLists, NEW acts
  PROVE  Promoted(chunks, acts, RerankLegalByActMention(chunks, acts))
<1> DEFINE n == Len(chunks)
           places == DOMAIN chunks
           bumped == [i \in places |->
                         IF chunks[i].act \in acts \ ShortHints
                         THEN [chunks[i] EXCEPT !.score = Best(@ + 1)] ELSE chunks[i]]
           ahead == {p \in places \X places :
                        \/ bumped[p[1]].score > bumped[p[2]].score
                        \/ bumped[p[1]].score = bumped[p[2]].score /\ p[1] < p[2]}
           order == Ordered(places, ahead)
           out == RerankLegalByActMention(chunks, acts)
           score == [i \in places |-> IF chunks[i].act \in acts \ ShortHints
                                      THEN Best(chunks[i].score + 1) ELSE chunks[i].score]
<1>1. out = [k \in DOMAIN order |-> bumped[order[k]]]
  BY DEF RerankLegalByActMention
<1>2. /\ n \in Nat /\ places = 1 .. n
      /\ \A i \in 1 .. n : chunks[i] \in [id : Nat, act : Hints \cup {"none"}, score : 0 .. 10]
  <2>1. chunks \in Seq([id : Nat, act : Hints \cup {"none"}, score : 0 .. 10])
    BY LawAssumption
  <2>2. n \in Nat /\ places = 1 .. n
    BY <2>1, LenProperties
  <2>3. \A i \in 1 .. n : chunks[i] \in [id : Nat, act : Hints \cup {"none"}, score : 0 .. 10]
    BY <2>1, ElementOfSeq
  <2> QED
    BY <2>2, <2>3
<1>3. \A i, j \in 1 .. n : i < j => chunks[j].score <= chunks[i].score
  BY <1>2, LawAssumption
<1>4. \A i \in 1 .. n : chunks[i].score \in Nat /\ chunks[i].score <= 10
  <2> TAKE i \in 1 .. n
  <2>1. chunks[i].score \in 0 .. 10
    BY <1>2
  <2> QED
    BY <2>1
<1> HIDE DEF places, n, out
<1>5. ASSUME NEW i \in 1 .. n PROVE bumped[i].id = chunks[i].id /\ bumped[i].score = score[i]
  <2>1. PICK c \in [id : Nat, act : Hints \cup {"none"}, score : 0 .. 10] : c = chunks[i]
    BY <1>2
  <2>2. [c EXCEPT !.score = Best(@ + 1)].id = c.id /\ [c EXCEPT !.score = Best(@ + 1)].score = Best(c.score + 1)
    OBVIOUS
  <2>3. bumped[i] = IF c.act \in acts \ ShortHints THEN [c EXCEPT !.score = Best(@ + 1)] ELSE c
    BY <1>2, <2>1
  <2>4. score[i] = IF c.act \in acts \ ShortHints THEN Best(c.score + 1) ELSE c.score
    BY <1>2, <2>1
  <2> HIDE DEF bumped, score
  <2> QED
    BY <2>1, <2>2, <2>3, <2>4
<1>6. \A x, y \in 1 .. n : <<x, y>> \in ahead <=> score[x] > score[y] \/ (score[x] = score[y] /\ x < y)
  <2>1. \A x, y \in 1 .. n : <<x, y>> \in ahead <=>
            bumped[x].score > bumped[y].score \/ (bumped[x].score = bumped[y].score /\ x < y)
    BY <1>2
  <2> HIDE DEF bumped, score, ahead
  <2> QED
    BY <1>5, <2>1
<1>7. ASSUME NEW i \in 1 .. n
      PROVE  /\ score[i] \in Nat /\ chunks[i].score <= score[i] /\ score[i] <= Best(chunks[i].score + 1)
             /\ chunks[i].act \in acts \ ShortHints => score[i] = Best(chunks[i].score + 1)
  <2>1. score[i] = IF chunks[i].act \in acts \ ShortHints THEN Best(chunks[i].score + 1) ELSE chunks[i].score
    BY <1>2
  <2>2. PICK v \in Nat : v = chunks[i].score /\ v <= 10
    BY <1>4
  <2>3. Best(v + 1) \in Nat /\ v <= Best(v + 1)
    BY <2>2 DEF Best
  <2> HIDE DEF score
  <2> QED
    BY <2>1, <2>2, <2>3
<1> HIDE DEF bumped, score, ahead
<1>8. Orders(places, ahead)
  <2>1. \A x \in 1 .. n : score[x] \in Nat /\ x \in Nat
    BY <1>2, <1>7
  <2>2. \A x \in 1 .. n : <<x, x>> \notin ahead
    BY <1>6, <2>1
  <2>3. \A x, y \in 1 .. n : x # y => <<x, y>> \in ahead \/ <<y, x>> \in ahead
    BY <1>6, <2>1
  <2>4. \A x, y, z \in 1 .. n : <<x, y>> \in ahead /\ <<y, z>> \in ahead => <<x, z>> \in ahead
    BY <1>6, <2>1
  <2> QED
    BY <1>2, <2>2, <2>3, <2>4 DEF Orders
<1>9. IsFiniteSet(places) /\ Cardinality(places) = n
  BY <1>2, FirstNumbers
<1>10. /\ order \in [1 .. n -> 1 .. n]
       /\ \A x \in 1 .. n : \E k \in 1 .. n : order[k] = x
       /\ \A k, l \in 1 .. n : k < l => <<order[k], order[l]>> \in ahead
  <2>1. LET o == Ordered(places, ahead)
            c == Cardinality(places) IN
        /\ c \in Nat /\ o \in [1 .. c -> places]
        /\ \A x \in places : \E k \in 1 .. c : o[k] = x
        /\ \A k, l \in 1 .. c : k < l => <<o[k], o[l]>> \in ahead
    BY <1>8, <1>9, OrderedIs
  <2> QED
    BY <1>2, <1>9, <2>1
<1> HIDE DEF order
<1>11. Len(out) = n /\ DOMAIN out = 1 .. n /\ \A k \in 1 .. n : out[k] = bumped[order[k]] /\ order[k] \in 1 .. n
  <2>1. out = [k \in 1 .. n |-> bumped[order[k]]]
    BY <1>1, <1>10
  <2>2. DOMAIN out = 1 .. n /\ \A k \in 1 .. n : out[k] = bumped[order[k]]
    BY <2>1
  <2>3. n \in Nat
    BY <1>2
  <2>4. Len(out) = n
    BY ONLY <2>1, <2>3
  <2> QED
    BY <1>10, <2>2, <2>4
<1>12. \A k \in 1 .. n : out[k].id = chunks[order[k]].id
  BY <1>5, <1>11
<1>13. {out[i].id : i \in 1 .. n} = {chunks[i].id : i \in 1 .. n}
  <2>1. \A k \in 1 .. n : \E i \in 1 .. n : out[k].id = chunks[i].id
    BY <1>11, <1>12
  <2>2. ASSUME NEW i \in 1 .. n PROVE \E k \in 1 .. n : chunks[i].id = out[k].id
    <3>1. PICK k \in 1 .. n : order[k] = i
      BY <1>10
    <3> QED
      BY <1>12, <3>1
  <2>3. {out[i].id : i \in 1 .. n} \subseteq {chunks[i].id : i \in 1 .. n}
    BY <2>1
  <2>4. {chunks[i].id : i \in 1 .. n} \subseteq {out[i].id : i \in 1 .. n}
    BY <2>2
  <2> QED
    BY <2>3, <2>4
<1>14. ASSUME NEW i \in 1 .. n, NEW j \in 1 .. n, i < j, chunks[i].act \in acts \ ShortHints
       PROVE  \E k, l \in 1 .. n : k < l /\ out[k].id = chunks[i].id /\ out[l].id = chunks[j].id
  <2>1. PICK k \in 1 .. n : order[k] = i
    BY <1>10
  <2>2. PICK l \in 1 .. n : order[l] = j
    BY <1>10
  <2>3. score[j] <= score[i]
    <3>1. PICK v \in Nat : v = chunks[i].score
      BY <1>4
    <3>2. PICK w \in Nat : w = chunks[j].score
      BY <1>4
    <3>3. w <= v
      BY <1>3, <1>14, <3>1, <3>2
    <3>4. Best(w + 1) \in Nat /\ Best(v + 1) \in Nat /\ Best(w + 1) <= Best(v + 1)
      BY <3>3 DEF Best
    <3>5. score[i] = Best(v + 1) /\ score[j] <= Best(w + 1) /\ score[j] \in Nat
      BY <1>7, <1>14, <3>1, <3>2
    <3> QED
      BY <3>4, <3>5
  <2>4. score[i] \in Nat /\ score[j] \in Nat
    BY <1>7
  <2>5. <<j, i>> \notin ahead
    BY <1>2, <1>6, <1>14, <2>3, <2>4
  <2>6. ~(l < k)
    BY <1>10, <2>1, <2>2, <2>5
  <2>7. k # l
    BY <1>2, <1>14, <2>1, <2>2
  <2>8. k < l
    BY <1>2, <2>6, <2>7
  <2> QED
    BY <1>12, <2>1, <2>2, <2>8
<1>15. Len(out) = Len(chunks) /\ DOMAIN out = 1 .. n /\ DOMAIN chunks = 1 .. n
  BY <1>2, <1>11 DEF n, places
<1>16. Promoted(chunks, acts, out)
  <2>1. {out[i].id : i \in DOMAIN out} = {chunks[i].id : i \in DOMAIN chunks}
    BY <1>13, <1>15
  <2>2. \A i, j \in DOMAIN chunks :
            (i < j /\ chunks[i].act \in acts \ ShortHints) =>
                \E k, l \in DOMAIN out :
                    k < l /\ out[k].id = chunks[i].id /\ out[l].id = chunks[j].id
    BY <1>14, <1>15
  <2> QED
    BY Zenon, <1>15, <2>1, <2>2 DEF Promoted
<1> QED
  BY <1>16 DEF out

-----------------------------------------------------------------------------
(* The evaluation and the question.                                        *)

\* The candidates are those of the files, and the answer, if there is one, is
\* the model's or what the rules make of the candidates; what a question gets
\* is computed from what it got.
Founded ==
    /\ lawFiles \in LawFiles
    /\ lawStep \in {"files", "asking", "resolved"}
    /\ lawStep # "files" => candidates = CandidatesOf(lawFiles)
    /\ lawStep = "asking" => candidates # <<>>
    /\ lawStep = "resolved" =>
          \/ candidates = <<>> /\ resolved = Unresolved
          \/ candidates # <<>> /\ resolved = RuleBasedFallback(candidates)
          \/ /\ candidates # <<>> /\ resolved.by = "model" /\ resolved.law # NoLaw
             /\ resolved.status \in {"explicit", "inferred", "unknown"} /\ resolved.confidence = 50
    /\ lawStep # "resolved" => resolved = Unresolved
    /\ \/ ranked = <<>> /\ retrieved = <<>> /\ hints = <<>>
       \/ /\ retrieved \in LegalChunkLists /\ cited \in CitationLists
          /\ ranked = RerankLegalByActMention(retrieved, mentioned)
          /\ hints = NormalizeStatuteHints(DeriveStatuteHints(retrieved, cited))

LEMMA FoundedInit == LawInit => Founded
BY DEF LawInit, Founded, LawFiles

LEMMA FoundedStep == Founded /\ [LawNext]_lawVars => Founded'
<1> SUFFICES ASSUME Founded, [LawNext]_lawVars PROVE Founded'
  OBVIOUS
<1>1. CASE EvaluateFiles
  BY <1>1 DEF EvaluateFiles, Founded, questionVars
<1>2. CASE LlmNamesNone
  BY <1>2 DEF LlmNamesNone, Founded, questionVars
<1>3. ASSUME NEW law, NEW status \in {"explicit", "inferred", "unknown"}, LlmNames(law, status)
      PROVE  Founded'
  <2>1. /\ resolved'.by = "model" /\ resolved'.law = law /\ law # NoLaw
        /\ resolved'.status = status /\ resolved'.confidence = 50
    BY <1>3 DEF LlmNames
  <2>2. /\ lawStep = "asking" /\ lawStep' = "resolved"
        /\ UNCHANGED <<lawFiles, candidates, ranked, retrieved, mentioned, cited, hints>>
    BY <1>3 DEF LlmNames, questionVars
  <2> QED
    BY <2>1, <2>2 DEF Founded
<1>4. CASE AskAboutLaw
  BY <1>4 DEF AskAboutLaw, Founded, evidenceVars
<1>5. CASE UNCHANGED lawVars
  BY <1>5 DEF lawVars, evidenceVars, questionVars, Founded
<1> QED
  BY <1>1, <1>2, <1>3, <1>4, <1>5 DEF LawNext, EvaluationSteps

LEMMA FoundedCandidates ==
  ASSUME Founded, lawStep # "files"
  PROVE  /\ AllEvidence(lawFiles) \in Seq(Evidences)
         /\ Summary(AllEvidence(lawFiles), candidates)
         /\ Len(AllEvidence(lawFiles)) \in Nat
         /\ DOMAIN candidates = 1 .. Len(candidates)
         /\ Explicit(candidates) = {i \in 1 .. Len(candidates) : candidates[i].status = "explicit"}
<1>1. lawFiles \in LawFiles /\ candidates = CandidatesOf(lawFiles)
  BY DEF Founded
<1>2. AllEvidence(lawFiles) \in Seq(Evidences)
  BY <1>1, AllFiles
<1>3. Summary(AllEvidence(lawFiles), candidates) /\ Len(AllEvidence(lawFiles)) \in Nat
  BY <1>1, <1>2, CandidatesAre, LenProperties
<1>4. Len(candidates) \in Nat /\ candidates = [k \in 1 .. Len(candidates) |-> candidates[k]]
  BY <1>3 DEF Summary
<1>5. DOMAIN candidates = 1 .. Len(candidates)
  BY <1>4
<1> QED
  BY <1>2, <1>3, <1>5 DEF Explicit

LEMMA ExplicitIsFounded == Founded => ExplicitIsCandidate
<1> SUFFICES ASSUME Founded, lawStep # "files", NEW f \in DOMAIN lawFiles,
                    ResolveJurisdiction(lawFiles[f]).status = "explicit"
             PROVE  \E i \in Explicit(candidates) : candidates[i].law = ResolveJurisdiction(lawFiles[f]).law
  BY DEF ExplicitIsCandidate
<1> DEFINE all == AllEvidence(lawFiles)
           law == ResolveJurisdiction(lawFiles[f]).law
<1>1. /\ all \in Seq(Evidences) /\ Summary(all, candidates)
      /\ Explicit(candidates) = {i \in 1 .. Len(candidates) : candidates[i].status = "explicit"}
  BY FoundedCandidates
<1>2. lawFiles \in LawFiles
  BY DEF Founded
<1>3. PICK d \in 1 .. Len(all) : all[d].law = law /\ all[d].status = "explicit"
  BY <1>2, ExplicitEverywhere
<1>4. DOMAIN all = 1 .. Len(all)
  BY <1>1, LenProperties
<1> HIDE DEF all, law
<1>5. PICK k \in 1 .. Len(candidates) : candidates[k].law = law
  BY <1>1, <1>3 DEF Summary
<1>6. IsExplicit(all, law)
  BY <1>3, <1>4 DEF IsExplicit, Naming
<1>7. candidates[k].status = "explicit"
  BY <1>1, <1>5, <1>6 DEF Summary
<1> QED
  BY <1>1, <1>5, <1>7 DEF law

LEMMA EvidenceIsFounded == Founded => EvidenceDecides
<1> SUFFICES ASSUME Founded, lawStep = "resolved" PROVE EvidenceDecides
  BY DEF EvidenceDecides
<1> DEFINE n == Len(lawFiles)
           all == AllEvidence(lawFiles)
           back == Reverse(lawFiles)
           turned == AllEvidence(back)
           again == CandidatesOf(back)
           other == RuleBasedFallback(again)
           mentions(law) == candidates[CHOOSE i \in DOMAIN candidates : candidates[i].law = law].evidenceCount
<1>1. /\ all \in Seq(Evidences) /\ Summary(all, candidates) /\ Len(all) \in Nat
      /\ DOMAIN candidates = 1 .. Len(candidates)
      /\ Explicit(candidates) = {i \in 1 .. Len(candidates) : candidates[i].status = "explicit"}
  BY FoundedCandidates
<1>2. lawFiles \in LawFiles
  BY DEF Founded
<1>3. candidates # <<>> => Len(candidates) # 0
  <2>1. Len(candidates) \in Nat /\ candidates = [k \in 1 .. Len(candidates) |-> candidates[k]]
    BY <1>1 DEF Summary
  <2>2. Len(candidates) = 0 => candidates = <<>>
    BY <2>1
  <2> QED
    BY <2>2
<1>4. resolved.law = NoLaw <=> candidates = <<>>
  <2>1. CASE candidates = <<>> /\ resolved = Unresolved
    BY <2>1 DEF Unresolved
  <2>2. CASE candidates # <<>> /\ resolved = RuleBasedFallback(candidates)
    <3>1. PICK k \in 1 .. Len(candidates) :
              RuleBasedFallback(candidates) =
                  [law |-> candidates[k].law, status |-> candidates[k].status,
                   confidence |-> candidates[k].confidence, by |-> "rules"]
      BY <1>1, <1>3, <2>2, FallbackIs
    <3>2. candidates[k].law # NoLaw
      BY <1>1 DEF Summary
    <3> QED
      BY <2>2, <3>1, <3>2
  <2>3. CASE candidates # <<>> /\ resolved.by = "model" /\ resolved.law # NoLaw
    BY <2>3
  <2> QED
    BY <2>1, <2>2, <2>3 DEF Founded
<1>5. ASSUME resolved.by = "rules", Explicit(candidates) # {}
      PROVE  resolved.status = "explicit" /\ mentions(resolved.law) = mentions(other.law)
  <2>1. candidates # <<>>
    BY <1>1, <1>5
  <2>2. resolved = RuleBasedFallback(candidates)
    BY <1>5, <2>1 DEF Founded
  <2>3. PICK e \in 1 .. Len(candidates) : candidates[e].status = "explicit"
    BY <1>1, <1>5
  <2>4. PICK k \in 1 .. Len(candidates) :
            /\ RuleBasedFallback(candidates) =
                   [law |-> candidates[k].law, status |-> candidates[k].status,
                    confidence |-> candidates[k].confidence, by |-> "rules"]
            /\ (\E j \in 1 .. Len(candidates) : candidates[j].status = "explicit") =>
                  /\ candidates[k].status = "explicit"
                  /\ \A j \in 1 .. Len(candidates) : candidates[j].status = "explicit" =>
                        candidates[j].evidenceCount <= candidates[k].evidenceCount
    BY <1>1, <1>3, <2>1, FallbackIs
  <2>5. /\ resolved.status = "explicit" /\ resolved.law = candidates[k].law
        /\ candidates[k].status = "explicit"
        /\ \A j \in 1 .. Len(candidates) : candidates[j].status = "explicit" =>
              candidates[j].evidenceCount <= candidates[k].evidenceCount
    BY <2>2, <2>3, <2>4
  <2> DEFINE seqs == [f \in DOMAIN lawFiles |-> ExtractAllEvidence(lawFiles[f])]
             seqsBack == [f \in DOMAIN back |-> ExtractAllEvidence(back[f])]
  <2>6. /\ n \in Nat /\ lawFiles \in [1 .. n -> FileTexts]
        /\ seqs \in Seq(Seq(Evidences)) /\ Len(seqs) = n /\ all = FlattenSeq(seqs)
    BY <1>2, AllFiles
  <2>7. back = [i \in 1 .. n |-> lawFiles[(n - i) + 1]]
    BY DEF Reverse
  <2>8. \A i \in 1 .. n : (n - i) + 1 \in 1 .. n
    BY <2>6
  <2>9. back \in LawFiles /\ Len(back) = n /\ DOMAIN back = 1 .. n
    <3>1. PICK m \in 0 .. MaxLawFiles : lawFiles \in [1 .. m -> FileTexts]
      BY <1>2 DEF LawFiles
    <3>2. m = n
      <4>1. m \in Nat
        BY LawAssumption
      <4> QED
        BY <3>1, <4>1
    <3>3. back \in [1 .. n -> FileTexts]
      BY <2>6, <2>7, <2>8
    <3> HIDE DEF back, n
    <3> QED
      BY <2>6, <3>1, <3>2, <3>3 DEF LawFiles
  <2>10. /\ seqsBack \in Seq(Seq(Evidences)) /\ Len(seqsBack) = n /\ turned = FlattenSeq(seqsBack)
         /\ turned \in Seq(Evidences)
    <3> HIDE DEF back
    <3> QED
      BY <2>9, AllFiles
  <2>11. \A i \in 1 .. n : seqsBack[i] = seqs[n - i + 1]
    <3>1. \A i \in 1 .. n : seqsBack[i] = ExtractAllEvidence(back[i]) /\ back[i] = lawFiles[n - i + 1]
      BY <2>7, <2>9
    <3>2. \A i \in 1 .. n : seqs[n - i + 1] = ExtractAllEvidence(lawFiles[n - i + 1])
      BY <2>6, <2>8
    <3> QED
      BY <3>1, <3>2
  <2> HIDE DEF seqs, seqsBack, all, turned, back, n
  <2>12. PICK h : SamePlaces(h, all, turned)
    BY <2>6, <2>10, <2>11, Backwards
  <2>13. \A law : /\ Cardinality(Naming(all, law)) = Cardinality(Naming(turned, law))
                  /\ IsExplicit(all, law) <=> IsExplicit(turned, law)
    BY <1>1, <2>10, <2>12, SameCount
  <2>14. Summary(turned, again) /\ Len(turned) \in Nat
    BY <2>10, CandidatesAre, LenProperties DEF turned
  <2> HIDE DEF again
  <2>15. ASSUME NEW j \in 1 .. Len(candidates)
         PROVE  \E l \in 1 .. Len(again) :
                   /\ again[l].law = candidates[j].law
                   /\ again[l].evidenceCount = candidates[j].evidenceCount
                   /\ (again[l].status = "explicit") <=> (candidates[j].status = "explicit")
    <3>1. PICK d \in 1 .. Len(all) : candidates[j].law = all[d].law
      BY <1>1 DEF Summary
    <3>2. h[d] \in 1 .. Len(turned) /\ turned[h[d]] = all[d]
      BY <2>12 DEF SamePlaces
    <3>3. PICK l \in 1 .. Len(again) : again[l].law = turned[h[d]].law
      BY <2>14, <3>2 DEF Summary
    <3>4. again[l].law = candidates[j].law
      BY <3>1, <3>2, <3>3
    <3>5. again[l].evidenceCount = Cardinality(Naming(turned, again[l].law))
          /\ ((again[l].status = "explicit") <=> IsExplicit(turned, again[l].law))
      BY <2>14 DEF Summary
    <3>6. candidates[j].evidenceCount = Cardinality(Naming(all, candidates[j].law))
          /\ ((candidates[j].status = "explicit") <=> IsExplicit(all, candidates[j].law))
      BY <1>1 DEF Summary
    <3> QED
      BY <2>13, <3>4, <3>5, <3>6
  <2>16. ASSUME NEW l \in 1 .. Len(again)
         PROVE  \E j \in 1 .. Len(candidates) :
                   /\ again[l].law = candidates[j].law
                   /\ again[l].evidenceCount = candidates[j].evidenceCount
                   /\ (again[l].status = "explicit") <=> (candidates[j].status = "explicit")
    <3>1. PICK c \in 1 .. Len(turned) : again[l].law = turned[c].law
      BY <2>14 DEF Summary
    <3>2. PICK d \in 1 .. Len(all) : h[d] = c
      BY <2>12 DEF SamePlaces
    <3>3. turned[c] = all[d]
      BY <2>12, <3>2 DEF SamePlaces
    <3>4. PICK j \in 1 .. Len(candidates) : candidates[j].law = all[d].law
      BY <1>1 DEF Summary
    <3>5. again[l].law = candidates[j].law
      BY <3>1, <3>3, <3>4
    <3>6. again[l].evidenceCount = Cardinality(Naming(turned, again[l].law))
          /\ ((again[l].status = "explicit") <=> IsExplicit(turned, again[l].law))
      BY <2>14 DEF Summary
    <3>7. candidates[j].evidenceCount = Cardinality(Naming(all, candidates[j].law))
          /\ ((candidates[j].status = "explicit") <=> IsExplicit(all, candidates[j].law))
      BY <1>1 DEF Summary
    <3> QED
      BY <2>13, <3>5, <3>6, <3>7
  <2>17. PICK f \in 1 .. Len(again) :
             /\ again[f].law = candidates[k].law /\ again[f].evidenceCount = candidates[k].evidenceCount
             /\ again[f].status = "explicit"
    BY <2>5, <2>15
  <2>18. Len(again) \in Nat /\ Len(again) # 0
    <3>1. Len(again) \in Nat
      BY <2>14 DEF Summary
    <3> QED
      BY <3>1
  <2>19. PICK o \in 1 .. Len(again) :
             /\ RuleBasedFallback(again) =
                    [law |-> again[o].law, status |-> again[o].status,
                     confidence |-> again[o].confidence, by |-> "rules"]
             /\ (\E j \in 1 .. Len(again) : again[j].status = "explicit") =>
                   /\ again[o].status = "explicit"
                   /\ \A j \in 1 .. Len(again) : again[j].status = "explicit" =>
                         again[j].evidenceCount <= again[o].evidenceCount
    BY <2>14, <2>18, FallbackIs
  <2>20. /\ other.law = again[o].law /\ again[o].status = "explicit"
         /\ again[f].evidenceCount <= again[o].evidenceCount
    BY <2>17, <2>19
  <2>21. PICK j \in 1 .. Len(candidates) :
             /\ again[o].law = candidates[j].law /\ again[o].evidenceCount = candidates[j].evidenceCount
             /\ candidates[j].status = "explicit"
    BY <2>16, <2>20
  <2>22. candidates[j].evidenceCount <= candidates[k].evidenceCount
         /\ candidates[k].evidenceCount <= candidates[j].evidenceCount
    BY <2>5, <2>17, <2>20, <2>21
  <2>23. candidates[j].evidenceCount \in Nat /\ candidates[k].evidenceCount \in Nat
    <3>1. candidates[j].evidenceCount \in 0 .. Len(all) /\ candidates[k].evidenceCount \in 0 .. Len(all)
      BY <1>1 DEF Summary
    <3> QED
      BY <3>1
  <2>24. candidates[j].evidenceCount = candidates[k].evidenceCount
    BY <2>22, <2>23
  <2>25. ASSUME NEW i \in 1 .. Len(candidates) PROVE mentions(candidates[i].law) = candidates[i].evidenceCount
    <3> DEFINE c == CHOOSE c \in DOMAIN candidates : candidates[c].law = candidates[i].law
    <3>1. c \in 1 .. Len(candidates) /\ candidates[c].law = candidates[i].law
      BY <1>1
    <3> HIDE DEF c
    <3>2. c = i
      BY <1>1, <3>1 DEF Summary
    <3>3. mentions(candidates[i].law) = candidates[c].evidenceCount
      BY DEF c
    <3> QED
      BY <3>2, <3>3
  <2> HIDE DEF mentions, other
  <2> QED
    BY <2>5, <2>20, <2>21, <2>24, <2>25
<1> QED
  BY <1>4, <1>5 DEF EvidenceDecides

LEMMA HintsAreFounded == Founded => HintsAreCurated
<1> SUFFICES ASSUME Founded PROVE HintsAreCurated
  OBVIOUS
<1>1. CASE retrieved = <<>> /\ hints = <<>>
  <2>1. Len(hints) = 0 /\ DOMAIN hints = {} /\ DOMAIN retrieved = {}
    BY <1>1
  <2> QED
    BY <2>1 DEF HintsAreCurated
<1>2. CASE /\ retrieved \in LegalChunkLists /\ cited \in CitationLists
           /\ hints = NormalizeStatuteHints(DeriveStatuteHints(retrieved, cited))
  <2>1. Curated(retrieved, hints)
    BY <1>2, NormalizedHints
  <2> QED
    BY <2>1 DEF Curated, Usable, HintsAreCurated
<1> QED
  BY <1>1, <1>2 DEF Founded

LEMMA FoundedIsTyped == Founded => LawTypeOK
<1> SUFFICES ASSUME Founded PROVE LawTypeOK
  OBVIOUS
<1>1. Unresolved.status = "unknown" /\ Unresolved.confidence = 0
  BY DEF Unresolved
<1>2. ASSUME lawStep = "resolved", candidates # <<>>, resolved = RuleBasedFallback(candidates)
      PROVE  resolved.status \in {"explicit", "inferred"} /\ resolved.confidence \in 0 .. 100
  <2>1. Summary(AllEvidence(lawFiles), candidates) /\ Len(AllEvidence(lawFiles)) \in Nat
    BY <1>2, FoundedCandidates
  <2>2. Len(candidates) # 0
    <3>1. Len(candidates) \in Nat /\ candidates = [k \in 1 .. Len(candidates) |-> candidates[k]]
      BY <2>1 DEF Summary
    <3>2. Len(candidates) = 0 => candidates = <<>>
      BY <3>1
    <3> QED
      BY <1>2, <3>2
  <2>3. PICK k \in 1 .. Len(candidates) :
            RuleBasedFallback(candidates) =
                [law |-> candidates[k].law, status |-> candidates[k].status,
                 confidence |-> candidates[k].confidence, by |-> "rules"]
    BY <2>1, <2>2, FallbackIs
  <2>4. candidates[k].status \in {"explicit", "inferred"} /\ candidates[k].confidence \in {40, 50, 60, 90}
    BY <2>1 DEF Summary
  <2> QED
    BY <1>2, <2>3, <2>4
<1>3. /\ lawStep \in {"files", "asking", "resolved"}
      /\ resolved.status \in {"explicit", "inferred", "unknown"} /\ resolved.confidence \in 0 .. 100
  <2>1. CASE resolved = Unresolved
    BY <1>1, <2>1 DEF Founded
  <2>2. CASE resolved # Unresolved
    BY <1>2, <2>2 DEF Founded
  <2> QED
    BY <2>1, <2>2
<1>4. \A i \in DOMAIN hints : hints[i] \in Hints
  <2>1. CASE hints = <<>>
    BY <2>1
  <2>2. CASE /\ retrieved \in LegalChunkLists /\ cited \in CitationLists
             /\ hints = NormalizeStatuteHints(DeriveStatuteHints(retrieved, cited))
    BY <2>2, NormalizedHints DEF Curated
  <2> QED
    BY <2>1, <2>2 DEF Founded
<1> QED
  BY <1>3, <1>4 DEF LawTypeOK

LEMMA RankingIsFounded == Founded => RankingPromotes
<1> SUFFICES ASSUME Founded PROVE RankingPromotes
  OBVIOUS
<1>1. CASE ranked = <<>> /\ retrieved = <<>>
  <2>1. DOMAIN ranked = {} /\ DOMAIN retrieved = {} /\ Len(ranked) = Len(retrieved)
    BY <1>1
  <2> QED
    BY <2>1 DEF RankingPromotes
<1>2. CASE retrieved \in LegalChunkLists /\ ranked = RerankLegalByActMention(retrieved, mentioned)
  <2>1. Promoted(retrieved, mentioned, ranked)
    BY <1>2, Reranked
  <2> QED
    BY <2>1 DEF Promoted, RankingPromotes
<1> QED
  BY <1>1, <1>2 DEF Founded

(* Whatever the files say, the corpus returns and the model answers: the   *)
(* explicit law of a text (resolveExplicit) is a candidate, evidence ends  *)
(* in a law, the order of the files decides only between laws mentioned    *)
(* as often (ruleBasedFallback), the hints are two at most and differ, and *)
(* the ranking promotes what the documents mention and loses nothing.      *)
THEOREM LawFounded == LawSpec => []LawIsFounded
<1>1. Founded /\ [LawNext]_lawVars => Founded'
  BY FoundedStep
<1>2. Founded => LawIsFounded
  BY ExplicitIsFounded, EvidenceIsFounded, HintsAreFounded, RankingIsFounded DEF LawIsFounded
<1> QED
  BY <1>1, <1>2, FoundedInit, PTL DEF LawSpec

(* Whatever the files and the model say, the evaluation ends in one of the *)
(* three statuses with a confidence, and the web search is given names of  *)
(* acts.                                                                   *)
THEOREM LawTypes == LawSpec => []LawTypeOK
<1>1. Founded /\ [LawNext]_lawVars => Founded'
  BY FoundedStep
<1> QED
  BY <1>1, FoundedInit, FoundedIsTyped, PTL DEF LawSpec
=============================================================================
