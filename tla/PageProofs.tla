----------------------------- MODULE PageProofs -----------------------------
(***************************************************************************)
(* Proofs about the pages and the accounts behind them: what each keeps    *)
(* by itself, and then all of them over the behaviours that show one at a  *)
(* time.                                                                   *)
(***************************************************************************)
EXTENDS MCPages, FiniteSetTheorems, WellFoundedInduction, TLAPS

-----------------------------------------------------------------------------
(* Answers read aloud.                                                     *)
Sounding == [at : Slots \cup {Nothing}, st : {"unmade", "starting", "sounding", "rejected", "over"}]
SlotStates == [audioState : {"none", "synthesizing", "ready", "playing"}, audioUrl : BOOLEAN]

SpeechInv == SpeechTypeOK /\ HeardIsReachable

\* The elements once the one that sounds is stopped: none is heard.
LEMMA CurrentStops ==
  ASSUME SpeechTypeOK
  PROVE  /\ WithoutCurrent \in [Sounds -> Sounding]
         /\ \A a \in Sounds :
                WithoutCurrent[a].st \in {"starting", "sounding"} => a \in Audible /\ a # currentAudio
<1>1. sound \in [Sounds -> Sounding] /\ currentAudio \in Sounds \cup {Nothing} /\ Nothing \notin Sounds
  BY SlotsAssumption DEF SpeechTypeOK, Sounding
<1>2. CASE currentAudio = Nothing
  BY <1>1, <1>2 DEF WithoutCurrent, Audible
<1>3. CASE currentAudio \in Sounds
  <2>1. PICK e : e = Stopped(currentAudio)
    OBVIOUS
  <2>2. PICK c : c = sound[currentAudio]
    OBVIOUS
  <2>3. c \in Sounding
    BY <1>1, <1>3, <2>2
  <2>4. e = [c EXCEPT !.st = IF @ = "starting" THEN "rejected" ELSE "over"]
    BY <2>1, <2>2 DEF Stopped
  <2>5. e \in Sounding /\ e.st \in {"rejected", "over"}
    BY ONLY <2>3, <2>4 DEF Sounding
  <2>6. WithoutCurrent = [sound EXCEPT ![currentAudio] = e]
    BY <1>1, <1>3, <2>1 DEF WithoutCurrent
  <2> QED
    BY <1>1, <1>3, <2>5, <2>6 DEF Audible
<1> QED
  BY <1>1, <1>2, <1>3

\* A press of play, in a list of messages of the same shape.
LEMMA PlayKeeps ==
  ASSUME SpeechInv, NEW index \in Slots, NEW messages \in [Slots -> SlotStates], Plays(index, messages),
         synthesis' \in Slots \cup {Nothing}, UNCHANGED <<interrupted, switches>>
  PROVE  SpeechInv'
<1>1. PICK a \in Sounds :
          /\ sound[a].st = "unmade"
          /\ sound' = [WithoutCurrent EXCEPT ![a] = [at |-> index, st |-> "starting"]]
          /\ currentAudio' = a /\ playingMessageIndex' = index
          /\ spoken' = [messages EXCEPT ![index].audioState = "playing"]
  BY DEF Plays
<1>2. WithoutCurrent \in [Sounds -> Sounding]
      /\ \A b \in Sounds : WithoutCurrent[b].st \in {"starting", "sounding"} => b \in Audible /\ b # currentAudio
  BY CurrentStops DEF SpeechInv
<1>3. PICK e : e = [at |-> index, st |-> "starting"]
  OBVIOUS
<1>4. e \in Sounding
  BY <1>3 DEF Sounding
<1>5. sound' \in [Sounds -> Sounding] /\ \A b \in Sounds : b # a => sound'[b] = WithoutCurrent[b]
  BY <1>1, <1>2, <1>3, <1>4
<1>6. spoken' \in [Slots -> SlotStates]
  <2>1. PICK m : m = messages[index]
    OBVIOUS
  <2>2. PICK p : p = [m EXCEPT !.audioState = "playing"]
    OBVIOUS
  <2>3. m \in SlotStates
    BY <2>1
  <2>4. p \in SlotStates
    BY ONLY <2>2, <2>3 DEF SlotStates
  <2>5. spoken' = [messages EXCEPT ![index] = p]
    BY <1>1, <2>1, <2>2
  <2> QED
    BY <2>4, <2>5
<1>7. SpeechTypeOK'
  BY <1>1, <1>5, <1>6 DEF SpeechInv, SpeechTypeOK, Sounding, SlotStates
<1>8. HeardIsReachable'
  BY <1>1, <1>2, <1>5 DEF SpeechInv, HeardIsReachable, Audible
<1> QED
  BY <1>7, <1>8 DEF SpeechInv

\* A message that shows its audio otherwise.
LEMMA ShowsKeeps ==
  ASSUME SpeechTypeOK, NEW index \in Slots, NEW audio \in {"none", "synthesizing", "ready", "playing"}
  PROVE  Shows(index, audio) \in [Slots -> SlotStates]
<1>1. PICK m : m = spoken[index]
  OBVIOUS
<1>2. PICK p : p = [m EXCEPT !.audioState = audio]
  OBVIOUS
<1>3. spoken \in [Slots -> SlotStates]
  BY DEF SpeechTypeOK, SlotStates
<1>4. m \in SlotStates
  BY <1>1, <1>3
<1>5. p \in SlotStates
  BY ONLY <1>2, <1>4, audio \in {"none", "synthesizing", "ready", "playing"} DEF SlotStates
<1>6. Shows(index, audio) = [spoken EXCEPT ![index] = p]
  BY <1>1, <1>2 DEF Shows
<1> QED
  BY <1>3, <1>5, <1>6

\* An element that is no longer heard, or only begins to be.
LEMMA ElementKeeps ==
  ASSUME SpeechTypeOK, NEW a \in Sounds, NEW st \in {"sounding", "over"},
         sound' = [sound EXCEPT ![a].st = st]
  PROVE  /\ sound' \in [Sounds -> Sounding]
         /\ sound'[a].st = st /\ \A b \in Sounds : b # a => sound'[b] = sound[b]
<1>1. PICK m : m = sound[a]
  OBVIOUS
<1>2. PICK p : p = [m EXCEPT !.st = st]
  OBVIOUS
<1>3. sound \in [Sounds -> Sounding]
  BY DEF SpeechTypeOK, Sounding
<1>4. m \in Sounding
  BY <1>1, <1>3
<1>5. p \in Sounding /\ p.st = st
  BY ONLY <1>2, <1>4, st \in {"sounding", "over"} DEF Sounding
<1>6. sound' = [sound EXCEPT ![a] = p]
  BY <1>1, <1>2
<1> QED
  BY <1>3, <1>5, <1>6

LEMMA SpeechInitial == SpeechInit => SpeechInv
<1> SUFFICES ASSUME SpeechInit PROVE SpeechInv
  OBVIOUS
<1>1. Silent \in SlotStates /\ [Silent EXCEPT !.audioState = "ready", !.audioUrl = TRUE] \in SlotStates
  BY DEF Silent, SlotStates
<1>2. Unmade \in Sounding /\ Unmade.st = "unmade"
  BY DEF Unmade, Sounding
<1>3. spoken \in [Slots -> SlotStates] /\ sound \in [Sounds -> Sounding] /\ \A a \in Sounds : sound[a].st = "unmade"
  BY <1>1, <1>2 DEF SpeechInit
<1>4. switches \in 0 .. Switches
  BY SpeechAssumption DEF SpeechInit
<1> QED
  BY <1>3, <1>4 DEF SpeechInit, SpeechInv, SpeechTypeOK, HeardIsReachable, Audible, SlotStates, Sounding

LEMMA SpeechStep == SpeechInv /\ [SpeechNext]_speechVars => SpeechInv'
<1> SUFFICES ASSUME SpeechInv, [SpeechNext]_speechVars PROVE SpeechInv'
  OBVIOUS
<1>0. SpeechTypeOK /\ HeardIsReachable /\ spoken \in [Slots -> SlotStates] /\ sound \in [Sounds -> Sounding]
  BY DEF SpeechInv, SpeechTypeOK, SlotStates, Sounding
<1>1. ASSUME NEW index \in Slots, PlayMessageAudio(index) PROVE SpeechInv'
  <2>1. synthesis' \in Slots \cup {Nothing}
    BY <1>0, <1>1 DEF SpeechTypeOK, PlayMessageAudio
  <2> QED
    BY <1>0, <1>1, <2>1, PlayKeeps DEF PlayMessageAudio
<1>2. ASSUME NEW index \in Slots, PauseMessageAudio(index) PROVE SpeechInv'
  <2>1. spoken' \in [Slots -> SlotStates] /\ sound' = WithoutCurrent
    BY <1>0, <1>2, ShowsKeeps DEF PauseMessageAudio
  <2>2. SpeechTypeOK'
    BY <1>0, <1>2, <2>1, CurrentStops DEF PauseMessageAudio, SpeechTypeOK, SlotStates, Sounding
  <2>3. HeardIsReachable'
    BY <1>0, <1>2, <2>1, CurrentStops DEF PauseMessageAudio, HeardIsReachable, Audible
  <2> QED
    BY <2>2, <2>3 DEF SpeechInv
<1>3. ASSUME NEW index \in Slots, Synthesize(index) PROVE SpeechInv'
  <2>1. PICK s : s = Shows(index, "synthesizing")
    OBVIOUS
  <2>2. s \in [Slots -> SlotStates]
    BY <1>0, <2>1, ShowsKeeps
  <2>3. spoken' \in [Slots -> SlotStates]
    <3>1. CASE synthesis = Nothing
      BY <1>3, <2>1, <2>2, <3>1 DEF Synthesize
    <3>2. CASE synthesis \in Slots
      <4>1. PICK p : p = [s[synthesis] EXCEPT !.audioState = "none"]
        OBVIOUS
      <4>2. s[synthesis] \in SlotStates
        BY <2>2, <3>2
      <4>3. p \in SlotStates
        BY ONLY <4>1, <4>2 DEF SlotStates
      <4>4. spoken' = [s EXCEPT ![synthesis] = p]
        BY <1>3, <2>1, <3>2, <4>1, SlotsAssumption DEF Synthesize
      <4> QED
        BY <2>2, <4>3, <4>4
    <3> QED
      BY <1>0, <3>1, <3>2 DEF SpeechTypeOK
  <2> QED
    BY <1>0, <1>3, <2>3 DEF Synthesize, SpeechInv, SpeechTypeOK, HeardIsReachable, Audible, SlotStates
<1>4. ASSUME Synthesized PROVE SpeechInv'
  <2>1. synthesis \in Slots
    BY <1>0, <1>4 DEF Synthesized, SpeechTypeOK
  <2>2. PICK messages : messages = [spoken EXCEPT ![synthesis] = [audioState |-> "ready", audioUrl |-> TRUE]]
    OBVIOUS
  <2>3. messages \in [Slots -> SlotStates]
    BY <1>0, <2>1, <2>2 DEF SlotStates
  <2>4. Plays(synthesis, messages) /\ synthesis' = Nothing /\ UNCHANGED <<interrupted, switches>>
    BY <1>4, <2>2 DEF Synthesized
  <2> QED
    BY <2>1, <2>3, <2>4, PlayKeeps
<1>5. ASSUME SynthesisFails PROVE SpeechInv'
  <2>1. spoken' \in [Slots -> SlotStates]
    BY <1>0, <1>5, ShowsKeeps DEF SynthesisFails, SpeechTypeOK
  <2> QED
    BY <1>0, <1>5, <2>1 DEF SynthesisFails, SpeechInv, SpeechTypeOK, HeardIsReachable, Audible, SlotStates
<1>6. ASSUME NEW a \in Sounds, Starts(a) PROVE SpeechInv'
  <2>1. /\ sound' \in [Sounds -> Sounding]
        /\ \A b \in Sounds : b # a => sound'[b] = sound[b]
    BY <1>0, <1>6, ElementKeeps DEF Starts
  <2> QED
    BY <1>0, <1>6, <2>1 DEF Starts, SpeechInv, SpeechTypeOK, HeardIsReachable, Audible, Sounding
<1>7. ASSUME NEW a \in Sounds, ResetState(a), interrupted' \in BOOLEAN,
             ~interrupted' => ~interrupted /\ (a \in Audible \/ currentAudio \in {a, Nothing})
      PROVE  SpeechInv'
  <2>1. /\ sound' \in [Sounds -> Sounding]
        /\ sound'[a].st = "over" /\ \A b \in Sounds : b # a => sound'[b] = sound[b]
    BY <1>0, <1>7, ElementKeeps DEF ResetState
  <2>2. spoken' \in [Slots -> SlotStates]
    <3>1. CASE sound[a].at \in Slots
      BY <1>0, <1>7, <3>1, ShowsKeeps DEF ResetState
    <3>2. CASE sound[a].at = Nothing
      BY <1>0, <1>7, <3>2, SlotsAssumption DEF ResetState, Shows
    <3> QED
      BY <1>0, <3>1, <3>2 DEF Sounding
  <2>3. SpeechTypeOK'
    BY <1>0, <1>7, <2>1, <2>2 DEF ResetState, SpeechTypeOK, SlotStates, Sounding
  <2>4. HeardIsReachable'
    BY <1>0, <1>7, <2>1, SlotsAssumption DEF ResetState, HeardIsReachable, Audible
  <2> QED
    BY <2>3, <2>4 DEF SpeechInv
<1>8. ASSUME SelectOtherThread PROVE SpeechInv'
  <2>1. Silent \in SlotStates
    BY DEF Silent, SlotStates
  <2>2. switches' \in 0 .. Switches
    BY <1>0, <1>8, SpeechAssumption DEF SelectOtherThread, SpeechTypeOK
  <2> QED
    BY <1>0, <1>8, <2>1, <2>2
    DEF SelectOtherThread, SpeechInv, SpeechTypeOK, HeardIsReachable, Audible, SlotStates
<1>9. CASE UNCHANGED speechVars
  BY <1>0, <1>9 DEF speechVars, SpeechInv, SpeechTypeOK, HeardIsReachable, Audible
<1>10. ASSUME NEW a \in Sounds, Ends(a) \/ PlayRejected(a) PROVE SpeechInv'
  <2>1. /\ ResetState(a) /\ interrupted' \in BOOLEAN
        /\ ~interrupted' => ~interrupted /\ (a \in Audible \/ currentAudio \in {a, Nothing})
    BY <1>0, <1>10 DEF Ends, PlayRejected, Audible, SpeechTypeOK
  <2> QED
    BY <2>1, <1>7
<1> QED
  BY <1>1, <1>2, <1>3, <1>4, <1>5, <1>6, <1>8, <1>9, <1>10 DEF SpeechNext

-----------------------------------------------------------------------------
(* A question spoken.                                                      *)

\* The recorder runs while it is shown, and is inactive until it has stopped;
\* without a stream there is none.
RecorderFollows ==
    /\ mediaRecorder = "recording" => voiceRecording
    /\ mediaRecorder = "inactive" => stopping
    /\ mediaStream = NoStream => mediaRecorder = "none"

VoiceInv == VoiceTypeOK /\ MicrophoneIsHeld /\ (~overlapped => RecorderFollows)

VoiceTyped ==
    /\ mic \in [MicRequests -> {"unasked", "asking", "live", "ended"}]
    /\ mediaStream \in MicRequests \cup {NoStream} /\ mediaRecorder \in {"none", "recording", "inactive"}
    /\ stopping \in BOOLEAN /\ voiceRecording \in BOOLEAN /\ voiceTranscribing \in BOOLEAN
    /\ autoSend \in BOOLEAN /\ voicePage \in BOOLEAN /\ overlapped \in BOOLEAN
    /\ question \in {"empty", "spoken"}
    /\ sent \in {"none", "sent", "answered"}

\* Both forms of the type invariant say the same.
LEMMA VoiceTypes == (VoiceTypeOK <=> VoiceTyped) /\ (VoiceTypeOK' <=> VoiceTyped')
BY DEF VoiceTypeOK, VoiceTyped

\* The stream the service holds is given back.
LEMMA CleanupKeeps ==
  ASSUME VoiceTyped, Cleanup
  PROVE  /\ mic' \in [MicRequests -> {"unasked", "asking", "live", "ended"}]
         /\ mediaStream' = NoStream /\ mediaRecorder' = "none"
         /\ Live' = Live \ {mediaStream}
BY DEF VoiceTyped, Cleanup, Live

LEMMA VoiceInitial == VoiceInit => VoiceInv
<1> SUFFICES ASSUME VoiceInit PROVE VoiceInv
  OBVIOUS
<1>1. VoiceTyped
  BY DEF VoiceInit, VoiceTyped
<1> QED
  BY <1>1, VoiceTypes DEF VoiceInit, VoiceInv, MicrophoneIsHeld, RecorderFollows, Live

LEMMA VoiceStep == VoiceInv /\ [VoiceNext]_voiceVars => VoiceInv'
<1> SUFFICES ASSUME VoiceInv, [VoiceNext]_voiceVars PROVE VoiceInv'
  OBVIOUS
<1>0. VoiceTyped /\ MicrophoneIsHeld /\ (~overlapped => RecorderFollows)
  BY VoiceTypes DEF VoiceInv
<1>a. SUFFICES VoiceTyped' /\ MicrophoneIsHeld' /\ (~overlapped' => RecorderFollows')
  BY VoiceTypes DEF VoiceInv
<1>1. ASSUME NEW p \in MicRequests, StartRecording(p) \/ MicrophoneDenied(p)
      PROVE  VoiceTyped' /\ MicrophoneIsHeld' /\ (~overlapped' => RecorderFollows')
  <2>1. VoiceTyped' /\ Live' = Live
    BY <1>0, <1>1 DEF StartRecording, MicrophoneDenied, VoiceTyped, Live
  <2> QED
    BY <1>0, <1>1, <2>1 DEF StartRecording, MicrophoneDenied, MicrophoneIsHeld, RecorderFollows
<1>2. ASSUME NEW p \in MicRequests, MicrophoneGranted(p)
      PROVE  VoiceTyped' /\ MicrophoneIsHeld' /\ (~overlapped' => RecorderFollows')
  <2>1. mic' \in [MicRequests -> {"unasked", "asking", "live", "ended"}] /\ Live' = Live \cup {p}
    BY <1>0, <1>2 DEF MicrophoneGranted, VoiceTyped, Live
  <2>2. overlapped' \in BOOLEAN /\ (~overlapped' => ~overlapped /\ mediaStream = NoStream /\ voicePage)
    BY <1>0, <1>2 DEF MicrophoneGranted, VoiceTyped
  <2>3. VoiceTyped'
    BY <1>0, <1>2, <2>1, <2>2 DEF MicrophoneGranted, VoiceTyped
  <2>4. MicrophoneIsHeld'
    BY <1>0, <1>2, <2>1, <2>2, StreamAssumption DEF MicrophoneGranted, MicrophoneIsHeld, Live
  <2>5. ~overlapped' => RecorderFollows'
    BY <1>0, <1>2, <2>2, StreamAssumption DEF MicrophoneGranted, RecorderFollows
  <2> QED
    BY <2>3, <2>4, <2>5
<1>3. ASSUME StopRecording
      PROVE  VoiceTyped' /\ MicrophoneIsHeld' /\ (~overlapped' => RecorderFollows')
  BY <1>0, <1>3 DEF StopRecording, VoiceTyped, MicrophoneIsHeld, RecorderFollows, Live
<1>4. ASSUME RecorderStopped \/ RecorderFails
      PROVE  VoiceTyped' /\ MicrophoneIsHeld' /\ (~overlapped' => RecorderFollows')
  <2>1. /\ Cleanup /\ UNCHANGED <<voiceRecording, overlapped, voicePage, autoSend, question>>
        /\ stopping' \in BOOLEAN /\ voiceTranscribing' \in BOOLEAN /\ sent' \in {"none", "sent", "answered"}
    BY <1>0, <1>4 DEF RecorderStopped, RecorderFails, VoiceTyped
  <2>2. VoiceTyped'
    BY <1>0, <2>1, CleanupKeeps DEF VoiceTyped
  <2> QED
    BY <1>0, <2>1, <2>2, CleanupKeeps, StreamAssumption DEF MicrophoneIsHeld, RecorderFollows
<1>5. ASSUME Transcribed \/ TranscriptionFails
      PROVE  VoiceTyped' /\ MicrophoneIsHeld' /\ (~overlapped' => RecorderFollows')
  BY <1>0, <1>5 DEF Transcribed, TranscriptionFails, VoiceTyped, MicrophoneIsHeld, RecorderFollows, Live
<1>6. ASSUME LeavePage
      PROVE  VoiceTyped' /\ MicrophoneIsHeld' /\ (~overlapped' => RecorderFollows')
  <2>1. overlapped' \in BOOLEAN
        /\ (~overlapped' => ~overlapped /\ (mediaStream = NoStream \/ mediaRecorder # "none"))
    BY <1>0, <1>6 DEF LeavePage, VoiceTyped
  <2>2. UNCHANGED <<stopping, voiceTranscribing, question, autoSend>> /\ voicePage' = FALSE
        /\ sent' \in {"none", "sent", "answered"}
    BY <1>0, <1>6 DEF LeavePage, VoiceTyped
  <2>3. CASE voiceRecording
    <3>1. Cleanup /\ voiceRecording' = FALSE
      BY <1>6, <2>3 DEF LeavePage
    <3> QED
      BY <1>0, <2>1, <2>2, <3>1, CleanupKeeps, StreamAssumption DEF VoiceTyped, MicrophoneIsHeld, RecorderFollows
  <2>4. CASE ~voiceRecording
    <3>1. UNCHANGED <<mic, mediaStream, mediaRecorder, voiceRecording>>
      BY <1>6, <2>4 DEF LeavePage
    <3>2. VoiceTyped' /\ Live' = Live
      BY <1>0, <2>1, <2>2, <3>1 DEF VoiceTyped, Live
    <3>3. ~overlapped' => mediaStream = NoStream \/ stopping
      BY <1>0, <2>1, <2>4 DEF RecorderFollows, VoiceTyped
    <3>4. ~overlapped /\ mediaStream = NoStream => Live = {}
      BY <1>0, StreamAssumption DEF MicrophoneIsHeld, Live
    <3> QED
      BY <1>0, <2>1, <2>2, <3>1, <3>2, <3>3, <3>4 DEF MicrophoneIsHeld, RecorderFollows
  <2> QED
    BY <2>3, <2>4
<1>7. CASE UNCHANGED voiceVars
  BY <1>0, <1>7 DEF voiceVars, VoiceTyped, MicrophoneIsHeld, RecorderFollows, Live
<1> QED
  BY <1>1, <1>2, <1>3, <1>4, <1>5, <1>6, <1>7 DEF VoiceNext

-----------------------------------------------------------------------------
(* The page of the workspaces.                                             *)
UrlsOrNone == LogoUrls \cup {NoUrl}
WorkLists == [st : {"asked", "read"}, rows : SUBSET Works, nr : 0 .. WorkSteps]
WorkCalls == [op : {"create", "delete"}, work : Works, st : {"sent", "done"}]
LogoLoads == [work : Works, prev : UrlsOrNone, nr : 0 .. WorkSteps]

WorksTyped ==
    /\ works \in [Works -> {"unborn", "there", "gone"}]
    /\ cards \subseteq Works /\ doubled \subseteq Works /\ uploadingLogo \subseteq Works
    /\ workLists \subseteq WorkLists /\ workCalls \subseteq WorkCalls
    /\ logoUrls \in [Works -> UrlsOrNone] /\ logoLoads \subseteq LogoLoads
    /\ url \in [LogoUrls -> {"unmade", "live", "revoked"}]
    /\ busyWorks \in BOOLEAN /\ worksOpen \in BOOLEAN /\ listFailed \in BOOLEAN
    /\ workSteps \in 0 .. WorkSteps

\* Both forms of the type invariant say the same.
LEMMA WorksTypes == (WorksTypeOK <=> WorksTyped) /\ (WorksTypeOK' <=> WorksTyped')
BY DEF WorksTypeOK, WorksTyped, WorkLists, WorkCalls, LogoLoads, UrlsOrNone

\* A load revokes what its own workspace showed: an object URL is made for one
\* workspace, and no other shows it or will revoke it.
LogosAreOwn ==
    /\ \A w, v \in Works : w # v /\ logoUrls[w] # NoUrl => logoUrls[w] # logoUrls[v]
    /\ \A l \in logoLoads :
           l.prev # NoUrl => /\ url[l.prev] # "unmade"
                             /\ \A w \in Works : w # l.work => logoUrls[w] # l.prev
    /\ \A w \in Works : logoUrls[w] # NoUrl => url[logoUrls[w]] # "unmade"

WorksInv == WorksTypeOK /\ LogosAreOwn /\ LogosShownAreAlive /\ TwiceOnlyUntilReload

LEMMA WorksInitial == WorksInit => WorksInv
<1> SUFFICES ASSUME WorksInit PROVE WorksInv
  OBVIOUS
<1>1. workLists \subseteq WorkLists /\ workSteps \in 0 .. WorkSteps
  BY WorksAssumption DEF WorksInit, WorkLists
<1>2. WorksTyped
  BY <1>1 DEF WorksInit, WorksTyped, UrlsOrNone
<1> QED
  BY <1>2, WorksTypes DEF WorksInit, WorksInv, LogosAreOwn, LogosShownAreAlive, TwiceOnlyUntilReload

\* What the loads that are asked for now will revoke is what is shown now.
LEMMA LogoAsksKeeps ==
  ASSUME WorksTyped, LogosAreOwn, NEW ws \in SUBSET Works, LogoAsks(ws), UNCHANGED <<logoUrls, url>>
  PROVE  logoLoads' \subseteq LogoLoads /\ LogosAreOwn'
<1> DEFINE L(w) == [work |-> w, prev |-> logoUrls[w], nr |-> workSteps]
<1>1. \A w \in ws : L(w) \in LogoLoads /\ L(w).work = w /\ L(w).prev = logoUrls[w]
  BY DEF WorksTyped, LogoLoads
<1>2. logoLoads' = logoLoads \cup {L(w) : w \in ws}
  BY DEF LogoAsks
<1> HIDE DEF L
<1>3. logoLoads' \subseteq LogoLoads
  BY <1>1, <1>2 DEF WorksTyped
<1>4. \A l \in logoLoads' : l \in logoLoads \/ \E w \in ws : l.work = w /\ l.prev = logoUrls[w]
  BY <1>1, <1>2
<1>5. LogosAreOwn'
  BY <1>4 DEF LogosAreOwn
<1> QED
  BY <1>3, <1>5

\* A load takes the URL its workspace had, and gives it a new one or none.
LEMMA LogoLoadedKeeps ==
  ASSUME WorksInv, NEW l \in logoLoads, NEW b \in UrlsOrNone, LogoLoaded(l, b)
  PROVE  WorksInv'
<1>0. WorksTyped /\ l \in LogoLoads /\ NoUrl \notin LogoUrls
  BY WorksTypes, UrlAssumption DEF WorksInv, WorksTyped
<1>1. l.work \in Works /\ l.prev \in UrlsOrNone
  BY <1>0 DEF LogoLoads
<1>2. /\ b # NoUrl => b \in LogoUrls /\ url[b] = "unmade"
      /\ logoLoads' \subseteq logoLoads
      /\ UNCHANGED <<works, cards, doubled, workLists, workCalls, busyWorks, uploadingLogo, worksOpen,
                     listFailed, workSteps>>
  BY <1>0 DEF LogoLoaded, UrlsOrNone
<1>3. /\ logoUrls' \in [Works -> UrlsOrNone] /\ logoUrls'[l.work] = b
      /\ \A w \in Works : w # l.work => logoUrls'[w] = logoUrls[w]
  BY <1>0, <1>1 DEF LogoLoaded, LogoShown, WorksTyped
<1>4. /\ url' \in [LogoUrls -> {"unmade", "live", "revoked"}] /\ (b # NoUrl => url'[b] = "live")
      /\ \A u \in LogoUrls : u # b /\ u # l.prev => url'[u] = url[u]
      /\ \A u \in LogoUrls : url[u] # "unmade" => url'[u] # "unmade"
  BY <1>0, <1>1, <1>2 DEF LogoLoaded, LogoShown, Revoking, WorksTyped, UrlsOrNone
<1>5. WorksTyped'
  BY <1>0, <1>2, <1>3, <1>4 DEF WorksTyped
<1>6. \A w \in Works : w # l.work /\ logoUrls[w] # NoUrl => logoUrls[w] # b /\ logoUrls[w] # l.prev
  <2>1. l.prev # NoUrl => \A w \in Works : w # l.work => logoUrls[w] # l.prev
    BY DEF WorksInv, LogosAreOwn
  <2>2. \A w \in Works : logoUrls[w] # NoUrl => url[logoUrls[w]] # "unmade"
    BY DEF WorksInv, LogosAreOwn
  <2> QED
    BY <2>1, <2>2, <1>2
<1>7. \A w \in Works : w # l.work /\ logoUrls'[w] # NoUrl => url'[logoUrls'[w]] = url[logoUrls[w]]
  BY <1>0, <1>3, <1>4, <1>6 DEF WorksTyped, UrlsOrNone
<1>8. LogosShownAreAlive'
  BY <1>2, <1>3, <1>4, <1>7 DEF WorksInv, LogosShownAreAlive
<1>9. LogosAreOwn'
  <2>1. \A w, v \in Works : w # v /\ logoUrls'[w] # NoUrl => logoUrls'[w] # logoUrls'[v]
    BY <1>3, <1>6 DEF WorksInv, LogosAreOwn
  <2>2. ASSUME NEW k \in logoLoads', k.prev # NoUrl
        PROVE  url'[k.prev] # "unmade" /\ \A w \in Works : w # k.work => logoUrls'[w] # k.prev
    <3>1. k \in logoLoads /\ k.prev \in LogoUrls /\ url[k.prev] # "unmade"
          /\ \A w \in Works : w # k.work => logoUrls[w] # k.prev
      BY <1>0, <1>2, <2>2 DEF WorksInv, LogosAreOwn, WorksTyped, LogoLoads, UrlsOrNone
    <3>2. k.prev # b
      BY <1>2, <2>2, <3>1
    <3> QED
      BY <1>3, <1>4, <3>1, <3>2
  <2>3. \A w \in Works : logoUrls'[w] # NoUrl => url'[logoUrls'[w]] # "unmade"
    BY <1>3, <1>4, <1>7 DEF WorksInv, LogosAreOwn
  <2> QED
    BY <2>1, <2>2, <2>3 DEF LogosAreOwn
<1>10. TwiceOnlyUntilReload'
  BY <1>2 DEF WorksInv, TwiceOnlyUntilReload
<1> QED
  BY <1>5, <1>8, <1>9, <1>10, WorksTypes DEF WorksInv

\* A step that leaves the logos alone.
LEMMA LogosUntouched ==
  ASSUME WorksInv, UNCHANGED logoVars, worksOpen' = worksOpen
  PROVE  LogosAreOwn' /\ LogosShownAreAlive'
BY DEF WorksInv, LogosAreOwn, LogosShownAreAlive, logoVars

LEMMA WorksStep == WorksInv /\ [WorksNext]_workVars => WorksInv'
<1> SUFFICES ASSUME WorksInv, [WorksNext]_workVars PROVE WorksInv'
  OBVIOUS
<1>0. WorksTyped /\ LogosAreOwn /\ LogosShownAreAlive /\ TwiceOnlyUntilReload /\ WorkSteps \in Nat
  BY WorksTypes, WorksAssumption DEF WorksInv
<1>a. SUFFICES WorksTyped' /\ LogosAreOwn' /\ LogosShownAreAlive' /\ TwiceOnlyUntilReload'
  BY WorksTypes DEF WorksInv
<1>b. WorkStep => workSteps' \in 0 .. WorkSteps
  BY <1>0 DEF WorkStep, WorksTyped
<1>1. ASSUME NEW l \in workLists, WorksRead(l)
      PROVE  WorksTyped' /\ LogosAreOwn' /\ LogosShownAreAlive' /\ TwiceOnlyUntilReload'
  <2>1. PICK n : n = [l EXCEPT !.st = "read", !.rows = There]
    OBVIOUS
  <2>2. l \in WorkLists /\ There \in SUBSET Works
    BY <1>0 DEF WorksTyped, There
  <2>3. n \in WorkLists
    BY ONLY <2>1, <2>2 DEF WorkLists
  <2>4. workLists' = (workLists \ {l}) \cup {n}
        /\ UNCHANGED <<works, cards, doubled, workCalls, busyWorks, uploadingLogo, logoVars, worksOpen, listFailed,
                       workSteps>>
    BY <1>1, <2>1 DEF WorksRead
  <2>5. LogosAreOwn' /\ LogosShownAreAlive'
    BY <2>4, LogosUntouched
  <2> QED
    BY <1>0, <2>3, <2>4, <2>5 DEF WorksTyped, TwiceOnlyUntilReload, logoVars
<1>2. ASSUME NEW l \in workLists, WorksAnswer(l)
      PROVE  WorksTyped' /\ LogosAreOwn' /\ LogosShownAreAlive' /\ TwiceOnlyUntilReload'
  <2>1. l.rows \in SUBSET Works
    BY <1>0 DEF WorksTyped, WorkLists
  <2>2. logoLoads' \subseteq LogoLoads /\ LogosAreOwn'
    BY <1>0, <1>2, <2>1, LogoAsksKeeps DEF WorksAnswer
  <2> QED
    BY <1>0, <1>2, <2>1, <2>2 DEF WorksAnswer, WorksTyped, LogosShownAreAlive, TwiceOnlyUntilReload
<1>3. ASSUME NEW l \in workLists, WorksFail(l)
      PROVE  WorksTyped' /\ LogosAreOwn' /\ LogosShownAreAlive' /\ TwiceOnlyUntilReload'
  BY <1>0, <1>b, <1>3, LogosUntouched DEF WorksFail, WorksTyped, TwiceOnlyUntilReload, logoVars
<1>4. ASSUME NEW w \in Works, NEW op \in {"create", "delete"}, SendWork(op, w)
      PROVE  WorksTyped' /\ LogosAreOwn' /\ LogosShownAreAlive' /\ TwiceOnlyUntilReload'
  <2>1. [op |-> op, work |-> w, st |-> "sent"] \in WorkCalls
    BY DEF WorkCalls
  <2>2. workCalls' \subseteq WorkCalls
    BY <1>0, <1>4, <2>1 DEF SendWork, WorksTyped
  <2> QED
    BY <1>0, <1>b, <1>4, <2>2, LogosUntouched DEF SendWork, WorksTyped, TwiceOnlyUntilReload, logoVars
<1>5. ASSUME NEW c \in workCalls, ServeWork(c)
      PROVE  WorksTyped' /\ LogosAreOwn' /\ LogosShownAreAlive' /\ TwiceOnlyUntilReload'
  <2>1. PICK n : n = [c EXCEPT !.st = "done"]
    OBVIOUS
  <2>2. c \in WorkCalls
    BY <1>0 DEF WorksTyped
  <2>3. n \in WorkCalls
    BY ONLY <2>1, <2>2 DEF WorkCalls
  <2>4. workCalls' \subseteq WorkCalls
    BY <1>0, <1>5, <2>1, <2>3 DEF ServeWork, WorksTyped
  <2>5. works' \in [Works -> {"unborn", "there", "gone"}]
    BY <1>0, <1>5 DEF ServeWork, WorksTyped
  <2> QED
    BY <1>0, <1>5, <2>4, <2>5, LogosUntouched DEF ServeWork, WorksTyped, TwiceOnlyUntilReload, logoVars
<1>6. ASSUME NEW c \in workCalls, Created(c) \/ Deleted(c)
      PROVE  WorksTyped' /\ LogosAreOwn' /\ LogosShownAreAlive' /\ TwiceOnlyUntilReload'
  <2>1. AList \in WorkLists /\ c.work \in Works
    BY <1>0 DEF WorksTyped, WorkLists, WorkCalls, AList
  <2>2. /\ workLists' = workLists \cup {AList} /\ workCalls' \subseteq workCalls /\ busyWorks' = FALSE
        /\ cards' \subseteq Works /\ doubled' \subseteq Works
        /\ UNCHANGED <<works, uploadingLogo, logoVars, worksOpen, listFailed, workSteps>>
    BY <1>0, <1>6, <2>1 DEF Created, Deleted, WorksTyped
  <2>3. LogosAreOwn' /\ LogosShownAreAlive'
    BY <2>2, LogosUntouched
  <2> QED
    BY <1>0, <2>1, <2>2, <2>3 DEF WorksTyped, TwiceOnlyUntilReload, logoVars
<1>7. ASSUME NEW c \in workCalls, WorkFails(c)
      PROVE  WorksTyped' /\ LogosAreOwn' /\ LogosShownAreAlive' /\ TwiceOnlyUntilReload'
  BY <1>0, <1>b, <1>7, LogosUntouched DEF WorkFails, WorksTyped, TwiceOnlyUntilReload, logoVars
<1>8. ASSUME NEW w \in Works, OnWorkspaceLogoSelected(w)
      PROVE  WorksTyped' /\ LogosAreOwn' /\ LogosShownAreAlive' /\ TwiceOnlyUntilReload'
  BY <1>0, <1>b, <1>8, LogosUntouched DEF OnWorkspaceLogoSelected, WorksTyped, TwiceOnlyUntilReload, logoVars
<1>9. ASSUME NEW w \in Works, LogoUploaded(w)
      PROVE  WorksTyped' /\ LogosAreOwn' /\ LogosShownAreAlive' /\ TwiceOnlyUntilReload'
  <2>1. logoLoads' \subseteq LogoLoads /\ LogosAreOwn'
    <3>1. CASE LogoAsks({w})
      BY <1>0, <1>9, <3>1, LogoAsksKeeps DEF LogoUploaded
    <3>2. CASE UNCHANGED logoLoads
      BY <1>0, <1>9, <3>2 DEF LogoUploaded, LogosAreOwn, WorksTyped
    <3> QED
      BY <1>9, <3>1, <3>2 DEF LogoUploaded
  <2> QED
    BY <1>0, <1>9, <2>1 DEF LogoUploaded, WorksTyped, LogosShownAreAlive, TwiceOnlyUntilReload
<1>10. ASSUME LeaveWorks
      PROVE  WorksTyped' /\ LogosAreOwn' /\ LogosShownAreAlive' /\ TwiceOnlyUntilReload'
  <2>1. /\ url' \in [LogoUrls -> {"unmade", "live", "revoked"}]
        /\ \A u \in LogoUrls : url[u] # "unmade" => url'[u] # "unmade"
    BY <1>0, <1>10 DEF LeaveWorks, WorksTyped
  <2>2. LogosAreOwn'
    BY <1>0, <1>10, <2>1 DEF LeaveWorks, LogosAreOwn, WorksTyped, LogoLoads, UrlsOrNone
  <2> QED
    BY <1>0, <1>10, <2>1, <2>2 DEF LeaveWorks, WorksTyped, LogosShownAreAlive, TwiceOnlyUntilReload
<1>11. CASE UNCHANGED workVars
  BY <1>0, <1>11 DEF workVars, logoVars, WorksTyped, LogosAreOwn, LogosShownAreAlive, TwiceOnlyUntilReload
<1>12. ASSUME NEW w \in Works, OnCreate(w) \/ DeleteWorkspace(w)
      PROVE  WorksTyped' /\ LogosAreOwn' /\ LogosShownAreAlive' /\ TwiceOnlyUntilReload'
  BY <1>4, <1>12 DEF OnCreate, DeleteWorkspace
<1>13. ASSUME NEW l \in logoLoads, NEW b \in LogoUrls \cup {NoUrl}, LogoLoaded(l, b)
      PROVE  WorksTyped' /\ LogosAreOwn' /\ LogosShownAreAlive' /\ TwiceOnlyUntilReload'
  BY <1>13, LogoLoadedKeeps, WorksTypes DEF WorksInv, UrlsOrNone
<1> QED
  BY <1>1, <1>2, <1>3, <1>5, <1>6, <1>7, <1>8, <1>9, <1>10, <1>11, <1>12, <1>13 DEF WorksNext

-----------------------------------------------------------------------------
(* The user who is signed in.                                              *)
Someone == [id : Persons \cup {NoOne}, custom : BOOLEAN]
Profiles == [custom : BOOLEAN, threshold : Choices]
Pages == 0 .. AccountSteps
AccountRequests ==
    [nr : 1 .. AccountSteps, op : {"refresh", "upload", "remove", "save", "load"}, by : Persons,
     page : Pages, st : {"sent", "answered"}, seen : Someone, value : Choices \cup {NoChoice}]
Downloads == [for : {"sidebar", "page"}, page : Pages, nr : Pages]

TabTyped ==
    /\ profiles \in [Persons -> Profiles]
    /\ token \in Persons \cup {NoOne} /\ storedUser \in Someone /\ currentUser \in Someone
    /\ requests \subseteq AccountRequests /\ downloads \subseteq Downloads
    /\ blob \in [Blobs -> {"unmade", "live", "revoked"}]
    /\ sidebarBlob \in Blobs \cup {NoBlob} /\ pageBlob \in Blobs \cup {NoBlob}
    /\ settingsPage \in Pages /\ pageUser \in Someone
    /\ chatPreferencesLoading \in BOOLEAN /\ chatSaving \in BOOLEAN
    /\ twice \in BOOLEAN /\ tardy \in BOOLEAN /\ abandoned \in BOOLEAN /\ wrong \in BOOLEAN
    /\ similarityThreshold \in Choices \cup {NoChoice} /\ picked \in Choices \cup {NoChoice}
    /\ accountSteps \in Pages

\* Both forms of the type invariant say the same.
LEMMA TabTypes == (ClientAccountTypeOK <=> TabTyped) /\ (ClientAccountTypeOK' <=> TabTyped')
BY DEF ClientAccountTypeOK, TabTyped, Someone, Profiles, Pages, AccountRequests, Downloads

\* An answer is about who asked, and what is saved is a choice.
RequestsBear ==
    \A r \in requests :
        /\ r.st = "answered" => r.seen.id = r.by
        /\ r.op = "save" => r.value \in Choices

\* The preferences come once, before anything is chosen.
LoadsLead ==
    /\ settingsPage = NoPage => Loading = {}
    /\ ~twice =>
           /\ \A p, q \in Loading : p = q
           /\ Loading # {} => chatPreferencesLoading /\ picked = NoChoice
           /\ picked \in {NoChoice, similarityThreshold}

PageIsSigned == settingsPage # NoPage => token # NoOne

TabParts ==
    RequestsBear /\ LoadsLead /\ PageIsSigned /\ ShownIsSignedIn /\ AvatarsAreHeld /\ ChoiceIsSaved
TabInv == TabTyped /\ TabParts

LEMMA TabInitial == ClientAccountInit => TabInv
<1> SUFFICES ASSUME ClientAccountInit PROVE TabInv
  OBVIOUS
<1>1. profiles \in [Persons -> Profiles]
  <2>1. (CHOOSE c \in Choices : TRUE) \in Choices
    BY ClientAccountAssumption
  <2> QED
    BY <2>1 DEF ClientAccountInit, Profiles
<1>2. NoUser \in Someone /\ NoUser.id = NoOne
  BY DEF NoUser, Someone
<1>3. accountSteps \in Pages /\ settingsPage \in Pages
  BY ClientAccountAssumption DEF ClientAccountInit, Pages, NoPage
<1>4. TabTyped
  BY <1>1, <1>2, <1>3 DEF ClientAccountInit, TabTyped
<1> QED
  BY <1>2, <1>4 DEF ClientAccountInit, TabInv, TabParts, RequestsBear, LoadsLead, PageIsSigned, Loading,
     ShownIsSignedIn, AvatarsAreHeld, Alive, ChoiceIsSaved

LEMMA Steps ==
  ASSUME TabTyped, AccountStep
  PROVE  accountSteps' \in Pages /\ accountSteps' \in 1 .. AccountSteps
BY ClientAccountAssumption DEF TabTyped, AccountStep, Pages

\* A request of who is signed in.
LEMMA AskingIs ==
  ASSUME TabTyped, AccountStep, token' \in Persons,
         NEW op \in {"refresh", "upload", "remove", "save", "load"}, NEW page \in Pages
  PROVE  /\ Asking(op, page) \in AccountRequests
         /\ Asking(op, page).st = "sent" /\ Asking(op, page).op = op
         /\ Asking(op, page).value = similarityThreshold
<1>1. NoUser \in Someone
  BY DEF NoUser, Someone
<1> QED
  BY <1>1, Steps DEF TabTyped, Asking, AccountRequests

\* What the sidebar begins to load for a user it is given.
LEMMA ShownKeeps ==
  ASSUME NEW user \in Someone, NEW others \in SUBSET Downloads, Shown(user, others)
  PROVE  currentUser' = user /\ sidebarBlob' = NoBlob /\ downloads' \subseteq Downloads
<1>1. 0 \in Pages
  BY ClientAccountAssumption DEF Pages
<1>2. [for |-> "sidebar", page |-> NoPage, nr |-> 0] \in Downloads
  BY <1>1 DEF Downloads, NoPage
<1> QED
  BY <1>2 DEF Shown

\* Object URLs that are given back.
LEMMA RevokedKeeps ==
  ASSUME TabTyped, NEW held \in SUBSET (Blobs \cup {NoBlob})
  PROVE  /\ Revoked(held) \in [Blobs -> {"unmade", "live", "revoked"}]
         /\ \A b \in Blobs : Revoked(held)[b] = "live" <=> b \in Alive \ held
         /\ \A b \in Blobs : b \notin held => Revoked(held)[b] = blob[b]
BY DEF TabTyped, Revoked, Alive

\* Who gives back what he holds no longer.
LEMMA HoldsStill ==
  ASSUME TabInv, NEW held \in SUBSET (Blobs \cup {NoBlob}), blob' = Revoked(held), abandoned' = abandoned,
         sidebarBlob' \in {sidebarBlob, NoBlob}, pageBlob' \in {pageBlob, NoBlob},
         sidebarBlob' # sidebarBlob => sidebarBlob \in held,
         pageBlob' # pageBlob => pageBlob \in held
  PROVE  AvatarsAreHeld' /\ blob' \in [Blobs -> {"unmade", "live", "revoked"}]
<1>1. Alive' = Alive \ held
  BY RevokedKeeps DEF Alive, TabInv
<1>2. Alive \subseteq Blobs /\ NoBlob \notin Blobs
  BY ClientNames DEF Alive
<1>3. AvatarsAreHeld'
  BY <1>1, <1>2 DEF TabInv, TabParts, AvatarsAreHeld, Held
<1> QED
  BY <1>3, RevokedKeeps DEF TabInv

\* A user as the server has him.
LEMMA UserIs ==
  ASSUME TabTyped, NEW p \in Persons
  PROVE  User(p) \in Someone /\ User(p).id = p
<1>1. profiles[p] \in Profiles
  BY DEF TabTyped
<1> QED
  BY <1>1 DEF User, Someone, Profiles

LEMMA LoginKeeps ==
  ASSUME TabInv, NEW p \in Persons, Login(p)
  PROVE  TabInv'
<1>0. TabTyped /\ p # NoOne
  BY ClientNames DEF TabInv
<1>1. User(p) \in Someone /\ User(p).id = p
  BY <1>0, UserIs
<1>2. currentUser' = User(p) /\ sidebarBlob' = NoBlob /\ downloads' \subseteq Downloads
  BY <1>0, <1>1, ShownKeeps DEF Login, TabTyped
<1>3. accountSteps' \in Pages
  BY <1>0, Steps DEF Login
<1>4. AvatarsAreHeld' /\ blob' \in [Blobs -> {"unmade", "live", "revoked"}]
  BY <1>0, <1>2, HoldsStill DEF Login, TabTyped
<1>5. TabTyped'
  BY <1>0, <1>1, <1>2, <1>3, <1>4 DEF Login, TabTyped, formState
<1> QED
  BY <1>0, <1>1, <1>2, <1>4, <1>5 DEF Login, TabInv, TabParts, formState, RequestsBear, LoadsLead, Loading,
     PageIsSigned, ShownIsSignedIn, ChoiceIsSaved

LEMMA LogoutKeeps ==
  ASSUME TabInv, Logout
  PROVE  TabInv'
<1>0. TabTyped
  BY DEF TabInv
<1>1. NoUser \in Someone /\ NoUser.id = NoOne
  BY DEF NoUser, Someone
<1>2. currentUser' = NoUser /\ sidebarBlob' = NoBlob /\ downloads' \subseteq Downloads
  BY <1>0, <1>1, ShownKeeps DEF Logout, TabTyped
<1>3. AvatarsAreHeld' /\ blob' \in [Blobs -> {"unmade", "live", "revoked"}]
  BY <1>0, <1>2, HoldsStill DEF Logout, TabTyped
<1>4. NoPage \in Pages
  BY ClientAccountAssumption DEF Pages, NoPage
<1>5. TabTyped'
  BY <1>0, <1>1, <1>2, <1>3, <1>4 DEF Logout, TabTyped, formState, WithoutLoads
<1> QED
  BY <1>0, <1>1, <1>2, <1>3, <1>5 DEF Logout, TabInv, TabParts, formState, RequestsBear, LoadsLead, Loading,
     WithoutLoads, PageIsSigned, ShownIsSignedIn, ChoiceIsSaved

LEMMA ReloadKeeps ==
  ASSUME TabInv, NEW expired \in BOOLEAN, Reload(expired)
  PROVE  TabInv'
<1>0. TabTyped
  BY DEF TabInv
<1>1. NoUser \in Someone /\ NoUser.id = NoOne
  BY DEF NoUser, Someone
<1>2. /\ token' \in Persons \cup {NoOne} /\ storedUser' \in Someone
      /\ ~tardy => storedUser'.id = token'
  BY <1>0, <1>1 DEF Reload, TabTyped, TabInv, TabParts, ShownIsSignedIn
<1>3. currentUser' = storedUser' /\ sidebarBlob' = NoBlob /\ downloads' \subseteq Downloads
  BY <1>2, ShownKeeps DEF Reload
<1>4. accountSteps' \in Pages /\ NoPage \in Pages
  BY <1>0, Steps, ClientAccountAssumption DEF Reload, Pages, NoPage
<1>5. requests' \subseteq AccountRequests /\ \A r \in requests' : r.op = "refresh" /\ r.st = "sent"
  BY <1>0, <1>2, <1>4, AskingIs DEF Reload
<1>6. blob' \in [Blobs -> {"unmade", "live", "revoked"}] /\ Alive' = {}
  BY <1>0 DEF Reload, TabTyped, Alive
<1>7. TabTyped'
  BY <1>0, <1>2, <1>3, <1>4, <1>5, <1>6 DEF Reload, TabTyped, formState
<1>8. LoadsLead'
  BY <1>5 DEF Reload, TabInv, TabParts, LoadsLead, Loading, formState
<1> QED
  BY <1>0, <1>2, <1>3, <1>5, <1>6, <1>7, <1>8 DEF Reload, TabInv, TabParts, formState, RequestsBear,
     PageIsSigned, ShownIsSignedIn, AvatarsAreHeld, ChoiceIsSaved

\* What the server makes of a profile, and the answer it gives.
LEMMA ServeMakes ==
  ASSUME TabInv, NEW r \in requests, Serve(r)
  PROVE  /\ profiles' \in [Persons -> Profiles]
         /\ \E n \in AccountRequests :
                /\ requests' = (requests \ {r}) \cup {n}
                /\ n.op = r.op /\ n.by = r.by /\ n.seen.id = r.by /\ n.value \in Choices
<1>0. TabTyped /\ r \in AccountRequests /\ r.by \in Persons
  BY DEF TabInv, TabTyped, AccountRequests
<1>1. PICK f : f = profiles[r.by]
  OBVIOUS
<1>2. PICK g : g = CASE r.op = "upload" -> [f EXCEPT !.custom = TRUE]
                     [] r.op = "remove" -> [f EXCEPT !.custom = FALSE]
                     [] r.op = "save"   -> [f EXCEPT !.threshold = r.value]
                     [] OTHER -> f
  OBVIOUS
<1>3. f \in Profiles
  BY <1>0, <1>1 DEF TabTyped
<1>4. r.op = "save" => r.value \in Choices
  BY DEF TabInv, TabParts, RequestsBear
<1>5. g \in Profiles
  <2>1. CASE r.op = "upload"
    <3>1. g = [f EXCEPT !.custom = TRUE]
      BY <1>2, <2>1
    <3> QED
      BY ONLY <3>1, <1>3 DEF Profiles
  <2>2. CASE r.op = "remove"
    <3>1. g = [f EXCEPT !.custom = FALSE]
      BY <1>2, <2>2
    <3> QED
      BY ONLY <3>1, <1>3 DEF Profiles
  <2>3. CASE r.op = "save"
    <3>1. g = [f EXCEPT !.threshold = r.value] /\ r.value \in Choices
      BY <1>2, <1>4, <2>3
    <3> QED
      BY ONLY <3>1, <1>3 DEF Profiles
  <2>4. CASE r.op \notin {"upload", "remove", "save"}
    BY <1>2, <1>3, <2>4
  <2> QED
    BY <2>1, <2>2, <2>3, <2>4
<1>6. profiles' = [profiles EXCEPT ![r.by] = g]
  BY <1>1, <1>2 DEF Serve
<1>7. profiles' \in [Persons -> Profiles] /\ profiles'[r.by] = g
  BY <1>0, <1>5, <1>6 DEF TabTyped
<1>8. PICK n : n = [r EXCEPT !.st = "answered", !.seen = [id |-> r.by, custom |-> g.custom],
                             !.value = g.threshold]
  OBVIOUS
<1>9. g.custom \in BOOLEAN /\ g.threshold \in Choices
  BY <1>5 DEF Profiles
<1>10. PICK seen : seen = [id |-> r.by, custom |-> g.custom]
  OBVIOUS
<1>11. seen \in Someone /\ seen.id = r.by
  BY ONLY <1>0, <1>9, <1>10 DEF Someone
<1>12. n = [r EXCEPT !.st = "answered", !.seen = seen, !.value = g.threshold]
  BY <1>8, <1>10
<1>13. n \in AccountRequests /\ n.op = r.op /\ n.by = r.by /\ n.seen = seen /\ n.value = g.threshold
  BY ONLY <1>0, <1>9, <1>11, <1>12 DEF AccountRequests
<1>14. requests' = (requests \ {r}) \cup {n}
  BY <1>7, <1>8 DEF Serve
<1> QED
  BY <1>7, <1>9, <1>11, <1>13, <1>14

LEMMA ServeKeeps ==
  ASSUME TabInv, NEW r \in requests, Serve(r)
  PROVE  TabInv'
<1>0. TabTyped
  BY DEF TabInv
<1>1. PICK n \in AccountRequests :
          /\ requests' = (requests \ {r}) \cup {n}
          /\ n.op = r.op /\ n.by = r.by /\ n.seen.id = r.by /\ n.value \in Choices
  BY ServeMakes
<1>2. /\ profiles' \in [Persons -> Profiles]
      /\ UNCHANGED <<token, storedUser, currentUser, downloads, blob, sidebarBlob, pageBlob, settingsPage,
                     formState, twice, tardy, abandoned, wrong, accountSteps>>
  BY ServeMakes DEF Serve
<1>3. TabTyped'
  BY <1>0, <1>1, <1>2 DEF TabTyped, formState
<1>4. RequestsBear'
  BY <1>1 DEF TabInv, TabParts, RequestsBear
<1>5. LoadsLead'
  <2>1. \A q \in Loading' : (q \in Loading /\ q # r) \/ (q = n /\ r \in Loading)
    BY <1>1 DEF Loading
  <2> QED
    BY <1>2, <2>1 DEF TabInv, TabParts, LoadsLead, formState
<1>6. ShownIsSignedIn' /\ AvatarsAreHeld' /\ PageIsSigned' /\ ChoiceIsSaved'
  BY <1>2 DEF TabInv, TabParts, ShownIsSignedIn, AvatarsAreHeld, Alive, Held, PageIsSigned, ChoiceIsSaved
<1> QED
  BY <1>3, <1>4, <1>5, <1>6 DEF TabInv, TabParts

LEMMA UserAnswersKeeps ==
  ASSUME TabInv, NEW r \in requests, UserAnswers(r)
  PROVE  TabInv'
<1>0. TabTyped /\ r \in AccountRequests /\ r.seen \in Someone /\ r.seen.id = r.by
  BY DEF TabInv, TabTyped, AccountRequests, TabParts, RequestsBear, UserAnswers
<1> DEFINE others == downloads \cup {[for |-> "page", page |-> r.page, nr |-> n] :
                         n \in IF r.op \in {"upload", "remove"} /\ r.seen.custom THEN {r.nr} ELSE {}}
<1>1. others \subseteq Downloads
  <2>1. r.page \in Pages /\ r.nr \in Pages
    BY <1>0, ClientAccountAssumption DEF AccountRequests, Pages
  <2>2. [for |-> "page", page |-> r.page, nr |-> r.nr] \in Downloads
    BY <2>1 DEF Downloads
  <2> QED
    BY <1>0, <2>2 DEF TabTyped
<1>2. currentUser' = r.seen /\ sidebarBlob' = NoBlob /\ downloads' \subseteq Downloads
  BY <1>0, <1>1, ShownKeeps DEF UserAnswers
<1>3. /\ requests' = requests \ {r} /\ storedUser' = r.seen
      /\ pageUser' \in {r.seen, pageUser} /\ chatSaving' \in BOOLEAN
      /\ tardy' \in BOOLEAN /\ (~tardy' => ~tardy /\ r.by = token)
      /\ r.op # "load"
      /\ UNCHANGED <<profiles, token, settingsPage, chatPreferencesLoading, similarityThreshold, picked,
                     twice, abandoned, wrong, accountSteps>>
  BY <1>0 DEF UserAnswers, TabTyped
<1>4. PICK held \in SUBSET (Blobs \cup {NoBlob}) :
          /\ blob' = Revoked(held) /\ sidebarBlob \in held
          /\ \/ pageBlob' = NoBlob /\ pageBlob \in held
             \/ pageBlob' = pageBlob
  <2> DEFINE none == r.op \in {"upload", "remove"} /\ (settingsPage # NoPage /\ r.page = settingsPage)
                     /\ ~r.seen.custom
  <2>1. CASE none
    BY <1>0, <2>1 DEF UserAnswers, TabTyped
  <2>2. CASE ~none
    BY <1>0, <2>2 DEF UserAnswers, TabTyped
  <2> QED
    BY <2>1, <2>2
<1>5. AvatarsAreHeld' /\ blob' \in [Blobs -> {"unmade", "live", "revoked"}]
  BY <1>2, <1>3, <1>4, HoldsStill
<1>6. TabTyped'
  BY <1>0, <1>2, <1>3, <1>4, <1>5 DEF TabTyped
<1>7. Loading' = Loading
  BY <1>3 DEF Loading
<1>8. RequestsBear' /\ LoadsLead' /\ PageIsSigned' /\ ShownIsSignedIn' /\ ChoiceIsSaved'
  BY <1>0, <1>2, <1>3, <1>7 DEF TabInv, TabParts, RequestsBear, LoadsLead, PageIsSigned, ShownIsSignedIn,
     ChoiceIsSaved
<1> QED
  BY <1>5, <1>6, <1>8 DEF TabInv, TabParts

LEMMA RequestFailsKeeps ==
  ASSUME TabInv, NEW r \in requests, RequestFails(r)
  PROVE  TabInv'
<1>0. TabTyped
  BY DEF TabInv
<1>1. TabTyped'
  BY <1>0 DEF RequestFails, TabTyped
<1>2. LoadsLead'
  <2>1. Loading' = Loading \ {r} /\ (r.op = "load" <=> r \in Loading)
    BY DEF RequestFails, Loading
  <2> QED
    BY <1>0, <2>1 DEF RequestFails, TabInv, TabParts, LoadsLead, TabTyped
<1>3. RequestsBear' /\ PageIsSigned' /\ ShownIsSignedIn' /\ AvatarsAreHeld' /\ ChoiceIsSaved'
  BY DEF RequestFails, TabInv, TabParts, RequestsBear, PageIsSigned, ShownIsSignedIn, AvatarsAreHeld, Alive,
     Held, ChoiceIsSaved
<1> QED
  BY <1>1, <1>2, <1>3 DEF TabInv, TabParts

-----------------------------------------------------------------------------
\* A step of the page that sends one request of its own.
LEMMA SendsKeep ==
  ASSUME TabInv, AccountStep, token # NoOne, NEW page \in Pages,
         NEW op \in {"upload", "remove", "save", "load"},
         op = "save" => similarityThreshold \in Choices,
         UNCHANGED <<token, profiles, storedUser, currentUser, blob, sidebarBlob, pageBlob, tardy,
                     abandoned>>,
         requests' = requests \cup {Asking(op, page)}
  PROVE  /\ requests' \subseteq AccountRequests /\ RequestsBear' /\ ShownIsSignedIn' /\ AvatarsAreHeld'
         /\ accountSteps' \in 1 .. AccountSteps /\ accountSteps' \in Pages
         /\ op # "load" => Loading' = Loading
         /\ op = "load" => Loading' = Loading \cup {Asking(op, page)}
<1>0. TabTyped /\ token' \in Persons
  BY DEF TabInv, TabTyped
<1>1. PICK n : n = Asking(op, page)
  OBVIOUS
<1>2. n \in AccountRequests /\ n.st = "sent" /\ n.op = op /\ n.value = similarityThreshold
  BY <1>0, <1>1, AskingIs
<1>3. requests' \subseteq AccountRequests /\ RequestsBear'
  BY <1>0, <1>1, <1>2 DEF TabTyped, TabInv, TabParts, RequestsBear
<1>4. ShownIsSignedIn' /\ AvatarsAreHeld'
  BY DEF TabInv, TabParts, ShownIsSignedIn, AvatarsAreHeld, Alive, Held
<1>5. (op # "load" => Loading' = Loading) /\ (op = "load" => Loading' = Loading \cup {n})
  BY <1>1, <1>2 DEF Loading
<1> QED
  BY <1>0, <1>1, <1>3, <1>4, <1>5, Steps

LEMMA OpenSettingsKeeps ==
  ASSUME TabInv, OpenSettings
  PROVE  TabInv'
<1>0. TabTyped /\ Loading = {}
  BY DEF TabInv, TabParts, LoadsLead, OpenSettings
<1>1. accountSteps' \in Pages /\ accountSteps' \in 1 .. AccountSteps
  BY <1>0, Steps DEF OpenSettings
<1>2. /\ requests' \subseteq AccountRequests /\ RequestsBear' /\ ShownIsSignedIn' /\ AvatarsAreHeld'
      /\ Loading' = {Asking("load", accountSteps')}
  BY <1>0, <1>1, SendsKeep DEF OpenSettings
<1>3. downloads' \subseteq Downloads
  <2>1. [for |-> "page", page |-> accountSteps', nr |-> accountSteps'] \in Downloads
    BY <1>1 DEF Downloads
  <2> QED
    BY <1>0, <2>1 DEF OpenSettings, TabTyped
<1>4. TabTyped'
  BY <1>0, <1>1, <1>2, <1>3 DEF OpenSettings, TabTyped
<1>5. LoadsLead'
  <2>1. settingsPage' # NoPage
    BY <1>1, ClientAccountAssumption DEF OpenSettings, NoPage
  <2> QED
    BY <1>2, <2>1 DEF OpenSettings, LoadsLead
<1>6. PageIsSigned' /\ ChoiceIsSaved'
  BY DEF OpenSettings, TabInv, TabParts, PageIsSigned, ChoiceIsSaved
<1> QED
  BY <1>2, <1>4, <1>5, <1>6 DEF TabInv, TabParts

LEMMA LeaveSettingsKeeps ==
  ASSUME TabInv, LeaveSettings
  PROVE  TabInv'
<1>0. TabTyped
  BY DEF TabInv
<1>1. AvatarsAreHeld' /\ blob' \in [Blobs -> {"unmade", "live", "revoked"}]
  BY <1>0, HoldsStill DEF LeaveSettings, TabTyped
<1>2. NoPage \in Pages
  BY ClientAccountAssumption DEF Pages, NoPage
<1>3. TabTyped'
  BY <1>0, <1>1, <1>2 DEF LeaveSettings, TabTyped, formState, WithoutLoads
<1> QED
  BY <1>1, <1>3 DEF LeaveSettings, TabInv, TabParts, formState, RequestsBear, LoadsLead, Loading,
     WithoutLoads, PageIsSigned, ShownIsSignedIn, ChoiceIsSaved

LEMMA SelectChatTabKeeps ==
  ASSUME TabInv, SelectChatTab
  PROVE  TabInv'
<1>0. TabTyped /\ token # NoOne /\ settingsPage \in Pages
  BY DEF TabInv, TabTyped, TabParts, PageIsSigned, SelectChatTab
<1>1. /\ requests' \subseteq AccountRequests /\ RequestsBear' /\ ShownIsSignedIn' /\ AvatarsAreHeld'
      /\ accountSteps' \in Pages
      /\ Loading' = Loading \cup {Asking("load", settingsPage)}
  BY <1>0, SendsKeep DEF SelectChatTab
<1>2. twice' \in BOOLEAN /\ (~twice' => ~twice /\ Loading = {})
  BY <1>0 DEF SelectChatTab, TabTyped
<1>3. TabTyped'
  BY <1>0, <1>1, <1>2 DEF SelectChatTab, TabTyped
<1>4. LoadsLead'
  BY <1>1, <1>2 DEF SelectChatTab, LoadsLead
<1>5. PageIsSigned' /\ ChoiceIsSaved'
  BY DEF SelectChatTab, TabInv, TabParts, PageIsSigned, ChoiceIsSaved
<1> QED
  BY <1>1, <1>3, <1>4, <1>5 DEF TabInv, TabParts

LEMMA SaveKeeps ==
  ASSUME TabInv, SaveChatPreferences
  PROVE  TabInv'
<1>0. TabTyped /\ token # NoOne /\ settingsPage \in Pages /\ similarityThreshold \in Choices
  BY DEF TabInv, TabTyped, TabParts, PageIsSigned, SaveChatPreferences
<1>1. /\ requests' \subseteq AccountRequests /\ RequestsBear' /\ ShownIsSignedIn' /\ AvatarsAreHeld'
      /\ accountSteps' \in Pages /\ Loading' = Loading
  BY <1>0, SendsKeep DEF SaveChatPreferences
<1>2. ~twice => picked \in {NoChoice, similarityThreshold}
  BY DEF TabInv, TabParts, LoadsLead
<1>3. wrong' = FALSE
  BY <1>0, <1>2 DEF SaveChatPreferences, TabInv, TabParts, ChoiceIsSaved, TabTyped
<1>4. TabTyped'
  BY <1>0, <1>1, <1>3 DEF SaveChatPreferences, TabTyped
<1>5. LoadsLead' /\ PageIsSigned' /\ ChoiceIsSaved'
  BY <1>1, <1>3 DEF SaveChatPreferences, TabInv, TabParts, LoadsLead, PageIsSigned, ChoiceIsSaved
<1> QED
  BY <1>1, <1>4, <1>5 DEF TabInv, TabParts

LEMMA ChangeAvatarKeeps ==
  ASSUME TabInv, NEW op \in {"upload", "remove"}, ChangeAvatar(op)
  PROVE  TabInv'
<1>0. TabTyped /\ token # NoOne /\ settingsPage \in Pages
  BY DEF TabInv, TabTyped, TabParts, PageIsSigned, ChangeAvatar
<1>1. /\ requests' \subseteq AccountRequests /\ RequestsBear' /\ ShownIsSignedIn' /\ AvatarsAreHeld'
      /\ accountSteps' \in Pages /\ Loading' = Loading
  BY <1>0, SendsKeep DEF ChangeAvatar
<1>2. TabTyped'
  BY <1>0, <1>1 DEF ChangeAvatar, TabTyped, formState
<1>3. LoadsLead' /\ PageIsSigned' /\ ChoiceIsSaved'
  BY <1>1 DEF ChangeAvatar, TabInv, TabParts, LoadsLead, PageIsSigned, ChoiceIsSaved, formState
<1> QED
  BY <1>1, <1>2, <1>3 DEF TabInv, TabParts

LEMMA PreferencesKeep ==
  ASSUME TabInv, (\E r \in requests : PreferencesLoaded(r)) \/ \E c \in Choices : Choose(c)
  PROVE  TabInv'
<1>0. TabTyped
  BY DEF TabInv
<1>1. RequestsBear' /\ PageIsSigned' /\ ShownIsSignedIn' /\ AvatarsAreHeld' /\ ChoiceIsSaved'
  BY DEF PreferencesLoaded, Choose, TabInv, TabParts, RequestsBear, PageIsSigned, ShownIsSignedIn,
     AvatarsAreHeld, Alive, Held, ChoiceIsSaved
<1>2. ASSUME NEW r \in requests, PreferencesLoaded(r) PROVE TabTyped' /\ LoadsLead'
  <2>1. r \in Loading /\ Loading' = Loading \ {r} /\ r.value \in Choices \cup {NoChoice}
    BY <1>0, <1>2 DEF PreferencesLoaded, Loading, TabTyped, AccountRequests
  <2>2. TabTyped'
    BY <1>0, <1>2, <2>1 DEF PreferencesLoaded, TabTyped
  <2> QED
    BY <1>2, <2>1, <2>2 DEF PreferencesLoaded, TabInv, TabParts, LoadsLead
<1>3. ASSUME NEW c \in Choices, Choose(c) PROVE TabTyped' /\ LoadsLead'
  <2>1. TabTyped' /\ Loading' = Loading
    BY <1>0, <1>3 DEF Choose, TabTyped, Loading
  <2> QED
    BY <1>3, <2>1 DEF Choose, TabInv, TabParts, LoadsLead
<1> QED
  BY <1>1, <1>2, <1>3 DEF TabInv, TabParts

-----------------------------------------------------------------------------
\* An avatar that has come goes where it was asked for, or nowhere.
LEMMA TakesUrlKeeps ==
  ASSUME TabInv, NEW d, NEW b \in Blobs, blob[b] = "unmade", TakesUrl(d, b)
  PROVE  /\ AvatarsAreHeld' /\ abandoned' \in BOOLEAN
         /\ blob' \in [Blobs -> {"unmade", "live", "revoked"}]
         /\ sidebarBlob' \in Blobs \cup {NoBlob} /\ pageBlob' \in Blobs \cup {NoBlob}
<1>0. TabTyped /\ NoBlob \notin Blobs
  BY ClientNames DEF TabInv
<1>1. ASSUME NEW held \in Blobs \cup {NoBlob}, blob' = [Revoked({held}) EXCEPT ![b] = "live"],
             UNCHANGED abandoned,
             \/ held = sidebarBlob /\ sidebarBlob' = b /\ UNCHANGED pageBlob
             \/ held = pageBlob /\ pageBlob' = b /\ UNCHANGED sidebarBlob
      PROVE  AvatarsAreHeld' /\ blob' \in [Blobs -> {"unmade", "live", "revoked"}]
  <2>1. /\ Revoked({held}) \in [Blobs -> {"unmade", "live", "revoked"}]
        /\ \A c \in Blobs : Revoked({held})[c] = "live" <=> c \in Alive \ {held}
    BY <1>0, RevokedKeeps
  <2>2. blob' \in [Blobs -> {"unmade", "live", "revoked"}] /\ Alive' = (Alive \ {held}) \cup {b}
    BY <1>1, <2>1 DEF Alive
  <2> QED
    BY <1>0, <1>1, <2>2 DEF TabInv, TabParts, AvatarsAreHeld, Held
<1>2. CASE d.for = "sidebar"
  BY <1>0, <1>1, <1>2 DEF TakesUrl, TabTyped
<1>3. CASE d.for # "sidebar" /\ d.page = settingsPage
  BY <1>0, <1>1, <1>3 DEF TakesUrl, TabTyped
<1>4. CASE d.for # "sidebar" /\ d.page # settingsPage
  BY <1>0, <1>4 DEF TakesUrl, TabTyped, AvatarsAreHeld
<1> QED
  BY <1>2, <1>3, <1>4

LEMMA AvatarsKeep ==
  ASSUME TabInv, NEW d \in downloads, AvatarFails(d) \/ \E b \in Blobs : AvatarLoaded(d, b)
  PROVE  TabInv'
<1>0. TabTyped
  BY DEF TabInv
<1>1. /\ downloads' \subseteq downloads
      /\ UNCHANGED <<profiles, token, storedUser, currentUser, requests, settingsPage, formState, twice,
                     tardy, wrong, accountSteps>>
  BY DEF AvatarFails, AvatarLoaded
<1>2. RequestsBear' /\ LoadsLead' /\ PageIsSigned' /\ ShownIsSignedIn' /\ ChoiceIsSaved'
  BY <1>1 DEF TabInv, TabParts, RequestsBear, LoadsLead, Loading, PageIsSigned, ShownIsSignedIn, ChoiceIsSaved,
     formState
<1>3. /\ AvatarsAreHeld' /\ abandoned' \in BOOLEAN
      /\ blob' \in [Blobs -> {"unmade", "live", "revoked"}]
      /\ sidebarBlob' \in Blobs \cup {NoBlob} /\ pageBlob' \in Blobs \cup {NoBlob}
  <2>1. ASSUME NEW b \in Blobs, AvatarLoaded(d, b) PROVE blob[b] = "unmade" /\ TakesUrl(d, b)
    BY <2>1 DEF AvatarLoaded
  <2>2. CASE AvatarFails(d)
    <3>1. CASE d.for = "sidebar"
      BY <1>0, <2>2, <3>1, HoldsStill DEF AvatarFails, TabTyped
    <3>2. CASE d.for # "sidebar" /\ d.page = settingsPage
      BY <1>0, <2>2, <3>2, HoldsStill DEF AvatarFails, TabTyped
    <3>3. CASE d.for # "sidebar" /\ d.page # settingsPage
      BY <1>0, <2>2, <3>3 DEF AvatarFails, TabTyped, TabInv, TabParts, AvatarsAreHeld, Alive, Held
    <3> QED
      BY <3>1, <3>2, <3>3
  <2> QED
    BY <2>1, <2>2, TakesUrlKeeps
<1>4. TabTyped'
  BY <1>0, <1>1, <1>3 DEF TabTyped, formState
<1> QED
  BY <1>2, <1>3, <1>4 DEF TabInv, TabParts

LEMMA TabStep == TabInv /\ [ClientAccountNext]_clientAccountVars => TabInv'
<1> SUFFICES ASSUME TabInv, [ClientAccountNext]_clientAccountVars PROVE TabInv'
  OBVIOUS
<1>1. CASE UNCHANGED clientAccountVars
  BY <1>1 DEF clientAccountVars, formState, TabInv, TabTyped, TabParts, RequestsBear, LoadsLead, Loading,
     PageIsSigned, ShownIsSignedIn, AvatarsAreHeld, Alive, Held, ChoiceIsSaved
<1> QED
  BY <1>1, LoginKeeps, LogoutKeeps, ReloadKeeps, ServeKeeps, UserAnswersKeeps, RequestFailsKeeps,
     OpenSettingsKeeps, LeaveSettingsKeeps, SelectChatTabKeeps, SaveKeeps, ChangeAvatarKeeps, PreferencesKeep,
     AvatarsKeep DEF ClientAccountNext

-----------------------------------------------------------------------------
(* The page of the members.                                                *)
Ranks == GivenRoles \cup MenuRoles \cup {NotMember}
EmailFields == Addresses \cup {NoAddress}
MemberLists == [nr : 0 .. MemberSteps, st : {"asked", "read"}, rows : [Addresses -> Ranks]]
MemberCalls == [op : {"role", "remove"}, who : Addresses, role : Ranks, st : {"sent", "done", "refused"},
                nr : 0 .. MemberSteps]
AddForms == [email : EmailFields, role : GivenRoles, details : {"absent", "empty", "filled"}]
Addings == [st : {"idle", "search", "add", "invite", "added", "refused"}, email : EmailFields, role : GivenRoles]

MembersTyped ==
    /\ roleOf \in [Addresses -> Ranks] /\ members \in [Addresses -> Ranks] /\ registered \subseteq Addresses
    /\ selectedMember \in [who : EmailFields, role : Ranks]
    /\ memberLists \subseteq MemberLists /\ memberCalls \subseteq MemberCalls
    /\ addMemberForm \in AddForms /\ adding \in Addings
    /\ addingMember = (adding.st # "idle")
    /\ showAddForm \in BOOLEAN /\ showRegisterFields \in BOOLEAN /\ muddled \in BOOLEAN
    /\ pressed \in EmailFields \X GivenRoles /\ memberSteps \in 0 .. MemberSteps

\* Both forms of the type invariant say the same.
LEMMA MembersTypes == (MembersTypeOK <=> MembersTyped) /\ (MembersTypeOK' <=> MembersTyped')
BY DEF MembersTypeOK, MembersTyped, Ranks, EmailFields, MemberLists, MemberCalls, AddForms, Addings

\* What the table is behind with, something under way will bring.
TableMends ==
    /\ \A l, m \in memberLists : l = m
    /\ \/ \E c \in memberCalls : c.st = "done"
       \/ adding.st = "added"
       \/ \E l \in memberLists : l.st = "asked" \/ l.rows = roleOf
       \/ memberLists = {} /\ members = roleOf

TableParts ==
    /\ AddedAsPressed /\ (~muddled => TableMends)
    /\ adding.st # "idle" => adding.email \in Addresses
MembersInv == MembersTyped /\ TableParts

LEMMA MembersInitial == MembersInit => MembersInv
<1> SUFFICES ASSUME MembersInit PROVE MembersInv
  OBVIOUS
<1>1. [a \in Addresses |-> NotMember] \in [Addresses -> Ranks] /\ roleOf \in [Addresses -> Ranks]
  BY MembersAssumption DEF MembersInit, Ranks
<1>2. memberLists \subseteq MemberLists /\ memberSteps \in 0 .. MemberSteps
  BY <1>1, MembersAssumption DEF MembersInit, MemberLists
<1>3. /\ NobodySelected \in [who : EmailFields, role : Ranks] /\ EmptyForm \in AddForms
      /\ NotAdding \in Addings /\ NotAdding.st = "idle"
  BY MembersAssumption DEF NobodySelected, EmptyForm, NotAdding, EmailFields, Ranks, AddForms, Addings
<1>4. <<NoAddress, "MEMBER">> \in EmailFields \X GivenRoles
  BY MembersAssumption DEF EmailFields
<1>5. MembersTyped
  BY <1>1, <1>2, <1>3, <1>4 DEF MembersInit, MembersTyped
<1> QED
  BY <1>3, <1>5 DEF MembersInit, MembersInv, TableParts, AddedAsPressed, TableMends

\* The types of what the form's steps change.
LEMMA FormKeeps ==
  ASSUME MembersTyped, EditAddForm \/ OpenAddForm \/ CancelAdding \/ SearchAnswered
  PROVE  MembersTyped'
<1>0. addMemberForm \in AddForms /\ EmptyForm \in AddForms /\ NotAdding \in Addings
  BY MembersAssumption DEF MembersTyped, EmptyForm, NotAdding, EmailFields, AddForms, Addings
<1>1. CASE EditAddForm
  <2>1. addMemberForm' \in AddForms
    <3>1. ASSUME NEW email \in Addresses \cup {NoAddress},
                 addMemberForm' = [addMemberForm EXCEPT !.email = email]
          PROVE  addMemberForm' \in AddForms
      BY ONLY <1>0, <3>1 DEF AddForms, EmailFields
    <3>2. ASSUME NEW role \in GivenRoles, addMemberForm' = [addMemberForm EXCEPT !.role = role]
          PROVE  addMemberForm' \in AddForms
      BY ONLY <1>0, <3>2 DEF AddForms
    <3>3. ASSUME NEW details \in {"empty", "filled"},
                 addMemberForm' = [addMemberForm EXCEPT !.details = details]
          PROVE  addMemberForm' \in AddForms
      BY ONLY <1>0, <3>3 DEF AddForms
    <3> QED
      BY <1>1, <3>1, <3>2, <3>3 DEF EditAddForm
  <2> QED
    BY <1>1, <2>1 DEF EditAddForm, MembersTyped, tableVars
<1>2. CASE OpenAddForm
  BY <1>2 DEF OpenAddForm, MembersTyped, tableVars
<1>3. CASE CancelAdding
  BY <1>0, <1>3 DEF CancelAdding, ResetAddForm, MembersTyped, tableVars
<1>4. CASE SearchAnswered /\ adding.email \in registered
  <2>1. PICK n : n = [adding EXCEPT !.st = "add"]
    OBVIOUS
  <2>2. adding \in Addings
    BY DEF MembersTyped
  <2>3. n \in Addings /\ n.st = "add"
    BY ONLY <2>1, <2>2 DEF Addings
  <2>4. adding' = n /\ adding.st = "search"
        /\ UNCHANGED <<roleOf, registered, tableVars, memberCalls, addFormVars, addingMember, pressed, muddled,
                       memberSteps>>
    BY <1>4, <2>1 DEF SearchAnswered
  <2> QED
    BY <2>3, <2>4 DEF MembersTyped, tableVars, addFormVars
<1>5. CASE SearchAnswered /\ adding.email \notin registered
  <2>1. PICK n : n = [addMemberForm EXCEPT !.details = IF @ = "absent" THEN "empty" ELSE @]
    OBVIOUS
  <2>2. n \in AddForms
    BY ONLY <1>0, <2>1 DEF AddForms
  <2>3. /\ addMemberForm' = n /\ adding' = NotAdding /\ addingMember' = FALSE /\ showRegisterFields' = TRUE
        /\ UNCHANGED <<showAddForm, roleOf, registered, tableVars, memberCalls, pressed, muddled, memberSteps>>
    BY <1>5, <2>1 DEF SearchAnswered
  <2>4. NotAdding.st = "idle"
    BY DEF NotAdding
  <2> QED
    BY <1>0, <2>2, <2>3, <2>4 DEF MembersTyped, tableVars
<1> QED
  BY <1>1, <1>2, <1>3, <1>4, <1>5

LEMMA PressIs == MembersTyped /\ Press => memberSteps' \in 0 .. MemberSteps
BY MembersAssumption DEF MembersTyped, Press

\* What the requests of the form change.
LEMMA AddingKeeps ==
  ASSUME MembersInv, SubmitAdding \/ ServeAdding \/ MemberAdded \/ AddingFails
  PROVE  MembersInv'
<1>0. /\ MembersTyped /\ adding \in Addings /\ NotAdding \in Addings /\ NotAdding.st = "idle"
      /\ EmptyForm \in AddForms
  BY MembersAssumption DEF MembersInv, MembersTyped, EmptyForm, NotAdding, EmailFields, AddForms, Addings
<1>1. CASE SubmitAdding
  <2>1. addMemberForm.email \in Addresses /\ addMemberForm.role \in GivenRoles
    BY <1>0, <1>1 DEF MembersTyped, AddForms, EmailFields, SubmitAdding
  <2>2. adding' \in Addings /\ adding'.st \in {"invite", "search"}
        /\ adding'.email = addMemberForm.email /\ adding'.role = addMemberForm.role
    BY <1>1, <2>1 DEF SubmitAdding, Addings, EmailFields
  <2>3. pressed' = <<addMemberForm.email, addMemberForm.role>> /\ pressed' \in EmailFields \X GivenRoles
    BY <1>1, <2>1 DEF SubmitAdding, EmailFields
  <2>4. addingMember' = (adding'.st # "idle") /\ memberSteps' \in 0 .. MemberSteps
        /\ UNCHANGED <<roleOf, registered, tableVars, memberCalls, addFormVars, muddled>>
    BY <1>0, <1>1, <2>2, PressIs DEF SubmitAdding
  <2>5. MembersTyped'
    BY <1>0, <2>2, <2>3, <2>4 DEF MembersTyped, tableVars, addFormVars
  <2>6. adding.st = "idle"
    BY <1>0, <1>1 DEF SubmitAdding, MembersTyped
  <2>7. TableMends => TableMends'
    BY <2>2, <2>4, <2>6 DEF tableVars, TableMends
  <2> QED
    BY <2>1, <2>2, <2>3, <2>4, <2>5, <2>7 DEF MembersInv, TableParts, AddedAsPressed
<1>2. CASE ServeAdding
  <2>1. PICK st \in {"added", "refused"} :
            /\ adding' = [adding EXCEPT !.st = st]
            /\ \/ st = "added" /\ roleOf' = [roleOf EXCEPT ![adding.email] = adding.role]
                  /\ registered' = registered \cup {adding.email}
               \/ st = "refused" /\ UNCHANGED <<roleOf, registered>>
    BY <1>2 DEF ServeAdding
  <2>2. adding' \in Addings /\ adding'.st = st /\ adding'.email = adding.email /\ adding'.role = adding.role
    BY ONLY <1>0, <2>1, st \in {"added", "refused"} DEF Addings
  <2>3. adding.role \in Ranks /\ adding.st \in {"add", "invite"} /\ adding.email \in Addresses
    BY <1>0, <1>2 DEF Addings, Ranks, ServeAdding, MembersInv, TableParts
  <2>4. roleOf' \in [Addresses -> Ranks] /\ registered' \subseteq Addresses
    BY <1>0, <2>1, <2>3 DEF MembersTyped
  <2>5. UNCHANGED <<tableVars, memberCalls, addFormVars, addingMember, pressed, muddled, memberSteps>>
    BY <1>2 DEF ServeAdding
  <2>6. addingMember = TRUE /\ adding'.st # "idle"
    BY <1>0, <2>1, <2>2, <2>3 DEF MembersTyped
  <2>7. MembersTyped'
    BY <1>0, <2>2, <2>4, <2>5, <2>6 DEF MembersTyped, tableVars, addFormVars
  <2>8. TableMends => TableMends'
    BY <2>1, <2>2, <2>3, <2>5 DEF TableMends, tableVars
  <2> QED
    BY <2>2, <2>3, <2>5, <2>7, <2>8 DEF MembersInv, TableParts, AddedAsPressed
<1>3. CASE MemberAdded
  <2>1. NewList \in MemberLists /\ NewList.st = "asked"
    BY <1>0, MembersAssumption DEF NewList, MemberLists, MembersTyped, Ranks
  <2>2. /\ memberLists' = memberLists \cup {NewList} /\ (~muddled' => ~muddled /\ memberLists = {})
        /\ muddled' \in BOOLEAN /\ adding' = NotAdding /\ addingMember' = FALSE
        /\ addMemberForm' = EmptyForm /\ showAddForm' = FALSE /\ showRegisterFields' = FALSE
        /\ UNCHANGED <<roleOf, registered, members, selectedMember, memberCalls, pressed, memberSteps>>
    BY <1>0, <1>3 DEF MemberAdded, ResetAddForm, AskMembers, MembersTyped
  <2>3. MembersTyped'
    BY <1>0, <2>1, <2>2 DEF MembersTyped
  <2>4. ~muddled' => TableMends'
    BY <2>1, <2>2 DEF TableMends
  <2> QED
    BY <1>0, <2>2, <2>3, <2>4 DEF MembersInv, TableParts, AddedAsPressed
<1>4. CASE AddingFails
  <2>1. /\ adding' = NotAdding /\ addingMember' = FALSE
        /\ UNCHANGED <<roleOf, registered, tableVars, memberCalls, addFormVars, pressed>>
        /\ \/ adding.st = "refused" /\ UNCHANGED <<muddled, memberSteps>>
           \/ Press /\ muddled' = TRUE
    BY <1>4 DEF AddingFails
  <2>2. memberSteps' \in 0 .. MemberSteps
    BY <1>0, <2>1, PressIs DEF MembersTyped
  <2>3. MembersTyped'
    BY <1>0, <2>1, <2>2 DEF MembersTyped, tableVars, addFormVars
  <2>4. ~muddled' => TableMends'
    BY <2>1 DEF MembersInv, TableParts, TableMends, tableVars
  <2> QED
    BY <1>0, <2>1, <2>3, <2>4 DEF MembersInv, TableParts, AddedAsPressed
<1> QED
  BY <1>1, <1>2, <1>3, <1>4

\* What the table's requests change.
LEMMA ChangesKeep ==
  ASSUME MembersInv,
         \/ \E a \in Addresses : SelectMember(a) \/ RemoveMemberOf(a)
         \/ \E a \in Addresses, role \in MenuRoles : UpdateMemberRole(a, role)
         \/ \E c \in memberCalls : ServeChange(c) \/ ChangeDone(c) \/ ChangeFails(c)
  PROVE  MembersInv'
<1>0. MembersTyped /\ TableParts
  BY DEF MembersInv
<1>1. ASSUME NEW a \in Addresses, SelectMember(a) PROVE MembersInv'
  <2>1. [who |-> a, role |-> members[a]] \in [who : EmailFields, role : Ranks]
    BY <1>0 DEF MembersTyped, EmailFields
  <2>2. MembersTyped'
    BY <1>0, <1>1, <2>1 DEF SelectMember, MembersTyped, addFormVars
  <2> QED
    BY <1>0, <1>1, <2>2 DEF SelectMember, MembersInv, TableParts, TableMends, AddedAsPressed
<1>2. ASSUME NEW a \in Addresses, NEW op \in {"role", "remove"}, NEW role \in Ranks, SendChange(op, a, role)
      PROVE  MembersInv'
  <2>1. memberSteps' \in 0 .. MemberSteps
    BY <1>0, <1>2, PressIs DEF SendChange
  <2>2. [op |-> op, who |-> a, role |-> role, st |-> "sent", nr |-> memberSteps] \in MemberCalls
    BY <1>0 DEF MembersTyped, MemberCalls
  <2>3. memberCalls' \subseteq MemberCalls /\ memberCalls \subseteq memberCalls'
    BY <1>0, <1>2, <2>2 DEF SendChange, MembersTyped
  <2>4. MembersTyped'
    BY <1>0, <1>2, <2>1, <2>3 DEF SendChange, MembersTyped, tableVars, addFormVars
  <2> QED
    BY <1>0, <1>2, <2>3, <2>4
    DEF SendChange, MembersInv, TableParts, TableMends, AddedAsPressed, tableVars
<1>3. ASSUME NEW c \in memberCalls, ServeChange(c) PROVE MembersInv'
  <2>0. c \in MemberCalls /\ c.who \in Addresses /\ c.role \in Ranks
    BY <1>0 DEF MembersTyped, MemberCalls
  <2>1. PICK st \in {"done", "refused"} :
            /\ memberCalls' = (memberCalls \ {c}) \cup {[c EXCEPT !.st = st]}
            /\ st = "refused" => roleOf[c.who] = NotMember
    BY <1>3 DEF ServeChange
  <2>2. PICK n : n = [c EXCEPT !.st = st]
    OBVIOUS
  <2>3. n \in MemberCalls /\ n.st = st
    BY ONLY <2>0, <2>2, st \in {"done", "refused"} DEF MemberCalls
  <2>4. roleOf' \in [Addresses -> Ranks] /\ (st = "refused" => roleOf' = roleOf)
    BY <1>0, <1>3, <2>0, <2>1 DEF ServeChange, MembersTyped
  <2>5. MembersTyped'
    BY <1>0, <1>3, <2>1, <2>2, <2>3, <2>4 DEF ServeChange, MembersTyped, tableVars, addFormVars
  <2>6. c.st = "sent" /\ UNCHANGED <<tableVars, adding, muddled>>
    BY <1>3 DEF ServeChange
  <2>7. TableMends => TableMends'
    BY <2>1, <2>2, <2>3, <2>4, <2>6 DEF TableMends, tableVars
  <2> QED
    BY <1>0, <1>3, <2>5, <2>7 DEF ServeChange, MembersInv, TableParts, AddedAsPressed
<1>4. ASSUME NEW c \in memberCalls, ChangeDone(c) PROVE MembersInv'
  <2>1. NewList \in MemberLists /\ NewList.st = "asked"
    BY <1>0, MembersAssumption DEF NewList, MemberLists, MembersTyped, Ranks
  <2>2. NobodySelected \in [who : EmailFields, role : Ranks]
    BY DEF NobodySelected, EmailFields, Ranks
  <2>3. /\ memberLists' = memberLists \cup {NewList} /\ (~muddled' => ~muddled /\ memberLists = {})
        /\ muddled' \in BOOLEAN /\ memberCalls' = memberCalls \ {c}
        /\ selectedMember' \in {NobodySelected, selectedMember}
        /\ UNCHANGED <<roleOf, registered, members, addFormVars, addingMember, adding, pressed, memberSteps>>
    BY <1>0, <1>4 DEF ChangeDone, AskMembers, MembersTyped
  <2>4. MembersTyped'
    BY <1>0, <2>1, <2>2, <2>3 DEF MembersTyped, addFormVars
  <2>5. ~muddled' => TableMends'
    BY <2>1, <2>3 DEF TableMends
  <2> QED
    BY <1>0, <2>3, <2>4, <2>5 DEF MembersInv, TableParts, AddedAsPressed
<1>5. ASSUME NEW c \in memberCalls, ChangeFails(c) PROVE MembersInv'
  <2>1. /\ memberCalls' = memberCalls \ {c}
        /\ UNCHANGED <<roleOf, registered, tableVars, addFormVars, addingMember, adding, pressed>>
        /\ \/ c.st = "refused" /\ UNCHANGED <<muddled, memberSteps>>
           \/ Press /\ muddled' = TRUE
    BY <1>5 DEF ChangeFails
  <2>2. memberSteps' \in 0 .. MemberSteps /\ muddled' \in BOOLEAN
    BY <1>0, <2>1, PressIs DEF MembersTyped
  <2>3. MembersTyped'
    BY <1>0, <2>1, <2>2 DEF MembersTyped, tableVars, addFormVars
  <2>4. ~muddled' => TableMends'
    BY <1>0, <2>1 DEF TableParts, TableMends, tableVars
  <2> QED
    BY <1>0, <2>1, <2>3, <2>4 DEF MembersInv, TableParts, AddedAsPressed
<1>6. ASSUME NEW a \in Addresses, RemoveMemberOf(a) PROVE MembersInv'
  <2>1. NotMember \in Ranks
    BY DEF Ranks
  <2> QED
    BY <1>2, <1>6, <2>1 DEF RemoveMemberOf
<1>7. ASSUME NEW a \in Addresses, NEW role \in MenuRoles, UpdateMemberRole(a, role) PROVE MembersInv'
  <2>1. role \in Ranks
    BY DEF Ranks
  <2> QED
    BY <1>2, <1>7, <2>1 DEF UpdateMemberRole
<1> QED
  BY <1>1, <1>3, <1>4, <1>5, <1>6, <1>7

\* The lists, and the other owners.
LEMMA ListsKeep ==
  ASSUME MembersInv,
         \/ \E l \in memberLists : MembersRead(l) \/ MembersAnswer(l) \/ MembersFail(l)
         \/ \E a \in Addresses, role \in GivenRoles \cup {NotMember} : OtherOwnerChanges(a, role)
  PROVE  MembersInv'
<1>0. MembersTyped /\ TableParts
  BY DEF MembersInv
<1>1. ASSUME NEW l \in memberLists, MembersRead(l) PROVE MembersInv'
  <2>1. PICK n : n = [l EXCEPT !.st = "read", !.rows = roleOf]
    OBVIOUS
  <2>2. l \in MemberLists /\ roleOf \in [Addresses -> Ranks]
    BY <1>0 DEF MembersTyped
  <2>3. n \in MemberLists /\ n.rows = roleOf
    BY ONLY <2>1, <2>2 DEF MemberLists
  <2>4. /\ memberLists' = (memberLists \ {l}) \cup {n}
        /\ UNCHANGED <<roleOf, registered, members, selectedMember, memberCalls, addFormVars, addingMember, adding,
                       pressed, muddled, memberSteps>>
    BY <1>1, <2>1 DEF MembersRead
  <2>5. MembersTyped'
    BY <1>0, <2>3, <2>4 DEF MembersTyped, addFormVars
  <2> QED
    BY <1>0, <2>3, <2>4, <2>5 DEF MembersInv, TableParts, TableMends, AddedAsPressed
<1>2. ASSUME NEW l \in memberLists, MembersAnswer(l) PROVE MembersInv'
  <2>1. l.rows \in [Addresses -> Ranks]
    BY <1>0 DEF MembersTyped, MemberLists
  <2>2. MembersTyped'
    BY <1>0, <1>2, <2>1 DEF MembersAnswer, MembersTyped, addFormVars
  <2>3. TableMends => TableMends'
    BY <1>2 DEF MembersAnswer, TableMends
  <2> QED
    BY <1>0, <1>2, <2>2, <2>3 DEF MembersAnswer, MembersInv, TableParts, AddedAsPressed
<1>3. ASSUME NEW l \in memberLists, MembersFail(l) PROVE MembersInv'
  <2>1. MembersTyped'
    BY <1>0, <1>3, PressIs DEF MembersFail, MembersTyped, addFormVars
  <2> QED
    BY <1>0, <1>3, <2>1 DEF MembersFail, MembersInv, TableParts, AddedAsPressed
<1>4. ASSUME NEW a \in Addresses, NEW role \in GivenRoles \cup {NotMember}, OtherOwnerChanges(a, role)
      PROVE  MembersInv'
  <2>1. roleOf' \in [Addresses -> Ranks]
    BY <1>0, <1>4 DEF OtherOwnerChanges, MembersTyped, Ranks
  <2>2. MembersTyped'
    BY <1>0, <1>4, <2>1, PressIs DEF OtherOwnerChanges, MembersTyped, tableVars, addFormVars
  <2> QED
    BY <1>0, <1>4, <2>2 DEF OtherOwnerChanges, MembersInv, TableParts, AddedAsPressed
<1> QED
  BY <1>1, <1>2, <1>3, <1>4

LEMMA MembersStep == MembersInv /\ [MembersNext]_membersVars => MembersInv'
<1> SUFFICES ASSUME MembersInv, [MembersNext]_membersVars PROVE MembersInv'
  OBVIOUS
<1>1. CASE UNCHANGED membersVars
  BY <1>1 DEF membersVars, tableVars, addFormVars, MembersInv, MembersTyped, TableParts, TableMends,
      AddedAsPressed
<1>2. CASE EditAddForm \/ OpenAddForm \/ CancelAdding
  BY <1>2, FormKeeps
  DEF EditAddForm, OpenAddForm, CancelAdding, MembersInv, TableParts, TableMends, AddedAsPressed, tableVars
<1>3. CASE SearchAnswered
  <2>1. MembersTyped'
    BY <1>3, FormKeeps DEF MembersInv
  <2>2. adding' = [adding EXCEPT !.st = "add"] \/ adding' = NotAdding
    BY <1>3 DEF SearchAnswered
  <2>3. adding'.st = "idle" \/ (adding'.email = adding.email /\ adding'.role = adding.role)
    <3>1. adding \in Addings
      BY DEF MembersInv, MembersTyped
    <3> QED
      BY ONLY <2>2, <3>1 DEF Addings, NotAdding
  <2>4. adding.st = "search"
        /\ UNCHANGED <<roleOf, tableVars, memberCalls, pressed, muddled>>
    BY <1>3 DEF SearchAnswered
  <2> QED
    BY <2>1, <2>3, <2>4 DEF MembersInv, TableParts, TableMends, AddedAsPressed, tableVars
<1> QED
  BY <1>1, <1>2, <1>3, AddingKeeps, ChangesKeep, ListsKeep DEF MembersNext

\* At rest nothing is behind.
LEMMA MembersInvShows == MembersInv => MembersTypeOK /\ AddedAsPressed /\ TableShowsMembers
<1> SUFFICES ASSUME MembersInv PROVE TableShowsMembers
  BY MembersTypes DEF MembersInv, TableParts
<1>1. ~addingMember => adding.st = "idle"
  BY DEF MembersInv, MembersTyped
<1> QED
  BY <1>1 DEF MembersInv, TableParts, TableMends, TableShowsMembers

-----------------------------------------------------------------------------
(* The viewer of one file, and the dialog.                                 *)
FilesOrNone == Files \cup {NoFile}
Contents == Files \cup {Blank, Failed}
Dialogs == [file : FilesOrNone, content : Contents, loading : BOOLEAN, pending : SUBSET Files, alone : BOOLEAN]

ViewerTyped ==
    /\ fileToView \in FilesOrNone /\ downloading \in FilesOrNone /\ textFileContent \in Contents
    /\ textFileLoadComplete \in BOOLEAN /\ hasty \in BOOLEAN
    /\ reading \subseteq TextFiles /\ objectUrls \subseteq Files \ TextFiles
    /\ dialog \in Dialogs

\* Both forms of the type invariant say the same.
LEMMA ViewerTypes == (PreviewTypeOK <=> ViewerTyped) /\ (PreviewTypeOK' <=> ViewerTyped')
BY DEF PreviewTypeOK, ViewerTyped, FilesOrNone, Contents, Dialogs

\* Without haste, what is on its way is of the file that is viewed; and a
\* dialog that was alone loads its own file only.
ViewerFollows ==
    /\ ~hasty => /\ downloading \in {NoFile, fileToView}
                 /\ fileToView # NoFile => reading \subseteq {fileToView}
    /\ dialog.file # NoFile /\ dialog.alone => dialog.pending \subseteq {dialog.file}

ViewerParts == ViewerFollows /\ ViewedIsShown /\ DialogShowsItsFile
ViewerInv == ViewerTyped /\ ViewerParts

LEMMA ViewerInitial == PreviewInit => ViewerInv
<1> SUFFICES ASSUME PreviewInit PROVE ViewerInv
  OBVIOUS
<1>1. ClosedDialog \in Dialogs /\ ClosedDialog.file = NoFile
  BY DEF ClosedDialog, Dialogs, FilesOrNone, Contents
<1>2. ViewerTyped
  BY <1>1 DEF PreviewInit, ViewerTyped, FilesOrNone, Contents
<1> QED
  BY <1>1, <1>2 DEF PreviewInit, ViewerInv, ViewerParts, ViewerFollows, ViewedIsShown, DialogShowsItsFile

\* The dialog's own steps.
LEMMA DialogKeeps ==
  ASSUME ViewerInv,
         \/ CloseDialog
         \/ \E f \in Files :
                OpenFileContentDialog(f) \/ \E content \in {f, Failed} : ContentLoaded(f, content)
  PROVE  ViewerInv'
<1>0. ViewerTyped /\ dialog \in Dialogs /\ NoFile \notin Files
  BY PreviewNames DEF ViewerInv, ViewerTyped
<1> DEFINE Fits(d) ==
       /\ d.file # NoFile /\ d.alone => d.pending \subseteq {d.file}
       /\ d.file # NoFile /\ ~d.loading /\ d.alone => d.content \in {d.file, Failed}
<1>1. Fits(dialog)
  BY DEF ViewerInv, ViewerParts, ViewerFollows, DialogShowsItsFile
<1>2. dialog' \in Dialogs /\ Fits(dialog')
  <2>1. CASE CloseDialog
    <3>1. PICK d : d = [ClosedDialog EXCEPT !.pending = dialog.pending]
      OBVIOUS
    <3>2. d \in Dialogs /\ d.file = NoFile
      BY ONLY <1>0, <3>1 DEF ClosedDialog, Dialogs, FilesOrNone, Contents
    <3> QED
      BY <2>1, <3>1, <3>2 DEF CloseDialog
  <2>2. ASSUME NEW f \in Files, OpenFileContentDialog(f) PROVE dialog' \in Dialogs /\ Fits(dialog')
    <3> DEFINE d == [file |-> f, content |-> Blank, loading |-> TRUE,
                     pending |-> dialog.pending \cup {f}, alone |-> (dialog.pending = {})]
    <3>1. dialog.pending \subseteq Files
      BY <1>0 DEF Dialogs
    <3>2. (dialog.pending = {}) \in BOOLEAN
      OBVIOUS
    <3>3. d \in Dialogs /\ d.file = f /\ d.pending = dialog.pending \cup {f} /\ d.loading = TRUE
          /\ (d.alone => dialog.pending = {})
      BY <3>1, <3>2 DEF Dialogs, FilesOrNone, Contents
    <3>4. dialog' = d
      BY <2>2 DEF OpenFileContentDialog
    <3> HIDE DEF d
    <3> QED
      BY <3>3, <3>4
  <2>3. ASSUME NEW f \in Files, NEW content \in {f, Failed}, ContentLoaded(f, content)
        PROVE  dialog' \in Dialogs /\ Fits(dialog')
    <3>1. PICK d : d = [dialog EXCEPT !.pending = @ \ {f}, !.content = content, !.loading = FALSE]
      OBVIOUS
    <3>2. /\ d \in Dialogs /\ d.file = dialog.file /\ d.pending = dialog.pending \ {f}
          /\ d.content = content /\ d.alone = dialog.alone
      BY ONLY <1>0, <3>1, f \in Files, content \in {f, Failed} DEF Dialogs, Contents
    <3>3. dialog' = d /\ f \in dialog.pending
      BY <2>3, <3>1 DEF ContentLoaded
    <3> QED
      BY <1>1, <3>2, <3>3
  <2> QED
    BY <2>1, <2>2, <2>3
<1>3. UNCHANGED <<viewerVars, hasty>>
  BY DEF CloseDialog, OpenFileContentDialog, ContentLoaded
<1>4. ViewerTyped'
  BY <1>0, <1>2, <1>3 DEF ViewerTyped, viewerVars
<1>5. ViewerFollows' /\ ViewedIsShown' /\ DialogShowsItsFile'
  BY <1>2, <1>3 DEF ViewerInv, ViewerParts, ViewerFollows, ViewedIsShown, DialogShowsItsFile, viewerVars
<1> QED
  BY <1>4, <1>5 DEF ViewerInv, ViewerParts

LEMMA ViewerStep == ViewerInv /\ [PreviewNext]_previewVars => ViewerInv'
<1> SUFFICES ASSUME ViewerInv, [PreviewNext]_previewVars PROVE ViewerInv'
  OBVIOUS
<1>0. ViewerTyped /\ ViewerFollows /\ ViewedIsShown /\ DialogShowsItsFile /\ NoFile \notin Files
      /\ TextFiles \subseteq Files
  BY PreviewNames, PreviewAssumption DEF ViewerInv, ViewerParts
<1>a. SUFFICES ViewerTyped' /\ ViewerFollows' /\ ViewedIsShown' /\ DialogShowsItsFile'
  BY DEF ViewerInv, ViewerParts
<1>1. ASSUME NEW f \in Files, ViewFile(f)
      PROVE  ViewerTyped' /\ ViewerFollows' /\ ViewedIsShown' /\ DialogShowsItsFile'
  <2>1. hasty' \in BOOLEAN /\ (~hasty' => ~hasty /\ fileToView = NoFile /\ reading = {})
    BY <1>0, <1>1 DEF ViewFile, ViewerTyped
  <2>2. textFileLoadComplete' \in BOOLEAN /\ (~hasty' => ~textFileLoadComplete')
    BY <1>0, <1>1, <2>1 DEF ViewFile, AbortedText, ViewerFollows
  <2>3. ViewerTyped'
    BY <1>0, <1>1, <2>1, <2>2 DEF ViewFile, ViewerTyped, FilesOrNone
  <2> QED
    BY <1>0, <1>1, <2>1, <2>2, <2>3 DEF ViewFile, ViewerFollows, ViewedIsShown, DialogShowsItsFile
<1>2. ASSUME NEW f \in Files, TextRead(f)
      PROVE  ViewerTyped' /\ ViewerFollows' /\ ViewedIsShown' /\ DialogShowsItsFile'
  <2>1. ViewerTyped'
    BY <1>0, <1>2 DEF TextRead, ViewerTyped, Contents
  <2> QED
    BY <1>0, <1>2, <2>1 DEF TextRead, ViewerFollows, ViewedIsShown, DialogShowsItsFile
<1>3. ASSUME CloseFileViewer
      PROVE  ViewerTyped' /\ ViewerFollows' /\ ViewedIsShown' /\ DialogShowsItsFile'
  <2>1. ViewerTyped'
    BY <1>0, <1>3 DEF CloseFileViewer, ViewerTyped, Contents, FilesOrNone, AbortedText
  <2> QED
    BY <1>0, <1>3, <2>1 DEF CloseFileViewer, ViewerFollows, ViewedIsShown, DialogShowsItsFile
<1>4. ASSUME Downloaded
      PROVE  ViewerTyped' /\ ViewerFollows' /\ ViewedIsShown' /\ DialogShowsItsFile'
  <2>1. ViewerTyped'
    BY <1>0, <1>4 DEF Downloaded, ViewerTyped, FilesOrNone
  <2> QED
    BY <1>0, <1>4, <2>1 DEF Downloaded, ViewerFollows, ViewedIsShown, DialogShowsItsFile
<1>5. ASSUME DownloadFails
      PROVE  ViewerTyped' /\ ViewerFollows' /\ ViewedIsShown' /\ DialogShowsItsFile'
  <2>1. ViewerTyped'
    BY <1>0, <1>5 DEF DownloadFails, ViewerTyped, FilesOrNone, Contents
  <2> QED
    BY <1>0, <1>5, <2>1 DEF DownloadFails, ViewerFollows, ViewedIsShown, DialogShowsItsFile
<1>6. CASE UNCHANGED previewVars
  BY <1>0, <1>6 DEF previewVars, ViewerTyped, ViewerFollows, ViewedIsShown, DialogShowsItsFile
<1>7. ASSUME \/ CloseDialog
             \/ \E f \in Files :
                    OpenFileContentDialog(f) \/ \E content \in {f, Failed} : ContentLoaded(f, content)
      PROVE  ViewerTyped' /\ ViewerFollows' /\ ViewedIsShown' /\ DialogShowsItsFile'
  BY <1>7, DialogKeeps DEF ViewerInv, ViewerParts
<1> QED
  BY <1>1, <1>2, <1>3, <1>4, <1>5, <1>6, <1>7 DEF PreviewNext

-----------------------------------------------------------------------------
(* The viewer of PDF files.                                                *)
Drawings == [doc : Pdfs, page : Nat, scale : Scales]

PdfTyped ==
    /\ fileUrl \in Pdfs /\ pdfLoads \subseteq Pdfs /\ pdfDoc \in Pdfs \cup {NoPdf}
    /\ totalPages \in Nat /\ currentPage \in Nat \ {0} /\ scale \in Scales
    /\ drawing \subseteq Drawings /\ canvas \in Drawings \cup {Empty}
    /\ stale \in BOOLEAN /\ clashed \in BOOLEAN /\ turned \in BOOLEAN /\ pdfSteps \in 0 .. Turns

\* Both forms of the type invariant say the same.
LEMMA PdfTypes == (PdfTypeOK <=> PdfTyped) /\ (PdfTypeOK' <=> PdfTyped')
BY DEF PdfTypeOK, PdfTyped, Drawings

\* Nothing is turned before a document is there; and what was turned is to be
\* drawn, being drawn, or drawn.
DrawingFollows ==
    /\ pdfDoc = NoPdf => totalPages = 0 /\ currentPage = 1
    /\ turned => pdfDoc # NoPdf
    /\ turned /\ ~clashed => stale \/ drawing = {Wanted} \/ (drawing = {} /\ canvas = Wanted)

PdfInv == PdfTyped /\ DrawingFollows

LEMMA PdfInitial == PdfInit => PdfInv
<1> SUFFICES ASSUME PdfInit PROVE PdfInv
  OBVIOUS
<1>1. fileUrl \in Pdfs /\ pdfLoads \subseteq Pdfs /\ pdfDoc = NoPdf /\ totalPages = 0 /\ currentPage = 1
      /\ scale \in Scales
  BY DEF PdfInit, Scales
<1>2. drawing \subseteq Drawings /\ canvas = Empty /\ stale \in BOOLEAN /\ clashed \in BOOLEAN /\ turned = FALSE
  BY DEF PdfInit
<1>3. pdfSteps \in 0 .. Turns
  BY PdfAssumption DEF PdfInit
<1>4. currentPage \in Nat \ {0} /\ totalPages \in Nat /\ pdfDoc \in Pdfs \cup {NoPdf}
  BY <1>1
<1>5. turned \in BOOLEAN /\ ~turned
  BY <1>2
<1>6. PdfTyped
  BY <1>1, <1>2, <1>3, <1>4, <1>5 DEF PdfTyped
<1>7. DrawingFollows
  BY <1>1, <1>5 DEF DrawingFollows
<1> QED
  BY <1>6, <1>7 DEF PdfInv

LEMMA PdfStep == PdfInv /\ [PdfNext]_pdfVars => PdfInv'
<1> SUFFICES ASSUME PdfInv, [PdfNext]_pdfVars PROVE PdfInv'
  OBVIOUS
<1>0. PdfTyped /\ DrawingFollows /\ NoPdf \notin Pdfs /\ Turns \in Nat
  BY PdfNames, PdfAssumption DEF PdfInv
<1>1. ASSUME NEW u \in Pdfs, PdfLoaded(u) PROVE PdfInv'
  <2>1. PageCount[u] \in Nat
    BY PdfAssumption
  <2>2. PdfTyped'
    BY <1>0, <1>1, <2>1 DEF PdfLoaded, PdfTyped
  <2> QED
    BY <1>0, <1>1, <2>2 DEF PdfLoaded, PdfInv, PdfTyped, DrawingFollows
<1>2. ASSUME NEW u \in Pdfs, PdfFails(u) PROVE PdfInv'
  BY <1>0, <1>2 DEF PdfFails, PdfInv, PdfTyped, DrawingFollows, Wanted
<1>3. ASSUME NEW u \in Pdfs, ShowOtherPdf(u) PROVE PdfInv'
  <2>1. clashed' \in BOOLEAN /\ (~clashed' => ~clashed)
    BY <1>0, <1>3 DEF ShowOtherPdf, PdfTyped
  <2>2. PdfTyped'
    BY <1>0, <1>3, <2>1 DEF ShowOtherPdf, PdfTyped
  <2> QED
    BY <1>0, <1>3, <2>1, <2>2 DEF ShowOtherPdf, PdfInv, DrawingFollows, Wanted
<1>4. ASSUME NEW page \in 1 .. totalPages, NEW zoom \in Scales, Turn(page, zoom) PROVE PdfInv'
  <2>1. PdfTyped'
    BY <1>0, <1>4 DEF Turn, PdfTyped
  <2> QED
    BY <1>0, <1>4, <2>1 DEF Turn, PdfInv, DrawingFollows, PdfTyped
<1>5. ASSUME Draw PROVE PdfInv'
  <2>1. CASE pdfDoc = NoPdf
    BY <1>0, <1>5, <2>1 DEF Draw, PdfInv, PdfTyped, DrawingFollows
  <2>2. CASE pdfDoc # NoPdf
    <3>1. Wanted \in Drawings /\ Wanted' = Wanted
      BY <1>0, <1>5, <2>2 DEF Draw, PdfTyped, Wanted, Drawings
    <3>2. /\ drawing' = drawing \cup {Wanted} /\ clashed' \in BOOLEAN
          /\ ~clashed' => drawing = {}
          /\ stale' = FALSE
          /\ UNCHANGED <<fileUrl, pdfLoads, pdfDoc, totalPages, currentPage, scale, canvas, turned, pdfSteps>>
      BY <1>0, <1>5, <2>2 DEF Draw, PdfTyped, Wanted
    <3>3. PdfTyped'
      BY <1>0, <3>1, <3>2 DEF PdfTyped
    <3> QED
      BY <1>0, <3>1, <3>2, <3>3 DEF PdfInv, DrawingFollows
  <2> QED
    BY <2>1, <2>2
<1>6. ASSUME NEW d \in drawing, Painted(d) PROVE PdfInv'
  <2>1. PdfTyped' /\ Wanted' = Wanted
    BY <1>0, <1>6 DEF Painted, PdfTyped, Wanted
  <2> QED
    BY <1>0, <1>6, <2>1 DEF Painted, PdfInv, DrawingFollows
<1>7. CASE UNCHANGED pdfVars
  BY <1>0, <1>7 DEF pdfVars, PdfInv, PdfTyped, DrawingFollows, Wanted
<1> QED
  BY <1>1, <1>2, <1>3, <1>4, <1>5, <1>6, <1>7 DEF PdfNext

LEMMA PdfInvShows == PdfInv => PdfTypeOK /\ TurnedIsDrawn
BY PdfTypes DEF PdfInv, DrawingFollows, TurnedIsDrawn, AtRest

-----------------------------------------------------------------------------
(* The dialog that asks for a parser.                                      *)
Enquiries == [st : {"none", "asked", "read", "done"}, enabled : SUBSET Parsers, preferred : Parsers]

\* All of its types but the parser that is selected before there is a list.
UploadTyped ==
    /\ keyed \subseteq KeyParsers /\ preferred \in Parsers /\ keyTaken \subseteq KeyParsers
    /\ pendingFiles \subseteq PickFiles /\ showParserDialog \in BOOLEAN /\ offered \subseteq Parsers
    /\ enquiries \in [Enquirers -> Enquiries]
    /\ sending \in [PickFiles -> {"none", "waiting", "sent", "answered"}]
    /\ askedParser \in [PickFiles -> Parsers \cup {None}] /\ atServer \subseteq PickFiles
    /\ parsing \in [PickFiles -> {"none", "queued", "failed"} \cup Parsers]

\* A parser that was ever offered has its key, or lost it.
Keyed(p) == p \in KeyParsers => p \in keyed \cup keyTaken
OfferedHaveKeys ==
    /\ \A p \in offered : Keyed(p)
    /\ \A o \in Enquirers : \A p \in enquiries[o].enabled : Keyed(p)
    /\ \A f \in PickFiles : Keyed(askedParser[f])

SentWasAsked == \A f \in PickFiles : sending[f] # "none" => askedParser[f] # None

\* What was sent was sent once: a batch that is not being uploaded is new.
BatchIsNew ==
    /\ \A f \in PickFiles : askedParser[f] = None => parsing[f] = "none" /\ f \notin atServer
    /\ ~Uploading => \A f \in pendingFiles : askedParser[f] = None
    /\ SentWasAsked

UploadParts == OfferedHaveKeys /\ BatchIsNew /\ ParsedAsSent /\ DialogHasItsBatch
UploadInv == UploadTyped /\ UploadParts

LEMMA UploadInitial == UploadInit => UploadInv
<1> SUFFICES ASSUME UploadInit PROVE UploadInv
  OBVIOUS
<1>1. "docling" \in Parsers /\ None \notin KeyParsers /\ "none" \notin Parsers
  BY ParserAssumption
<1>2. UploadTyped
  BY <1>1 DEF UploadInit, UploadTyped, Enquiries
<1>3. \A o \in Enquirers : enquiries[o].enabled = {}
  BY DEF UploadInit
<1>4. \A f \in PickFiles : sending[f] = "none" /\ askedParser[f] = None /\ parsing[f] = "none"
  BY DEF UploadInit
<1>5. OfferedHaveKeys
  BY <1>1, <1>3, <1>4 DEF UploadInit, OfferedHaveKeys, Keyed
<1> QED
  BY <1>1, <1>2, <1>4, <1>5 DEF UploadInit, UploadInv, UploadParts, BatchIsNew, SentWasAsked, ParsedAsSent, DialogHasItsBatch

\* What SendUploads does to the uploads and to the server.
LEMMA SendsWaiting ==
  ASSUME NEW way \in [PickFiles -> {"none", "waiting", "sent", "answered"}], SendUploads(way)
  PROVE  /\ sending' \in [PickFiles -> {"none", "waiting", "sent", "answered"}]
         /\ \A f \in PickFiles : sending'[f] = "none" <=> way[f] = "none"
         /\ \A f \in atServer' : f \in atServer \/ (f \in PickFiles /\ way[f] = "waiting")
<1>1. PICK go \in SUBSET {f \in PickFiles : way[f] = "waiting"} :
          /\ sending' = [f \in PickFiles |-> IF f \in go THEN "sent" ELSE way[f]]
          /\ atServer' = atServer \cup go
  BY DEF SendUploads
<1> QED
  BY <1>1

LEMMA UploadStep == UploadInv /\ [UploadNext]_uploadVars => UploadInv'
<1> SUFFICES ASSUME UploadInv, [UploadNext]_uploadVars PROVE UploadInv'
  OBVIOUS
<1>0. /\ UploadTyped /\ OfferedHaveKeys /\ BatchIsNew /\ ParsedAsSent /\ DialogHasItsBatch
      /\ KeyParsers \subseteq Parsers /\ "docling" \in Parsers \ KeyParsers
      /\ {None, "none", "queued", "failed"} \cap Parsers = {}
  BY ParserAssumption DEF UploadInv, UploadParts
<1>a. SUFFICES UploadTyped' /\ OfferedHaveKeys' /\ BatchIsNew' /\ ParsedAsSent' /\ DialogHasItsBatch'
  BY DEF UploadInv, UploadParts
<1>1. ASSUME ParserSettingsChange
      PROVE  UploadTyped' /\ OfferedHaveKeys' /\ BatchIsNew' /\ ParsedAsSent' /\ DialogHasItsBatch'
  <2>1. /\ keyed' \subseteq KeyParsers /\ keyTaken' \subseteq KeyParsers /\ preferred' \in Parsers
        /\ keyed \cup keyTaken \subseteq keyed' \cup keyTaken'
        /\ keyTaken \subseteq keyTaken'
    BY <1>0, <1>1 DEF ParserSettingsChange, UploadTyped
  <2>2. UNCHANGED <<dialogVars, sending, askedParser, atServer, parsing>>
    BY <1>1 DEF ParserSettingsChange
  <2>3. UploadTyped' /\ OfferedHaveKeys'
    BY <1>0, <2>1, <2>2 DEF UploadTyped, OfferedHaveKeys, Keyed, dialogVars
  <2>4. BatchIsNew' /\ DialogHasItsBatch'
    BY <1>0, <2>2 DEF BatchIsNew, SentWasAsked, DialogHasItsBatch, Uploading, dialogVars
  <2>5. ParsedAsSent'
    BY <1>0, <2>1, <2>2 DEF ParsedAsSent
  <2> QED
    BY <2>3, <2>4, <2>5
<1>2. ASSUME NEW fs \in SUBSET PickFiles, NEW o \in Openings, OpenPendingFilesFlow(fs, o)
      PROVE  UploadTyped' /\ OfferedHaveKeys' /\ BatchIsNew' /\ ParsedAsSent' /\ DialogHasItsBatch'
  <2>1. o \in Enquirers /\ enquiries[o] \in Enquiries
    BY <1>0 DEF Enquirers, UploadTyped
  <2>2. PICK e : e = [enquiries[o] EXCEPT !.st = "asked"]
    OBVIOUS
  <2>3. e \in Enquiries /\ e.enabled = enquiries[o].enabled
    BY ONLY <2>1, <2>2 DEF Enquiries
  <2>4. enquiries' = [enquiries EXCEPT ![o] = e]
    BY <1>2, <2>2 DEF OpenPendingFilesFlow
  <2>5. enquiries' \in [Enquirers -> Enquiries] /\ \A q \in Enquirers : enquiries'[q].enabled = enquiries[q].enabled
    BY <1>0, <2>1, <2>3, <2>4 DEF UploadTyped
  <2>6. UploadTyped' /\ OfferedHaveKeys'
    BY <1>0, <1>2, <2>5 DEF OpenPendingFilesFlow, settingsOfParsers, UploadTyped, OfferedHaveKeys, Keyed
  <2>7. BatchIsNew' /\ ParsedAsSent'
    BY <1>0, <1>2 DEF OpenPendingFilesFlow, settingsOfParsers, BatchIsNew, SentWasAsked, ParsedAsSent
  <2>8. DialogHasItsBatch'
    BY <1>0, <1>2 DEF OpenPendingFilesFlow, ValidForUpload, DialogHasItsBatch
  <2> QED
    BY <2>6, <2>7, <2>8
<1>3. ASSUME NEW o \in Enquirers, ListParsers(o)
      PROVE  UploadTyped' /\ OfferedHaveKeys' /\ BatchIsNew' /\ ParsedAsSent' /\ DialogHasItsBatch'
  <2> DEFINE e == [st |-> "read", enabled |-> {p \in Parsers : IsParserEnabled(p)}, preferred |-> preferred]
  <2>1. e \in Enquiries /\ \A p \in e.enabled : Keyed(p)
    BY <1>0 DEF Enquiries, UploadTyped, IsParserEnabled, Keyed
  <2>2. enquiries' = [enquiries EXCEPT ![o] = e]
    BY <1>3 DEF ListParsers
  <2>u. UNCHANGED <<settingsOfParsers, pendingFiles, showParserDialog, offered, selectedParser, sending,
                    askedParser, atServer, parsing>>
    BY <1>3 DEF ListParsers
  <2> HIDE DEF e
  <2>3. enquiries' \in [Enquirers -> Enquiries]
        /\ \A q \in Enquirers : enquiries'[q] = e \/ enquiries'[q] = enquiries[q]
    BY <1>0, <2>1, <2>2 DEF UploadTyped
  <2>4. \A p : Keyed(p)' <=> Keyed(p)
    BY <2>u DEF Keyed, settingsOfParsers
  <2>5. UploadTyped'
    BY <1>0, <2>3, <2>u DEF settingsOfParsers, UploadTyped
  <2>6. \A q \in Enquirers : \A p \in enquiries'[q].enabled : Keyed(p)
    BY <1>0, <2>1, <2>3 DEF OfferedHaveKeys
  <2>7. OfferedHaveKeys'
    BY <1>0, <2>4, <2>6, <2>u DEF OfferedHaveKeys
  <2>8. BatchIsNew' /\ ParsedAsSent' /\ DialogHasItsBatch'
    BY <1>0, <2>u DEF settingsOfParsers, BatchIsNew, SentWasAsked, ParsedAsSent, Uploading, SentWasAsked, DialogHasItsBatch
  <2> QED
    BY <2>5, <2>7, <2>8
<1>4. ASSUME NEW o \in Enquirers, ParsersOffered(o)
      PROVE  UploadTyped' /\ OfferedHaveKeys' /\ BatchIsNew' /\ ParsedAsSent' /\ DialogHasItsBatch'
  <2>1. enquiries[o] \in Enquiries
    BY <1>0 DEF UploadTyped
  <2>2. PICK e : e = [enquiries[o] EXCEPT !.st = "done"]
    OBVIOUS
  <2>3. e \in Enquiries /\ e.enabled = enquiries[o].enabled
    BY ONLY <2>1, <2>2 DEF Enquiries
  <2>4. enquiries' = [enquiries EXCEPT ![o] = e]
    BY <1>4, <2>2 DEF ParsersOffered
  <2>5. enquiries' \in [Enquirers -> Enquiries] /\ \A q \in Enquirers : enquiries'[q].enabled = enquiries[q].enabled
    BY <1>0, <2>1, <2>3, <2>4 DEF UploadTyped
  <2>6. offered' \in {offered, enquiries[o].enabled} /\ enquiries[o].enabled \subseteq Parsers
    BY <1>4, <2>1 DEF ParsersOffered, Enquiries
  <2>u. UNCHANGED <<settingsOfParsers, pendingFiles, showParserDialog, sending, askedParser, atServer, parsing>>
    BY <1>4 DEF ParsersOffered
  <2>7. UploadTyped' /\ OfferedHaveKeys'
    BY <1>0, <2>5, <2>6, <2>u DEF settingsOfParsers, UploadTyped, OfferedHaveKeys, Keyed
  <2>8. BatchIsNew' /\ ParsedAsSent' /\ DialogHasItsBatch'
    BY <1>0, <2>u DEF settingsOfParsers, BatchIsNew, SentWasAsked, ParsedAsSent, Uploading, SentWasAsked, DialogHasItsBatch
  <2> QED
    BY <2>7, <2>8
<1>5. ASSUME NEW p \in Parsers, ChooseParser(p)
      PROVE  UploadTyped' /\ OfferedHaveKeys' /\ BatchIsNew' /\ ParsedAsSent' /\ DialogHasItsBatch'
  BY <1>0, <1>5 DEF ChooseParser, settingsOfParsers, UploadTyped, OfferedHaveKeys, Keyed, BatchIsNew, SentWasAsked, ParsedAsSent,
      Uploading, SentWasAsked, DialogHasItsBatch
<1>6. ASSUME CancelParserDialog
      PROVE  UploadTyped' /\ OfferedHaveKeys' /\ BatchIsNew' /\ ParsedAsSent' /\ DialogHasItsBatch'
  BY <1>0, <1>6 DEF CancelParserDialog, settingsOfParsers, UploadTyped, OfferedHaveKeys, Keyed, BatchIsNew, SentWasAsked,
      ParsedAsSent, DialogHasItsBatch
<1>7. ASSUME ConfirmParserSelection
      PROVE  UploadTyped' /\ OfferedHaveKeys' /\ BatchIsNew' /\ ParsedAsSent' /\ DialogHasItsBatch'
  <2> DEFINE way == [f \in PickFiles |-> IF f \in pendingFiles THEN "waiting" ELSE "none"]
  <2>1. way \in [PickFiles -> {"none", "waiting", "sent", "answered"}] /\ SendUploads(way)
    BY <1>7 DEF ConfirmParserSelection
  <2>2. \A f \in PickFiles : (way[f] = "none" <=> f \notin pendingFiles) /\ (way[f] = "waiting" => f \in pendingFiles)
    OBVIOUS
  <2> HIDE DEF way
  <2>3. /\ sending' \in [PickFiles -> {"none", "waiting", "sent", "answered"}]
        /\ \A f \in PickFiles : sending'[f] # "none" <=> f \in pendingFiles
        /\ \A f \in atServer' : f \in atServer \/ f \in PickFiles \cap pendingFiles
    BY <2>1, <2>2, SendsWaiting
  <2>4. /\ ~Uploading /\ selectedParser \in offered
        /\ askedParser' = [f \in PickFiles |-> IF f \in pendingFiles THEN selectedParser ELSE askedParser[f]]
        /\ UNCHANGED <<settingsOfParsers, dialogVars, parsing>>
    BY <1>7 DEF ConfirmParserSelection, CanConfirmUpload
  <2>5. selectedParser \in Parsers /\ selectedParser # None /\ Keyed(selectedParser)
    BY <1>0, <2>4 DEF UploadTyped, OfferedHaveKeys
  <2>6. \A f \in pendingFiles : askedParser[f] = None /\ parsing[f] = "none" /\ f \in PickFiles
    BY <1>0, <2>4 DEF BatchIsNew, UploadTyped
  <2>7. UploadTyped'
    BY <1>0, <2>3, <2>4, <2>5 DEF UploadTyped, settingsOfParsers, dialogVars
  <2>8. OfferedHaveKeys'
    BY <1>0, <2>4, <2>5 DEF OfferedHaveKeys, Keyed, settingsOfParsers, dialogVars
  <2>9. BatchIsNew'
    BY <1>0, <2>3, <2>4, <2>5, <2>6 DEF BatchIsNew, SentWasAsked, Uploading, dialogVars
  <2>10. ParsedAsSent'
    BY <1>0, <2>4, <2>6 DEF ParsedAsSent, settingsOfParsers
  <2>11. DialogHasItsBatch'
    BY <1>0, <2>3, <2>4 DEF DialogHasItsBatch, dialogVars
  <2> QED
    BY <2>7, <2>8, <2>9, <2>10, <2>11
<1>8. ASSUME NEW f \in PickFiles, FileStored(f)
      PROVE  UploadTyped' /\ OfferedHaveKeys' /\ BatchIsNew' /\ ParsedAsSent' /\ DialogHasItsBatch'
  <2>1. /\ sending' \in [PickFiles -> {"none", "waiting", "sent", "answered"}]
        /\ \A g \in PickFiles : sending'[g] # "none" <=> sending[g] # "none"
    BY <1>0, <1>8 DEF FileStored, UploadTyped
  <2>2. /\ atServer' = atServer \ {f} /\ f \in atServer
        /\ UNCHANGED <<settingsOfParsers, dialogVars, askedParser>>
        /\ parsing' = parsing \/ parsing' = [parsing EXCEPT ![f] = "queued"]
    BY <1>8 DEF FileStored
  <2>3. parsing' \in [PickFiles -> {"none", "queued", "failed"} \cup Parsers]
        /\ \A g \in PickFiles : parsing'[g] = parsing[g] \/ (g = f /\ parsing'[g] = "queued")
    BY <1>0, <2>2 DEF UploadTyped
  <2>4. UploadTyped' /\ OfferedHaveKeys'
    BY <1>0, <2>1, <2>2, <2>3 DEF UploadTyped, OfferedHaveKeys, Keyed, settingsOfParsers, dialogVars
  <2>5. BatchIsNew' /\ DialogHasItsBatch'
    BY <1>0, <2>1, <2>2, <2>3 DEF BatchIsNew, SentWasAsked, DialogHasItsBatch, Uploading, dialogVars
  <2>6. ParsedAsSent'
    BY <1>0, <2>2, <2>3 DEF ParsedAsSent, settingsOfParsers
  <2> QED
    BY <2>4, <2>5, <2>6
<1>9. ASSUME NEW f \in PickFiles, UploadAnswered(f)
      PROVE  UploadTyped' /\ OfferedHaveKeys' /\ BatchIsNew' /\ ParsedAsSent' /\ DialogHasItsBatch'
  <2>1. PICK way : way = [sending EXCEPT ![f] = "none"]
    OBVIOUS
  <2>2. way \in [PickFiles -> {"none", "waiting", "sent", "answered"}]
        /\ \A g \in PickFiles : way[g] = IF g = f THEN "none" ELSE sending[g]
    BY <1>0, <2>1 DEF UploadTyped
  <2> DEFINE over == \A g \in PickFiles : way[g] = "none"
  <2>3. /\ sending[f] = "answered" /\ SendUploads(way)
        /\ pendingFiles' = IF over THEN {} ELSE pendingFiles
        /\ showParserDialog' = (showParserDialog /\ ~over)
        /\ UNCHANGED <<settingsOfParsers, offered, selectedParser, enquiries, askedParser, parsing>>
    BY <1>9, <2>1 DEF UploadAnswered
  <2>4. /\ sending' \in [PickFiles -> {"none", "waiting", "sent", "answered"}]
        /\ \A g \in PickFiles : sending'[g] = "none" <=> way[g] = "none"
        /\ \A g \in atServer' : g \in atServer \/ (g \in PickFiles /\ sending[g] = "waiting")
    BY <2>2, <2>3, SendsWaiting
  <2>5. \A g \in PickFiles : sending'[g] # "none" => sending[g] # "none"
    BY <2>2, <2>4
  <2>6. over <=> ~Uploading'
    BY <2>4 DEF Uploading
  <2>7. Uploading /\ showParserDialog
    BY <1>0, <2>3 DEF Uploading, DialogHasItsBatch
  <2> HIDE DEF over
  <2>8. UploadTyped'
    BY <1>0, <2>3, <2>4 DEF UploadTyped, settingsOfParsers
  <2>9. OfferedHaveKeys'
    BY <1>0, <2>3 DEF OfferedHaveKeys, Keyed, settingsOfParsers
  <2>10. BatchIsNew'
    <3>1. \A g \in PickFiles : askedParser'[g] = None => parsing'[g] = "none" /\ g \notin atServer'
      <4>1. \A g \in PickFiles : sending[g] # "none" => askedParser[g] # None
        BY <1>0 DEF BatchIsNew, SentWasAsked
      <4> QED
        BY <1>0, <2>3, <2>4, <4>1 DEF BatchIsNew, SentWasAsked
    <3>2. ~Uploading' => pendingFiles' = {}
      BY <2>3, <2>6
    <3>3. SentWasAsked'
      BY <1>0, <2>3, <2>5 DEF BatchIsNew, SentWasAsked
    <3> QED
      BY <3>1, <3>2, <3>3 DEF BatchIsNew
  <2>11. ParsedAsSent'
    BY <1>0, <2>3 DEF ParsedAsSent, settingsOfParsers
  <2>12. DialogHasItsBatch'
    BY <1>0, <2>3, <2>5, <2>6, <2>7 DEF DialogHasItsBatch, Uploading
  <2> QED
    BY <2>8, <2>9, <2>10, <2>11, <2>12
<1>10. ASSUME NEW f \in PickFiles, ParseFile(f)
      PROVE  UploadTyped' /\ OfferedHaveKeys' /\ BatchIsNew' /\ ParsedAsSent' /\ DialogHasItsBatch'
  <2> DEFINE p == ParserWithFallback(askedParser[f], FormatOf[f])
             result == IF p = None THEN "failed" ELSE p
  <2>1. parsing[f] = "queued" /\ parsing' = [parsing EXCEPT ![f] = result]
        /\ UNCHANGED <<settingsOfParsers, dialogVars, sending, askedParser, atServer>>
    BY <1>10 DEF ParseFile
  <2>2. askedParser[f] \in Parsers \cup {None} /\ askedParser[f] # None
    BY <1>0, <2>1 DEF UploadTyped, BatchIsNew
  <2>3. result \in {"failed"} \cup Parsers
    BY <1>0, <2>2 DEF ParserWithFallback
  <2>4. result \in Parsers =>
            \/ result = askedParser[f]
            \/ FormatOf[f] \notin Reads[askedParser[f]]
            \/ askedParser[f] \in KeyParsers \ keyed
    BY <1>0, <2>2 DEF ParserWithFallback, IsParserEnabled
  <2>5. askedParser[f] \in KeyParsers \ keyed => askedParser[f] \in keyTaken
    BY <1>0 DEF OfferedHaveKeys, Keyed
  <2> HIDE DEF p, result
  <2>6. parsing' \in [PickFiles -> {"none", "queued", "failed"} \cup Parsers]
        /\ \A g \in PickFiles : parsing'[g] = IF g = f THEN result ELSE parsing[g]
    BY <1>0, <2>1, <2>3 DEF UploadTyped
  <2>7. UploadTyped' /\ OfferedHaveKeys'
    BY <1>0, <2>1, <2>6 DEF UploadTyped, OfferedHaveKeys, Keyed, settingsOfParsers, dialogVars
  <2>8. BatchIsNew' /\ DialogHasItsBatch'
    BY <1>0, <2>1, <2>2, <2>6 DEF BatchIsNew, SentWasAsked, DialogHasItsBatch, Uploading, dialogVars
  <2>9. ParsedAsSent'
    BY <1>0, <2>1, <2>4, <2>5, <2>6 DEF ParsedAsSent, settingsOfParsers
  <2> QED
    BY <2>7, <2>8, <2>9
<1>11. CASE UNCHANGED uploadVars
  BY <1>0, <1>11 DEF uploadVars, settingsOfParsers, dialogVars, UploadTyped, OfferedHaveKeys, Keyed, BatchIsNew,
      ParsedAsSent, Uploading, SentWasAsked, DialogHasItsBatch
<1> QED
  BY <1>1, <1>2, <1>3, <1>4, <1>5, <1>6, <1>7, <1>8, <1>9, <1>10, <1>11 DEF UploadNext

\* A nonempty set of natural numbers has a least one.
LEMMA LeastNumber ==
  ASSUME NEW T \in SUBSET Nat, T # {}
  PROVE  \E i \in T : \A k \in T : ~(k < i)
<1>1. IsWellFoundedOn(OpToRel(<, Nat), Nat)
  BY NatLessThanWellFounded
<1>2. PICK i \in T : \A k \in T : <<k, i>> \notin OpToRel(<, Nat)
  BY <1>1, WFMin
<1>3. \A k \in T : <<k, i>> \notin {ss \in Nat \X Nat : ss[1] < ss[2]}
  BY <1>2 DEF OpToRel
<1> QED
  BY <1>3

\* There is a first parser of those that are enabled.
LEMMA FirstIsEnabled ==
  ASSUME NEW enabled \in SUBSET Parsers, enabled # {}
  PROVE  FirstOf(enabled) \in enabled
<1> DEFINE T == {i \in DOMAIN ParserOrder : ParserOrder[i] \in enabled}
<1>1. Len(ParserOrder) \in Nat /\ DOMAIN ParserOrder = 1 .. Len(ParserOrder)
  BY ParserAssumption
<1>2. T \in SUBSET Nat /\ T # {}
  BY <1>1 DEF Parsers
<1>3. PICK i \in T : \A k \in T : ~(k < i)
  BY <1>2, LeastNumber
<1>4. \A k \in 1 .. i - 1 : ParserOrder[k] \notin enabled
  <2> TAKE k \in 1 .. i - 1
  <2>1. k \in DOMAIN ParserOrder /\ k < i
    BY <1>1, <1>3
  <2> QED
    BY <1>3, <2>1
<1>5. \E j \in DOMAIN ParserOrder : ParserOrder[j] \in enabled /\ \A k \in 1 .. j - 1 : ParserOrder[k] \notin enabled
  BY <1>3, <1>4
<1> QED
  BY <1>5 DEF FirstOf

\* Docling needs no key, so no list is empty, and one parser is selected.
SelectedInv ==
    /\ selectedParser \in Parsers /\ keyChanges \in 0 .. KeyChanges
    /\ \A o \in Enquirers : enquiries[o].st = "read" => enquiries[o].enabled # {}

LEMMA SelectedInitial == UploadInit => SelectedInv
<1> SUFFICES ASSUME UploadInit PROVE SelectedInv
  OBVIOUS
<1>1. selectedParser \in Parsers
  BY ParserAssumption DEF UploadInit
<1>2. keyChanges \in 0 .. KeyChanges
  <2>1. keyChanges = 0 /\ KeyChanges \in Nat
    BY ParserAssumption DEF UploadInit
  <2> QED
    BY ONLY <2>1
<1>3. \A o \in Enquirers : enquiries[o].st # "read"
  BY DEF UploadInit
<1> QED
  BY <1>1, <1>2, <1>3 DEF SelectedInv

LEMMA SelectedStep == UploadInv /\ SelectedInv /\ [UploadNext]_uploadVars => SelectedInv'
<1> SUFFICES ASSUME UploadInv, SelectedInv, [UploadNext]_uploadVars PROVE SelectedInv'
  OBVIOUS
<1>0. UploadTyped /\ enquiries \in [Enquirers -> Enquiries]
  BY DEF UploadInv, UploadTyped
<1>1. ASSUME ParserSettingsChange PROVE SelectedInv'
  <2>1. UNCHANGED dialogVars /\ keyChanges < KeyChanges /\ keyChanges' = keyChanges + 1
    BY <1>1 DEF ParserSettingsChange
  <2>2. keyChanges' \in 0 .. KeyChanges
    <3>1. keyChanges \in 0 .. KeyChanges /\ KeyChanges \in Nat
      BY ParserAssumption DEF SelectedInv
    <3> QED
      BY ONLY <2>1, <3>1
  <2> QED
    BY <2>1, <2>2 DEF SelectedInv, dialogVars
<1>2. ASSUME NEW fs \in SUBSET PickFiles, NEW o \in Openings, OpenPendingFilesFlow(fs, o) PROVE SelectedInv'
  <2>1. o \in Enquirers /\ enquiries[o] \in Enquiries
    BY <1>0 DEF Enquirers
  <2>2. PICK e : e = [enquiries[o] EXCEPT !.st = "asked"]
    OBVIOUS
  <2>3. e.st = "asked"
    BY ONLY <2>1, <2>2 DEF Enquiries
  <2>4. enquiries' = [enquiries EXCEPT ![o] = e] /\ UNCHANGED settingsOfParsers /\ UNCHANGED selectedParser
    BY <1>2, <2>2 DEF OpenPendingFilesFlow
  <2>5. \A q \in Enquirers : enquiries'[q] = IF q = o THEN e ELSE enquiries[q]
    BY <1>0, <2>1, <2>4
  <2> QED
    BY <2>3, <2>4, <2>5 DEF SelectedInv, settingsOfParsers
<1>3. ASSUME NEW o \in Enquirers, ListParsers(o) PROVE SelectedInv'
  <2>1. PICK e : e = [st |-> "read", enabled |-> {p \in Parsers : IsParserEnabled(p)}, preferred |-> preferred]
    OBVIOUS
  <2>2. e.enabled = {p \in Parsers : IsParserEnabled(p)}
    BY <2>1
  <2>3. "docling" \in e.enabled
    BY <2>2, ParserAssumption DEF IsParserEnabled
  <2>4. enquiries' = [enquiries EXCEPT ![o] = e] /\ UNCHANGED settingsOfParsers /\ UNCHANGED selectedParser
    BY <1>3, <2>1 DEF ListParsers
  <2>5. \A q \in Enquirers : enquiries'[q] = IF q = o THEN e ELSE enquiries[q]
    BY <1>0, <2>4
  <2> QED
    BY <2>3, <2>4, <2>5 DEF SelectedInv, settingsOfParsers
<1>4. ASSUME NEW o \in Enquirers, ParsersOffered(o) PROVE SelectedInv'
  <2>1. PICK e : e = [enquiries[o] EXCEPT !.st = "done"]
    OBVIOUS
  <2>2. e.st = "done" /\ enquiries[o].enabled \in SUBSET Parsers
    BY ONLY <1>0, <2>1, o \in Enquirers DEF Enquiries
  <2>3. enquiries' = [enquiries EXCEPT ![o] = e] /\ UNCHANGED settingsOfParsers
    BY <1>4, <2>1 DEF ParsersOffered
  <2>4. \A q \in Enquirers : enquiries'[q] = IF q = o THEN e ELSE enquiries[q]
    BY <1>0, <2>3
  <2>5. selectedParser' \in Parsers
    <3>1. "docling" \in Parsers /\ selectedParser \in Parsers
      BY ParserAssumption DEF SelectedInv
    <3>2. enquiries[o].st = "read" => FirstOf(enquiries[o].enabled) \in Parsers
      BY <2>2, FirstIsEnabled DEF SelectedInv
    <3>3. enquiries[o].preferred \in enquiries[o].enabled => enquiries[o].preferred \in Parsers
      BY <2>2
    <3> QED
      BY <1>4, <3>1, <3>2, <3>3 DEF ParsersOffered
  <2> QED
    BY <2>2, <2>3, <2>4, <2>5 DEF SelectedInv, settingsOfParsers
<1>5. ASSUME NEW p \in Parsers, ChooseParser(p) PROVE SelectedInv'
  BY <1>5 DEF ChooseParser, SelectedInv, settingsOfParsers
<1>6. CASE CancelParserDialog
  BY <1>6 DEF CancelParserDialog, SelectedInv, settingsOfParsers
<1>7. CASE ConfirmParserSelection
  BY <1>7 DEF ConfirmParserSelection, SelectedInv, settingsOfParsers, dialogVars
<1>8. ASSUME NEW f \in PickFiles, FileStored(f) \/ UploadAnswered(f) \/ ParseFile(f) PROVE SelectedInv'
  BY <1>8 DEF FileStored, UploadAnswered, ParseFile, SelectedInv, settingsOfParsers, dialogVars
<1>9. CASE UNCHANGED uploadVars
  BY <1>9 DEF uploadVars, SelectedInv, settingsOfParsers, dialogVars
<1> QED
  BY <1>1, <1>2, <1>3, <1>4, <1>5, <1>6, <1>7, <1>8, <1>9 DEF UploadNext

LEMMA UploadTypesHold == UploadInv /\ SelectedInv => UploadTypeOK
BY DEF UploadInv, SelectedInv, UploadTyped, UploadTypeOK, Enquiries

-----------------------------------------------------------------------------
(* The page of documents.                                                  *)
Lists == [st : {"idle", "asked", "read"}, rows : Cards]
Renames == [doc : PageDocs, title : Titles, st : {"sent", "stored"}]
Deletions == [doc : PageDocs, st : {"sent", "done"}]
NewDocuments == [call : 1 .. PageChanges, fromDialog : BOOLEAN, st : {"sent", "done"}]

PageTyped ==
    /\ library \in Cards /\ documents \in Cards /\ loads \in [Loads -> Lists]
    /\ renames \subseteq Renames /\ deletions \subseteq Deletions /\ creations \subseteq NewDocuments
    /\ deletingDocId \in PageDocs \cup {NoDoc}
    /\ showCreateForm \in BOOLEAN /\ newDocumentTitle \in BOOLEAN /\ retyped \in BOOLEAN
    /\ crossed \in BOOLEAN /\ loading \in BOOLEAN
    /\ newDocumentDescription \in Drafts \cup {NoDraft} /\ promptFor \in Drafts \cup {NoDraft}
    /\ generating \subseteq Drafts /\ pageChanges \in 0 .. PageChanges

\* Both forms of the type invariant say the same.
LEMMA PageTypes == (PageTypeOK <=> PageTyped) /\ (PageTypeOK' <=> PageTyped')
BY DEF PageTypeOK, PageTyped, Lists, Renames, Deletions, NewDocuments

\* While the form stays as it was, a prompt is written for what it says.
WritingFits == ~retyped => generating \subseteq {newDocumentDescription}

\* As long as nothing has crossed or failed one call is under way at a time,
\* and the cards lag behind the server by no more than that call.
AloneOnPage ==
    /\ \A l, k \in Asks : l = k
    /\ Asks # {} => ~Writing
    /\ \A l \in Asks : loads[l].st = "read" => loads[l].rows = library
    /\ \A a, b \in renames : a = b
    /\ \A a, b \in deletions : a = b
    /\ \A a, b \in creations : a = b
    /\ renames # {} => deletions = {} /\ creations = {}
    /\ deletions # {} => creations = {}
CardsLag ==
    Asks = {} =>
        /\ (\A a \in renames \cup deletions \cup creations : a.st = "sent") => documents = library
        /\ \A r \in renames : r.st = "stored" => r.doc \in Listed /\ library = [documents EXCEPT ![r.doc] = r.title]
CardsFollow == ~crossed => AloneOnPage /\ CardsLag

PageInv == PageTyped /\ WritingFits /\ PromptFitsDocument /\ CardsFollow

LEMMA PageInitial == PageInit => PageInv
<1> SUFFICES ASSUME PageInit PROVE PageInv
  OBVIOUS
<1>1. NoCards \in Cards /\ PageChanges \in Nat
  BY PageAssumption DEF NoCards, Cards
<1>2. PICK first \in Loads :
          loads = [k \in Loads |-> [NotLoading EXCEPT !.st = IF k = first THEN "asked" ELSE "idle"]]
  BY DEF PageInit
<1>3. \A k \in Loads : [NotLoading EXCEPT !.st = IF k = first THEN "asked" ELSE "idle"]
                        = [st |-> IF k = first THEN "asked" ELSE "idle", rows |-> NoCards]
  BY DEF NotLoading
<1>4. \A k \in Loads : loads[k] = [st |-> IF k = first THEN "asked" ELSE "idle", rows |-> NoCards]
  BY <1>2, <1>3
<1>5. loads \in [Loads -> Lists]
  BY <1>1, <1>2, <1>4 DEF Lists
<1>6. Asks = {first} /\ loads[first].st = "asked"
  <2>1. loads[first] = [st |-> "asked", rows |-> NoCards]
    BY <1>4, Zenon
  <2>2. \A k \in Loads \ {first} : loads[k] = [st |-> "idle", rows |-> NoCards]
    <3> SUFFICES ASSUME NEW k \in Loads, k # first PROVE loads[k] = [st |-> "idle", rows |-> NoCards]
      OBVIOUS
    <3> QED
      BY <1>4, Zenon
  <2> QED
    BY <2>1, <2>2 DEF Asks
<1>7. PageTyped
  <2>1. pageChanges \in 0 .. PageChanges
    BY <1>1 DEF PageInit
  <2>2. /\ showCreateForm \in BOOLEAN /\ newDocumentTitle \in BOOLEAN /\ retyped \in BOOLEAN
        /\ crossed \in BOOLEAN /\ loading \in BOOLEAN
    BY Zenon DEF PageInit
  <2> QED
    BY <1>1, <1>5, <2>1, <2>2 DEF PageInit, PageTyped
<1> QED
  BY <1>6, <1>7 DEF PageInit, PageInv, WritingFits, PromptFitsDocument, CardsFollow, AloneOnPage, CardsLag, Writing

\* A list is asked for beside those there are.
LEMMA ListAsked ==
  ASSUME loads \in [Loads -> Lists], LoadDocuments
  PROVE  /\ loads' \in [Loads -> Lists]
         /\ \E l \in Loads : Asks' = Asks \cup {l} /\ loads'[l].st = "asked"
         /\ crossed' = (Asks # {} \/ Writing')
<1>1. PICK l \in Loads \ Asks : loads' = [loads EXCEPT ![l] = [NotLoading EXCEPT !.st = "asked"]]
  BY DEF LoadDocuments
<1>2. [NotLoading EXCEPT !.st = "asked"] = [st |-> "asked", rows |-> NoCards] /\ NoCards \in Cards
  BY DEF NotLoading, NoCards, Cards
<1>3. loads' \in [Loads -> Lists] /\ loads'[l].st = "asked" /\ \A k \in Loads \ {l} : loads'[k] = loads[k]
  BY <1>1, <1>2 DEF Lists
<1>4. Asks' = Asks \cup {l}
  BY <1>3 DEF Asks
<1> QED
  BY <1>3, <1>4 DEF LoadDocuments

LEMMA PageTypesStep ==
  ASSUME PageTyped, PageNext
  PROVE  PageTyped'
<1>0. NoTitle \notin Titles /\ PageChanges \in Nat
  BY PageAssumption
<1>1. ASSUME NEW l \in Loads, ListRead(l) \/ ListAnswers(l) PROVE PageTyped'
  <2>1. NotLoading \in Lists
    BY DEF NotLoading, Lists, NoCards, Cards
  <2>2. loads[l] \in Lists /\ [st |-> "read", rows |-> library] \in Lists
    BY DEF PageTyped, Lists
  <2>3. loads' \in [Loads -> Lists]
    BY <1>1, <2>1, <2>2 DEF ListRead, ListAnswers, PageTyped
  <2>4. documents' \in Cards
    BY <1>1, <2>2 DEF ListRead, ListAnswers, PageTyped, Lists
  <2>5. pageChanges' \in 0 .. PageChanges
    <3>1. pageChanges' = pageChanges \/ PageChanged
      BY <1>1 DEF ListRead, ListAnswers
    <3> QED
      BY <1>0, <3>1 DEF PageTyped, PageChanged
  <2>6. crossed' \in BOOLEAN
    BY <1>1, Zenon DEF ListRead, ListAnswers, PageTyped
  <2> QED
    BY <1>1, <2>3, <2>4, <2>5, <2>6 DEF ListRead, ListAnswers, PageTyped, formVars
<1>2. ASSUME NEW d \in PageDocs, NEW title \in Titles, OnDocumentTitleChange(d, title) PROVE PageTyped'
  BY <1>0, <1>2 DEF OnDocumentTitleChange, PageChanged, PageTyped, formVars, Renames
<1>3. ASSUME NEW d \in PageDocs, NEW fromMenu \in BOOLEAN, DeleteDocument(d, fromMenu) PROVE PageTyped'
  BY <1>0, <1>3 DEF DeleteDocument, PageChanged, PageTyped, formVars, Deletions
<1>4. ASSUME NEW r \in renames, RenameStored(r) \/ RenameAnswers(r) \/ RenameFails(r) PROVE PageTyped'
  <2>1. r \in Renames
    BY DEF PageTyped
  <2>2. PICK s : s = [r EXCEPT !.st = "stored"]
    OBVIOUS
  <2>3. s \in Renames
    BY ONLY <2>1, <2>2 DEF Renames
  <2>4. \A h \in Cards : [h EXCEPT ![r.doc] = r.title] \in Cards
    BY <2>1 DEF Renames, Cards
  <2>5. renames' \subseteq Renames
    BY <1>4, <2>2, <2>3 DEF RenameStored, RenameAnswers, RenameFails, PageTyped
  <2>6. library' \in Cards /\ documents' \in Cards
    BY <1>4, <2>4 DEF RenameStored, RenameAnswers, RenameFails, PageTyped
  <2>7. CASE RenameStored(r) \/ RenameAnswers(r)
    BY <2>5, <2>6, <2>7 DEF RenameStored, RenameAnswers, PageTyped, formVars
  <2>8. CASE RenameFails(r)
    <3>1. crossed' \in BOOLEAN
      BY <2>8, Zenon DEF RenameFails, PageTyped
    <3> QED
      BY <1>0, <2>5, <2>6, <2>8, <3>1 DEF RenameFails, PageChanged, PageTyped, formVars
  <2> QED
    BY <1>4, <2>7, <2>8
<1>5. ASSUME NEW e \in deletions, DocumentDeleted(e) PROVE PageTyped'
  <2>1. e \in Deletions
    BY DEF PageTyped
  <2>2. PICK s : s = [e EXCEPT !.st = "done"]
    OBVIOUS
  <2>3. s \in Deletions
    BY ONLY <2>1, <2>2 DEF Deletions
  <2>4. [library EXCEPT ![e.doc] = NoTitle] \in Cards
    BY <2>1 DEF Deletions, Cards, PageTyped
  <2>5. deletions' \subseteq Deletions /\ library' \in Cards
    BY <1>5, <2>2, <2>3, <2>4 DEF DocumentDeleted, PageTyped
  <2> QED
    BY <1>5, <2>5 DEF DocumentDeleted, PageTyped, formVars
<1>6. ASSUME NEW e \in deletions, DeletionAnswers(e) PROVE PageTyped'
  <2>1. loads' \in [Loads -> Lists] /\ crossed' \in BOOLEAN
    BY <1>6, ListAsked, Zenon DEF DeletionAnswers, PageTyped
  <2> QED
    BY <1>6, <2>1 DEF DeletionAnswers, PageTyped, formVars
<1>7. ASSUME OpenCreateForm \/ CancelForm \/ ClosePromptDialog PROVE PageTyped'
  BY <1>7 DEF OpenCreateForm, CancelForm, ClosePromptDialog, PageTyped, cardVars
<1>8. ASSUME GenerateFromForm \/ RecreatePrompt PROVE PageTyped'
  <2>1. OnGeneratePrompt
    BY <1>8 DEF GenerateFromForm, RecreatePrompt
  <2>2. pageChanges' \in 0 .. PageChanges
    BY <1>0, <2>1 DEF OnGeneratePrompt, PageChanged, PageTyped
  <2>3. generating' \subseteq Drafts /\ promptFor' \in Drafts \cup {NoDraft}
    BY <2>1 DEF OnGeneratePrompt, PageTyped
  <2>4. retyped' \in BOOLEAN
    BY <2>1, Zenon DEF OnGeneratePrompt
  <2> QED
    BY <2>1, <2>2, <2>3, <2>4 DEF OnGeneratePrompt, PageTyped, cardVars
<1>9. ASSUME NEW draft \in Drafts, OnDescriptionInput(draft) \/ PromptGenerated(draft) PROVE PageTyped'
  BY <1>9 DEF OnDescriptionInput, PromptGenerated, PageTyped, cardVars
<1>10. ASSUME CreateDocument \/ DoCreateDocument PROVE PageTyped'
  <2>1. PICK fromDialog \in BOOLEAN : Sends(fromDialog)
    BY <1>10 DEF CreateDocument, DoCreateDocument
  <2>2. promptFor' \in Drafts \cup {NoDraft}
    BY <1>10 DEF CreateDocument, DoCreateDocument, PageTyped
  <2>3. pageChanges' \in 1 .. PageChanges
    BY <1>0, <2>1 DEF Sends, PageChanged, PageTyped
  <2>4. creations' \subseteq NewDocuments
    BY <2>1, <2>3 DEF Sends, NewDocuments, PageTyped
  <2> QED
    BY <1>0, <2>1, <2>2, <2>3, <2>4 DEF Sends, PageTyped, cardVars
<1>11. ASSUME NEW c \in creations, DocumentCreated(c) PROVE PageTyped'
  <2>1. c \in NewDocuments
    BY DEF PageTyped
  <2>2. PICK s : s = [c EXCEPT !.st = "done"]
    OBVIOUS
  <2>3. s \in NewDocuments
    BY ONLY <2>1, <2>2 DEF NewDocuments
  <2>4. \A d \in PageDocs, title \in Titles : [library EXCEPT ![d] = title] \in Cards
    BY DEF Cards, PageTyped
  <2>5. creations' \subseteq NewDocuments /\ library' \in Cards
    BY <1>11, <2>2, <2>3, <2>4 DEF DocumentCreated, PageTyped
  <2> QED
    BY <1>11, <2>5 DEF DocumentCreated, PageTyped
<1>12. ASSUME NEW c \in creations, CreationAnswers(c) PROVE PageTyped'
  <2>1. loads' \in [Loads -> Lists] /\ crossed' \in BOOLEAN
    BY <1>12, ListAsked, Zenon DEF CreationAnswers, PageTyped
  <2> QED
    BY <1>12, <2>1 DEF CreationAnswers, PageTyped
<1>13. ASSUME NEW e \in deletions, DeletionFails(e) PROVE PageTyped'
  <2>1. crossed' \in BOOLEAN
    BY <1>13, Zenon DEF DeletionFails, PageTyped
  <2> QED
    BY <1>0, <1>13, <2>1 DEF DeletionFails, PageChanged, PageTyped, formVars
<1>14. ASSUME NEW c \in creations, CreationFails(c) PROVE PageTyped'
  <2>1. crossed' \in BOOLEAN
    BY <1>14, Zenon DEF CreationFails, PageTyped
  <2>2. pageChanges' \in 0 .. PageChanges
    BY <1>0, <1>14 DEF CreationFails, PageChanged, PageTyped
  <2>3. creations' \subseteq NewDocuments /\ loading' \in BOOLEAN
    BY <1>14 DEF CreationFails, PageTyped
  <2>4. UNCHANGED <<cardVars, showCreateForm, newDocumentTitle, newDocumentDescription, generating,
                    promptFor, retyped>>
    BY <1>14 DEF CreationFails
  <2> QED
    BY <2>1, <2>2, <2>3, <2>4 DEF PageTyped, cardVars
<1> QED
  BY <1>1, <1>2, <1>3, <1>4, <1>5, <1>6, <1>7, <1>8, <1>9, <1>10, <1>11, <1>12, <1>13, <1>14 DEF PageNext

LEMMA PromptStep ==
  ASSUME PageTyped, WritingFits, PromptFitsDocument, PageNext
  PROVE  WritingFits' /\ PromptFitsDocument'
<1>1. ASSUME NEW l \in Loads, ListRead(l) \/ ListAnswers(l) PROVE WritingFits' /\ PromptFitsDocument'
  BY <1>1 DEF ListRead, ListAnswers, WritingFits, PromptFitsDocument, formVars
<1>2. ASSUME NEW d \in PageDocs, \/ \E title \in Titles : OnDocumentTitleChange(d, title)
                                \/ \E fromMenu \in BOOLEAN : DeleteDocument(d, fromMenu)
      PROVE  WritingFits' /\ PromptFitsDocument'
  BY <1>2 DEF OnDocumentTitleChange, DeleteDocument, WritingFits, PromptFitsDocument, formVars
<1>3. ASSUME NEW r \in renames, RenameStored(r) \/ RenameAnswers(r) \/ RenameFails(r)
      PROVE  WritingFits' /\ PromptFitsDocument'
  BY <1>3 DEF RenameStored, RenameAnswers, RenameFails, WritingFits, PromptFitsDocument, formVars
<1>4. ASSUME NEW e \in deletions, DocumentDeleted(e) \/ DeletionAnswers(e) \/ DeletionFails(e)
      PROVE  WritingFits' /\ PromptFitsDocument'
  BY <1>4 DEF DocumentDeleted, DeletionAnswers, DeletionFails, WritingFits, PromptFitsDocument, formVars
<1>5. ASSUME OpenCreateForm \/ CancelForm \/ ClosePromptDialog PROVE WritingFits' /\ PromptFitsDocument'
  BY <1>5 DEF OpenCreateForm, CancelForm, ClosePromptDialog, WritingFits, PromptFitsDocument
<1>6. ASSUME GenerateFromForm \/ RecreatePrompt PROVE WritingFits' /\ PromptFitsDocument'
  BY <1>6 DEF GenerateFromForm, RecreatePrompt, OnGeneratePrompt, WritingFits, PromptFitsDocument
<1>7. ASSUME NEW draft \in Drafts, OnDescriptionInput(draft) \/ PromptGenerated(draft)
      PROVE  WritingFits' /\ PromptFitsDocument'
  BY <1>7 DEF OnDescriptionInput, PromptGenerated, WritingFits, PromptFitsDocument
<1>8. ASSUME CreateDocument \/ DoCreateDocument PROVE WritingFits' /\ PromptFitsDocument'
  BY <1>8 DEF CreateDocument, DoCreateDocument, Sends, WritingFits, PromptFitsDocument
<1>9. ASSUME NEW c \in creations, DocumentCreated(c) \/ CreationAnswers(c) \/ CreationFails(c)
      PROVE  WritingFits' /\ PromptFitsDocument'
  BY <1>9 DEF DocumentCreated, CreationAnswers, CreationFails, WritingFits, PromptFitsDocument
<1> QED
  BY <1>1, <1>2, <1>3, <1>4, <1>5, <1>6, <1>7, <1>8, <1>9 DEF PageNext

\* A write begins only with the page at rest, or it has crossed.
LEMMA CardsWritten ==
  ASSUME PageTyped, CardsFollow, crossed' = (crossed \/ Writing \/ Asks # {}),
         UNCHANGED <<library, documents, loads>>,
         \/ \E r : renames' = renames \cup {r} /\ r.st = "sent" /\ UNCHANGED <<deletions, creations>>
         \/ \E e : deletions' = deletions \cup {e} /\ e.st = "sent" /\ UNCHANGED <<renames, creations>>
         \/ \E c : creations' = creations \cup {c} /\ c.st = "sent" /\ UNCHANGED <<renames, deletions>>
  PROVE  CardsFollow'
<1> SUFFICES ASSUME ~crossed' PROVE AloneOnPage' /\ CardsLag'
  BY DEF CardsFollow
<1>1. ~crossed /\ Asks = {} /\ renames = {} /\ deletions = {} /\ creations = {}
  BY DEF Writing
<1>2. documents = library /\ Asks' = {}
  BY <1>1 DEF CardsFollow, CardsLag, Asks
<1>3. AloneOnPage'
  BY <1>1, <1>2 DEF AloneOnPage, Writing
<1>4. CardsLag'
  BY <1>1, <1>2 DEF CardsLag
<1> QED
  BY <1>3, <1>4

\* The answer to a write asks for the list, beside nothing.
LEMMA CardsAskedAgain ==
  ASSUME PageTyped, LoadDocuments
  PROVE  CardsFollow'
<1> SUFFICES ASSUME ~crossed' PROVE AloneOnPage' /\ CardsLag'
  BY DEF CardsFollow
<1>1. PICK l \in Loads : Asks' = Asks \cup {l} /\ loads'[l].st = "asked"
  BY ListAsked DEF PageTyped
<1>2. Asks = {} /\ ~Writing'
  BY ListAsked DEF PageTyped
<1>3. Asks' = {l} /\ renames' = {} /\ deletions' = {} /\ creations' = {}
  BY <1>1, <1>2 DEF Writing
<1>4. AloneOnPage'
  BY <1>1, <1>3 DEF AloneOnPage, Writing
<1> QED
  BY <1>3, <1>4 DEF CardsLag

\* A change that fails before the server has done it is as if never sent.
LEMMA CardsUntouched ==
  ASSUME PageTyped, CardsFollow, UNCHANGED <<library, documents, loads>>,
         \/ \E r \in renames : /\ renames' = renames \ {r} /\ crossed' = (crossed \/ r.st = "stored")
                               /\ r.st \in {"sent", "stored"} /\ UNCHANGED <<deletions, creations>>
         \/ \E e \in deletions : /\ deletions' = deletions \ {e} /\ crossed' = (crossed \/ e.st = "done")
                                 /\ e.st \in {"sent", "done"} /\ UNCHANGED <<renames, creations>>
         \/ \E c \in creations : /\ creations' = creations \ {c} /\ crossed' = (crossed \/ c.st = "done")
                                 /\ c.st \in {"sent", "done"} /\ UNCHANGED <<renames, deletions>>
  PROVE  CardsFollow'
<1> SUFFICES ASSUME ~crossed' PROVE AloneOnPage' /\ CardsLag'
  BY DEF CardsFollow
<1>1. ~crossed /\ AloneOnPage /\ CardsLag
  BY DEF CardsFollow
<1>2. Asks = {} /\ Asks' = {}
  <2>1. Writing
    BY DEF Writing
  <2>2. Asks = {}
    BY <1>1, <2>1 DEF AloneOnPage
  <2> QED
    BY <2>2 DEF Asks
<1>3. /\ \A a \in renames \cup deletions \cup creations : a.st = "sent"
      /\ renames' = {} /\ deletions' = {} /\ creations' = {}
  <2>0. /\ \A a, b \in renames : a = b
        /\ \A a, b \in deletions : a = b
        /\ \A a, b \in creations : a = b
        /\ renames # {} => deletions = {} /\ creations = {}
        /\ deletions # {} => creations = {}
    BY <1>1 DEF AloneOnPage
  <2>1. CASE \E r \in renames : /\ renames' = renames \ {r} /\ crossed' = (crossed \/ r.st = "stored")
                                /\ r.st \in {"sent", "stored"} /\ UNCHANGED <<deletions, creations>>
    BY <2>0, <2>1
  <2>2. CASE \E e \in deletions : /\ deletions' = deletions \ {e} /\ crossed' = (crossed \/ e.st = "done")
                                  /\ e.st \in {"sent", "done"} /\ UNCHANGED <<renames, creations>>
    BY <2>0, <2>2
  <2>3. CASE \E c \in creations : /\ creations' = creations \ {c} /\ crossed' = (crossed \/ c.st = "done")
                                  /\ c.st \in {"sent", "done"} /\ UNCHANGED <<renames, deletions>>
    BY <2>0, <2>3
  <2> QED
    BY <2>1, <2>2, <2>3
<1>4. documents = library
  BY <1>1, <1>2, <1>3 DEF CardsLag
<1>5. AloneOnPage'
  BY <1>2, <1>3 DEF AloneOnPage, Writing
<1> QED
  BY <1>2, <1>3, <1>4, <1>5 DEF CardsLag

LEMMA CardsStep ==
  ASSUME PageTyped, CardsFollow, PageNext
  PROVE  CardsFollow'
<1>1. ASSUME NEW l \in Loads, ListRead(l) PROVE CardsFollow'
  <2> SUFFICES ASSUME ~crossed' PROVE AloneOnPage' /\ CardsLag'
    BY DEF CardsFollow
  <2>1. loads'[l] = [st |-> "read", rows |-> library] /\ \A k \in Loads \ {l} : loads'[k] = loads[k]
    BY <1>1 DEF ListRead, PageTyped
  <2>2. l \in Asks /\ Asks' = Asks
    BY <1>1, <2>1 DEF ListRead, Asks
  <2>3. AloneOnPage
    BY <1>1 DEF CardsFollow, ListRead
  <2>4. UNCHANGED <<library, documents, renames, deletions, creations>>
    BY <1>1 DEF ListRead, formVars
  <2>5. Asks = {l}
    BY <2>2, <2>3 DEF AloneOnPage
  <2> QED
    BY <2>1, <2>2, <2>3, <2>4, <2>5 DEF AloneOnPage, CardsLag, Writing
<1>2. ASSUME NEW l \in Loads, ListAnswers(l) PROVE CardsFollow'
  <2> SUFFICES ASSUME ~crossed' PROVE AloneOnPage' /\ CardsLag'
    BY DEF CardsFollow
  <2>1. loads'[l] = NotLoading /\ \A k \in Loads \ {l} : loads'[k] = loads[k]
    BY <1>2 DEF ListAnswers, PageTyped
  <2>2. l \in Asks /\ Asks' = Asks \ {l}
    BY <1>2, <2>1 DEF ListAnswers, Asks, NotLoading
  <2>3. documents' = loads[l].rows /\ ~crossed /\ loads[l].st = "read"
    BY <1>2 DEF ListAnswers
  <2>4. AloneOnPage
    BY <2>3 DEF CardsFollow
  <2>5. UNCHANGED <<library, renames, deletions, creations>>
    BY <1>2 DEF ListAnswers, formVars
  <2>6. Asks' = {} /\ ~Writing /\ documents' = library
    BY <2>2, <2>3, <2>4 DEF AloneOnPage
  <2> QED
    BY <2>4, <2>5, <2>6 DEF AloneOnPage, CardsLag, Writing
<1>3. ASSUME NEW d \in PageDocs, NEW title \in Titles, OnDocumentTitleChange(d, title) PROVE CardsFollow'
  <2> DEFINE r == [doc |-> d, title |-> title, st |-> "sent"]
  <2>1. renames' = renames \cup {r} /\ r.st = "sent"
    BY <1>3 DEF OnDocumentTitleChange
  <2> HIDE DEF r
  <2> QED
    BY <1>3, <2>1, CardsWritten DEF OnDocumentTitleChange, formVars
<1>4. ASSUME NEW d \in PageDocs, NEW fromMenu \in BOOLEAN, DeleteDocument(d, fromMenu) PROVE CardsFollow'
  <2> DEFINE e == [doc |-> d, st |-> "sent"]
  <2>1. deletions' = deletions \cup {e} /\ e.st = "sent"
    BY <1>4 DEF DeleteDocument
  <2> HIDE DEF e
  <2> QED
    BY <1>4, <2>1, CardsWritten DEF DeleteDocument, formVars
<1>5. ASSUME NEW r \in renames, RenameStored(r) PROVE CardsFollow'
  <2> SUFFICES ASSUME ~crossed' PROVE AloneOnPage' /\ CardsLag'
    BY DEF CardsFollow
  <2>1. AloneOnPage /\ CardsLag /\ r \in Renames /\ r.st = "sent"
    BY <1>5 DEF CardsFollow, RenameStored, PageTyped
  <2>2. renames = {r} /\ deletions = {} /\ creations = {} /\ Asks = {}
    BY <2>1 DEF AloneOnPage, Writing
  <2>3. documents = library
    BY <2>1, <2>2 DEF CardsLag
  <2>4. UNCHANGED <<documents, loads, deletions, creations>> /\ Asks' = Asks
    BY <1>5 DEF RenameStored, formVars, Asks
  <2>5. CASE r.doc \in Stored
    <3>1. PICK s : s = [r EXCEPT !.st = "stored"]
      OBVIOUS
    <3>2. s.st = "stored" /\ s.doc = r.doc /\ s.title = r.title
      BY ONLY <2>1, <3>1 DEF Renames
    <3>3. renames' = {s} /\ library' = [documents EXCEPT ![s.doc] = s.title] /\ s.doc \in Listed'
      BY <1>5, <2>2, <2>3, <2>4, <2>5, <3>1, <3>2 DEF RenameStored, Stored, Listed
    <3> QED
      BY <2>2, <2>4, <3>2, <3>3 DEF AloneOnPage, CardsLag, Writing
  <2>6. CASE r.doc \notin Stored
    <3>1. renames' = {} /\ library' = library
      BY <1>5, <2>2, <2>6 DEF RenameStored
    <3> QED
      BY <2>2, <2>3, <2>4, <3>1 DEF AloneOnPage, CardsLag, Writing
  <2> QED
    BY <2>5, <2>6
<1>6. ASSUME NEW r \in renames, RenameAnswers(r) PROVE CardsFollow'
  <2> SUFFICES ASSUME ~crossed' PROVE AloneOnPage' /\ CardsLag'
    BY DEF CardsFollow
  <2>1. AloneOnPage /\ CardsLag /\ r.st = "stored"
    BY <1>6 DEF CardsFollow, RenameAnswers
  <2>2. renames = {r} /\ deletions = {} /\ creations = {} /\ Asks = {}
    BY <2>1 DEF AloneOnPage, Writing
  <2>3. r.doc \in Listed /\ library = [documents EXCEPT ![r.doc] = r.title]
    BY <2>1, <2>2 DEF CardsLag
  <2>4. documents' = library' /\ renames' = {} /\ UNCHANGED <<loads, deletions, creations>> /\ Asks' = Asks
    BY <1>6, <2>2, <2>3 DEF RenameAnswers, formVars, Asks
  <2> QED
    BY <2>2, <2>4 DEF AloneOnPage, CardsLag, Writing
<1>7. ASSUME NEW e \in deletions, DocumentDeleted(e) PROVE CardsFollow'
  <2> SUFFICES ASSUME ~crossed' PROVE AloneOnPage' /\ CardsLag'
    BY DEF CardsFollow
  <2>1. AloneOnPage /\ CardsLag /\ e \in Deletions /\ e.st = "sent"
    BY <1>7 DEF CardsFollow, DocumentDeleted, PageTyped
  <2>2. deletions = {e} /\ renames = {} /\ creations = {} /\ Asks = {}
    BY <2>1 DEF AloneOnPage, Writing
  <2>3. documents = library
    BY <2>1, <2>2 DEF CardsLag
  <2>4. PICK s : s = [e EXCEPT !.st = "done"]
    OBVIOUS
  <2>5. s.st = "done"
    BY ONLY <2>1, <2>4 DEF Deletions
  <2>6. deletions' = {s}
    BY <1>7, <2>2, <2>4 DEF DocumentDeleted
  <2>7. UNCHANGED <<documents, loads, renames, creations>> /\ Asks' = Asks
    BY <1>7 DEF DocumentDeleted, formVars, Asks
  <2> QED
    BY <2>2, <2>3, <2>5, <2>6, <2>7 DEF AloneOnPage, CardsLag, Writing
<1>8. ASSUME NEW e \in deletions, DeletionAnswers(e) PROVE CardsFollow'
  BY <1>8, CardsAskedAgain DEF DeletionAnswers
<1>9. ASSUME OpenCreateForm \/ CancelForm \/ GenerateFromForm \/ RecreatePrompt \/ ClosePromptDialog PROVE CardsFollow'
  BY <1>9 DEF OpenCreateForm, CancelForm, GenerateFromForm, RecreatePrompt, OnGeneratePrompt, ClosePromptDialog,
      CardsFollow, AloneOnPage, CardsLag, Writing, Asks, Listed, cardVars
<1>10. ASSUME NEW draft \in Drafts, OnDescriptionInput(draft) \/ PromptGenerated(draft) PROVE CardsFollow'
  BY <1>10 DEF OnDescriptionInput, PromptGenerated, CardsFollow, AloneOnPage, CardsLag, Writing, Asks, Listed, cardVars
<1>11. ASSUME CreateDocument \/ DoCreateDocument PROVE CardsFollow'
  <2>1. PICK fromDialog \in BOOLEAN : Sends(fromDialog)
    BY <1>11 DEF CreateDocument, DoCreateDocument
  <2> DEFINE c == [call |-> pageChanges', fromDialog |-> fromDialog, st |-> "sent"]
  <2>2. creations' = creations \cup {c} /\ c.st = "sent"
    BY <2>1 DEF Sends
  <2> HIDE DEF c
  <2> QED
    BY <2>1, <2>2, CardsWritten DEF Sends, cardVars
<1>12. ASSUME NEW c \in creations, DocumentCreated(c) PROVE CardsFollow'
  <2> SUFFICES ASSUME ~crossed' PROVE AloneOnPage' /\ CardsLag'
    BY DEF CardsFollow
  <2>1. AloneOnPage /\ CardsLag /\ c \in NewDocuments /\ c.st = "sent"
    BY <1>12 DEF CardsFollow, DocumentCreated, PageTyped
  <2>2. creations = {c} /\ renames = {} /\ deletions = {} /\ Asks = {}
    BY <2>1 DEF AloneOnPage, Writing
  <2>3. documents = library
    BY <2>1, <2>2 DEF CardsLag
  <2>4. PICK s : s = [c EXCEPT !.st = "done"]
    OBVIOUS
  <2>5. s.st = "done"
    BY ONLY <2>1, <2>4 DEF NewDocuments
  <2>6. creations' = {s}
    BY <1>12, <2>2, <2>4 DEF DocumentCreated
  <2>7. UNCHANGED <<documents, loads, renames, deletions>> /\ Asks' = Asks
    BY <1>12 DEF DocumentCreated, Asks
  <2> QED
    BY <2>2, <2>3, <2>5, <2>6, <2>7 DEF AloneOnPage, CardsLag, Writing
<1>13. ASSUME NEW c \in creations, CreationAnswers(c) PROVE CardsFollow'
  BY <1>13, CardsAskedAgain DEF CreationAnswers
<1>14. ASSUME NEW r \in renames, RenameFails(r) PROVE CardsFollow'
  <2>1. r.st \in {"sent", "stored"}
    BY DEF PageTyped, Renames
  <2> QED
    BY <1>14, <2>1, CardsUntouched DEF RenameFails, formVars
<1>15. ASSUME NEW e \in deletions, DeletionFails(e) PROVE CardsFollow'
  <2>1. e.st \in {"sent", "done"}
    BY DEF PageTyped, Deletions
  <2> QED
    BY <1>15, <2>1, CardsUntouched DEF DeletionFails, formVars
<1>16. ASSUME NEW c \in creations, CreationFails(c) PROVE CardsFollow'
  <2>1. c.st \in {"sent", "done"}
    BY DEF PageTyped, NewDocuments
  <2> QED
    BY <1>16, <2>1, CardsUntouched DEF CreationFails, cardVars
<1> QED
  BY <1>1, <1>2, <1>3, <1>4, <1>5, <1>6, <1>7, <1>8, <1>9, <1>10, <1>11, <1>12, <1>13, <1>14, <1>15, <1>16
     DEF PageNext

LEMMA PageStep == PageInv /\ [PageNext]_pageVars => PageInv'
<1>1. PageInv /\ PageNext => PageInv'
  BY PageTypesStep, PromptStep, CardsStep DEF PageInv
<1>2. PageInv /\ UNCHANGED pageVars => PageInv'
  BY DEF pageVars, cardVars, formVars, PageInv, PageTyped, WritingFits, PromptFitsDocument, CardsFollow, AloneOnPage,
      CardsLag, Writing, Asks, Listed
<1> QED
  BY <1>1, <1>2

LEMMA PageInvShows == PageInv => PageTypeOK /\ CardsAreCurrent /\ PromptFitsDocument
BY PageTypes DEF PageInv, CardsFollow, CardsLag, CardsAreCurrent, Writing

-----------------------------------------------------------------------------
(* The page of one document: its head.                                     *)
HeadCalls == [op : {"load", "title", "law", "reevaluate"}, head : PageHead,
              st : {"asked", "loaded", "done"}, nr : 0 .. HeadSteps]

HeadTyped ==
    /\ docSaved \in PageHead /\ docShown \in PageHead /\ headCalls \subseteq HeadCalls
    /\ jurisdictionReEvaluating \in BOOLEAN /\ evaluating \in BOOLEAN /\ headCrossed \in BOOLEAN
    /\ headSteps \in 0 .. HeadSteps

\* How far the head may lag behind the row while only c is under way.
Edits == {"title", "law"}
HeadLags(c) ==
    /\ c.op = "load" /\ c.st = "done" => c.head = docSaved
    /\ c.op # "load" /\ ~(c.op \in Edits /\ c.st = "done") => docShown = docSaved
    /\ c.op \in Edits /\ c.st = "done" => docSaved = c.head
    /\ c.op = "title" /\ c.st # "asked" => c.head.law = docShown.law
    /\ c.op = "law" /\ c.st # "asked" => c.head.title = docShown.title
    /\ c.op \notin Edits => c.st # "loaded"
HeadFollows ==
    ~headCrossed =>
        /\ \A a, b \in headCalls : a = b
        /\ headCalls = {} => docShown = docSaved
        /\ \A c \in headCalls : HeadLags(c)

HeadInv == HeadTyped /\ HeadFollows

LEMMA HeadNames == NoHead \in PageHead /\ HeadSteps \in Nat
BY HeadAssumption DEF NoHead, PageHead

\* What a call is before it is served.
LEMMA HeadCallIs ==
  ASSUME headSteps \in 0 .. HeadSteps, NEW op \in {"load", "title", "law", "reevaluate"}, NEW head \in PageHead
  PROVE  /\ HeadCall(op, head) \in HeadCalls
         /\ HeadCall(op, head).op = op /\ HeadCall(op, head).st = "asked"
BY DEF HeadCall, HeadCalls

LEMMA HeadInitial == HeadInit => HeadInv
<1> SUFFICES ASSUME HeadInit PROVE HeadInv
  OBVIOUS
<1>1. headSteps \in 0 .. HeadSteps
  BY HeadNames DEF HeadInit
<1>2. PICK c : c = HeadCall("load", NoHead)
  OBVIOUS
<1>3. c \in HeadCalls /\ c.op = "load" /\ c.st = "asked"
  BY <1>1, <1>2, HeadCallIs, HeadNames
<1>4. headCalls = {c}
  BY <1>2 DEF HeadInit
<1>5. docSaved \in PageHead
  BY DEF HeadInit, PageHead
<1>6. jurisdictionReEvaluating \in BOOLEAN /\ evaluating \in BOOLEAN /\ headCrossed \in BOOLEAN
  BY DEF HeadInit
<1>7. HeadTyped
  BY <1>1, <1>3, <1>4, <1>5, <1>6, HeadNames DEF HeadInit, HeadTyped
<1>8. HeadFollows
  BY <1>3, <1>4 DEF HeadFollows, HeadLags, Edits
<1> QED
  BY <1>7, <1>8 DEF HeadInv

\* A call that is made while nothing has crossed is the only one.
LEMMA HeadEdited ==
  ASSUME HeadInv, NEW c \in HeadCalls, c.op # "load", c.st = "asked", Calls(headCalls, c), UNCHANGED <<docSaved, docShown>>
  PROVE  headCalls' \subseteq HeadCalls /\ headCrossed' \in BOOLEAN /\ HeadFollows'
<1>1. headCalls' = headCalls \cup {c} /\ headCrossed' = (headCrossed \/ headCalls # {})
  BY DEF Calls
<1>2. headCalls' \subseteq HeadCalls /\ headCrossed' \in BOOLEAN
  BY <1>1 DEF HeadInv, HeadTyped
<1>3. ASSUME ~headCrossed' PROVE headCalls' = {c} /\ docShown = docSaved
  BY <1>1, <1>3 DEF HeadInv, HeadFollows
<1> QED
  BY <1>2, <1>3 DEF HeadFollows, HeadLags, Edits

\* One call that is served.
LEMMA HeadServed ==
  ASSUME HeadInv, NEW c \in headCalls, ServeHead(c)
  PROVE  docSaved' \in PageHead /\ headCalls' \subseteq HeadCalls /\ HeadFollows'
<1>0. /\ docSaved \in PageHead /\ docShown \in PageHead /\ c \in HeadCalls /\ c.head \in PageHead
      /\ headCalls \subseteq HeadCalls
  BY DEF HeadInv, HeadTyped, HeadCalls
<1>u. UNCHANGED <<docShown, headCrossed>>
  BY DEF ServeHead
<1>a. ~headCrossed => headCalls = {c} /\ HeadLags(c)
  BY DEF HeadInv, HeadFollows
<1>1. CASE c.st = "asked" /\ c.op = "title"
  <2>1. PICK h : h = [docSaved EXCEPT !.title = c.head.title]
    OBVIOUS
  <2>2. h \in PageHead /\ h.law = docSaved.law
    BY ONLY <1>0, <2>1 DEF PageHead
  <2>3. PICK d : d = [c EXCEPT !.st = "loaded", !.head = h]
    OBVIOUS
  <2>4. d \in HeadCalls /\ d.op = c.op /\ d.st = "loaded" /\ d.head = h
    BY ONLY <1>0, <2>2, <2>3 DEF HeadCalls
  <2>5. headCalls' = (headCalls \ {c}) \cup {d} /\ docSaved' = docSaved
    BY <1>1, <2>1, <2>3 DEF ServeHead, Replace
  <2> QED
    BY <1>0, <1>u, <1>a, <1>1, <2>2, <2>4, <2>5 DEF HeadFollows, HeadLags, Edits
<1>2. CASE c.st = "asked" /\ c.op = "law"
  <2>1. PICK h : h = [docSaved EXCEPT !.law = c.head.law]
    OBVIOUS
  <2>2. h \in PageHead /\ h.title = docSaved.title
    BY ONLY <1>0, <2>1 DEF PageHead
  <2>3. PICK d : d = [c EXCEPT !.st = "loaded", !.head = h]
    OBVIOUS
  <2>4. d \in HeadCalls /\ d.op = c.op /\ d.st = "loaded" /\ d.head = h
    BY ONLY <1>0, <2>2, <2>3 DEF HeadCalls
  <2>5. headCalls' = (headCalls \ {c}) \cup {d} /\ docSaved' = docSaved
    BY <1>2, <2>1, <2>3 DEF ServeHead, Replace
  <2> QED
    BY <1>0, <1>u, <1>a, <1>2, <2>2, <2>4, <2>5 DEF HeadFollows, HeadLags, Edits
<1>3. CASE c.st = "loaded"
  <2>1. PICK d : d = [c EXCEPT !.st = "done"]
    OBVIOUS
  <2>2. d \in HeadCalls /\ d.op = c.op /\ d.st = "done" /\ d.head = c.head
    BY ONLY <1>0, <2>1 DEF HeadCalls
  <2>3. headCalls' = (headCalls \ {c}) \cup {d} /\ docSaved' = c.head
    BY <1>3, <2>1 DEF ServeHead, Replace
  <2> QED
    BY <1>0, <1>u, <1>a, <1>3, <2>2, <2>3 DEF HeadFollows, HeadLags, Edits
<1>4. CASE c.st = "asked" /\ c.op = "load"
  <2>1. PICK d : d = [c EXCEPT !.st = "done", !.head = docSaved]
    OBVIOUS
  <2>2. d \in HeadCalls /\ d.op = c.op /\ d.st = "done" /\ d.head = docSaved
    BY ONLY <1>0, <2>1 DEF HeadCalls
  <2>3. headCalls' = (headCalls \ {c}) \cup {d} /\ docSaved' = docSaved
    BY <1>4, <2>1 DEF ServeHead, Replace
  <2> QED
    BY <1>0, <1>u, <1>a, <1>4, <2>2, <2>3 DEF HeadFollows, HeadLags, Edits
<1>5. CASE c.st = "asked" /\ c.op = "reevaluate"
  <2>1. PICK d : d = [c EXCEPT !.st = "done"]
    OBVIOUS
  <2>2. d \in HeadCalls /\ d.op = c.op /\ d.st = "done" /\ d.head = c.head
    BY ONLY <1>0, <2>1 DEF HeadCalls
  <2>3. headCalls' = (headCalls \ {c}) \cup {d} /\ docSaved' = docSaved
    BY <1>5, <2>1 DEF ServeHead, Replace
  <2> QED
    BY <1>0, <1>u, <1>a, <1>5, <2>2, <2>3 DEF HeadFollows, HeadLags, Edits
<1> QED
  BY <1>1, <1>2, <1>3, <1>4, <1>5 DEF ServeHead

LEMMA HeadStepKeeps == HeadInv /\ HeadNext => HeadInv'
<1> SUFFICES ASSUME HeadInv, HeadNext PROVE HeadInv'
  OBVIOUS
<1>0. HeadTyped /\ HeadFollows /\ HeadSteps \in Nat
  BY HeadNames DEF HeadInv
<1>s. HeadStep => headSteps' \in 0 .. HeadSteps
  BY <1>0 DEF HeadStep, HeadTyped
<1>1. ASSUME NEW op \in {"title", "law"}, NEW head \in PageHead, EditHead(op, head) PROVE HeadInv'
  <2>1. PICK c : c = HeadCall(op, head)
    OBVIOUS
  <2>2. c \in HeadCalls /\ c.op # "load" /\ c.st = "asked"
    BY <1>0, <2>1, HeadCallIs DEF HeadTyped
  <2>3. Calls(headCalls, c) /\ UNCHANGED <<docSaved, docShown, jurisdictionReEvaluating, evaluating>> /\ HeadStep
    BY <1>1, <2>1 DEF EditHead
  <2>4. headCalls' \subseteq HeadCalls /\ headCrossed' \in BOOLEAN /\ HeadFollows'
    BY <2>2, <2>3, HeadEdited
  <2> QED
    BY <1>0, <1>s, <2>3, <2>4 DEF HeadInv, HeadTyped
<1>2. ASSUME OnReEvaluateJurisdiction PROVE HeadInv'
  <2>1. PICK c : c = HeadCall("reevaluate", NoHead)
    OBVIOUS
  <2>2. c \in HeadCalls /\ c.op # "load" /\ c.st = "asked"
    BY <1>0, <2>1, HeadCallIs, HeadNames DEF HeadTyped
  <2>3. Calls(headCalls, c) /\ UNCHANGED <<docSaved, docShown, evaluating>> /\ HeadStep
        /\ jurisdictionReEvaluating' = TRUE
    BY <1>2, <2>1 DEF OnReEvaluateJurisdiction
  <2>4. headCalls' \subseteq HeadCalls /\ headCrossed' \in BOOLEAN /\ HeadFollows'
    BY <2>2, <2>3, HeadEdited
  <2> QED
    BY <1>0, <1>s, <2>3, <2>4 DEF HeadInv, HeadTyped
<1>3. ASSUME NEW c \in headCalls, ServeHead(c) PROVE HeadInv'
  <2>1. docSaved' \in PageHead /\ headCalls' \subseteq HeadCalls /\ HeadFollows'
    BY <1>3, HeadServed
  <2>2. UNCHANGED <<docShown, jurisdictionReEvaluating, headCrossed, headSteps>>
    BY <1>3 DEF ServeHead
  <2>3. evaluating' \in BOOLEAN
    BY <1>0, <1>3 DEF ServeHead, HeadTyped
  <2> QED
    BY <1>0, <2>1, <2>2, <2>3 DEF HeadInv, HeadTyped
<1>4. ASSUME NEW c \in headCalls, HeadAnswers(c) PROVE HeadInv'
  <2>0. /\ docShown \in PageHead /\ docSaved \in PageHead /\ c \in HeadCalls /\ c.head \in PageHead /\ c.st = "done"
        /\ UNCHANGED <<docSaved, evaluating, headSteps>>
    BY <1>0, <1>4 DEF HeadTyped, HeadCalls, HeadAnswers
  <2>1. CASE c.op = "reevaluate"
    <3>1. PICK d : d = HeadCall("load", NoHead)
      OBVIOUS
    <3>2. d \in HeadCalls /\ d.op = "load" /\ d.st = "asked"
      BY <1>0, <3>1, HeadCallIs, HeadNames DEF HeadTyped
    <3>3. /\ docShown' = docShown /\ jurisdictionReEvaluating' = FALSE
          /\ headCalls' = (headCalls \ {c}) \cup {d} /\ headCrossed' = (headCalls \ {c} # {})
      BY <1>4, <2>1, <3>1, <3>2 DEF HeadAnswers, Calls
    <3>4. headCrossed' \in BOOLEAN /\ (~headCrossed' => headCalls' = {d})
      BY <3>3
    <3>5. HeadFollows'
      BY <3>2, <3>4 DEF HeadFollows, HeadLags, Edits
    <3> QED
      BY <1>0, <2>0, <3>2, <3>3, <3>4, <3>5 DEF HeadInv, HeadTyped
  <2>2. CASE c.op # "reevaluate"
    <3>1. headCalls' = headCalls \ {c} /\ UNCHANGED <<jurisdictionReEvaluating, headCrossed>>
      BY <1>4, <2>2 DEF HeadAnswers
    <3>2. ~headCrossed => headCalls = {c} /\ HeadLags(c)
      BY <1>0 DEF HeadFollows
    <3>3. docShown' \in PageHead /\ (~headCrossed => docShown' = docSaved)
      <4>1. CASE c.op = "load"
        BY <1>4, <2>0, <3>2, <4>1 DEF HeadAnswers, HeadLags
      <4>2. CASE c.op = "title"
        <5>1. docShown' = [docShown EXCEPT !.title = c.head.title]
          BY <1>4, <4>2 DEF HeadAnswers
        <5>2. ~headCrossed => docSaved = c.head /\ c.head.law = docShown.law
          BY <2>0, <3>2, <4>2 DEF HeadLags, Edits
        <5> QED
          BY ONLY <2>0, <5>1, <5>2 DEF PageHead
      <4>3. CASE c.op = "law"
        <5>1. docShown' = [docShown EXCEPT !.law = c.head.law]
          BY <1>4, <4>3 DEF HeadAnswers
        <5>2. ~headCrossed => docSaved = c.head /\ c.head.title = docShown.title
          BY <2>0, <3>2, <4>3 DEF HeadLags, Edits
        <5> QED
          BY ONLY <2>0, <5>1, <5>2 DEF PageHead
      <4> QED
        BY <2>0, <2>2, <4>1, <4>2, <4>3 DEF HeadCalls
    <3>4. HeadFollows'
      BY <2>0, <3>1, <3>2, <3>3 DEF HeadFollows
    <3> QED
      BY <1>0, <2>0, <3>1, <3>3, <3>4 DEF HeadInv, HeadTyped
  <2> QED
    BY <2>1, <2>2
<1>5. ASSUME NEW c \in headCalls, HeadFails(c) PROVE HeadInv'
  <2>1. /\ headCalls' = headCalls \ {c} /\ UNCHANGED <<docSaved, docShown, evaluating>> /\ HeadStep
        /\ headCrossed' = (headCrossed \/ c.op = "load" \/ c.st # "asked")
        /\ jurisdictionReEvaluating' = (jurisdictionReEvaluating /\ c.op # "reevaluate")
    BY <1>5 DEF HeadFails
  <2>2. ~headCrossed' => ~headCrossed /\ c.op # "load" /\ c.st = "asked"
    BY <2>1
  <2>3. ~headCrossed' => headCalls' = {} /\ docShown = docSaved
    BY <1>0, <2>1, <2>2 DEF HeadFollows, HeadLags, Edits
  <2>4. HeadFollows'
    BY <2>1, <2>3 DEF HeadFollows
  <2>5. headCrossed' \in BOOLEAN /\ jurisdictionReEvaluating' \in BOOLEAN
    BY <2>1
  <2> QED
    BY <1>0, <1>s, <2>1, <2>4, <2>5 DEF HeadInv, HeadTyped
<1>6. ASSUME NEW law \in Laws, EvaluationEnds(law) PROVE HeadInv'
  <2>1. [docSaved EXCEPT !.law = law] \in PageHead
    BY <1>0 DEF HeadTyped, PageHead
  <2>2. headCrossed'
    BY <1>6 DEF EvaluationEnds
  <2>3. HeadFollows'
    BY <2>2 DEF HeadFollows
  <2> QED
    BY <1>0, <1>6, <2>1, <2>3 DEF EvaluationEnds, HeadInv, HeadTyped
<1> QED
  BY <1>1, <1>2, <1>3, <1>4, <1>5, <1>6 DEF HeadNext

LEMMA HeadOnly == HeadNext => UNCHANGED reviewVars
BY DEF HeadNext, EditHead, OnReEvaluateJurisdiction, ServeHead, HeadAnswers, HeadFails, EvaluationEnds

-----------------------------------------------------------------------------
(* The tab with its review.                                                *)
ReviewLoads == [nr : 0 .. HeadSteps, st : {"asked", "read"}, review : 0 .. lastReview]

\* Each run but the first was pressed for, and makes one review at most.
RunsArePressed ==
    /\ rerunning = "sent" => rerunJobs + lastReview <= headSteps
    /\ rerunJobs + lastReview <= headSteps + 1

ReviewTyped ==
    /\ reviewLoading \in BOOLEAN /\ reviewLoaded \in BOOLEAN /\ reviewMoved \in BOOLEAN
    /\ lastReview \in Nat /\ rerunJobs \in Nat
    /\ reviewSaved \in 0 .. lastReview /\ reviewShown \in 0 .. lastReview
    /\ reviewLoads \subseteq ReviewLoads
    /\ rerunning \in {"no", "sent", "waiting"}
    /\ headSteps \in 0 .. HeadSteps
    /\ RunsArePressed

\* The flags keep the tab's loads apart.
LoadsApart ==
    /\ \A k, l \in reviewLoads : k = l
    /\ reviewLoads # {} => reviewLoading
    /\ rerunning # "no" => reviewLoaded /\ ~reviewLoading
    /\ ~reviewLoaded => reviewLoads = {}
    /\ ~reviewMoved => \A l \in reviewLoads : l.st = "read" => l.review = reviewSaved

TabInvOfReview == ReviewTyped /\ LoadsApart /\ TabShowsTheReview

LEMMA ReviewInitial == HeadInit => TabInvOfReview
<1> SUFFICES ASSUME HeadInit PROVE TabInvOfReview
  OBVIOUS
<1>1. reviewLoads = {} /\ reviewLoading = FALSE /\ reviewLoaded = FALSE /\ rerunning = "no" /\ reviewMoved = TRUE
  BY DEF HeadInit
<1>2. /\ lastReview \in Nat /\ rerunJobs \in Nat /\ reviewSaved \in 0 .. lastReview /\ reviewShown \in 0 .. lastReview
      /\ headSteps \in 0 .. HeadSteps /\ rerunJobs + lastReview <= headSteps + 1
  BY HeadNames DEF HeadInit, NoReview
<1>3. RunsArePressed
  BY <1>1, <1>2 DEF RunsArePressed
<1>4. ReviewTyped
  BY <1>1, <1>2, <1>3 DEF ReviewTyped
<1> QED
  BY <1>1, <1>4 DEF TabInvOfReview, LoadsApart, TabShowsTheReview

\* The tab asks for its review when no load is there.
LEMMA ReviewAsked ==
  ASSUME ReviewTyped, reviewLoads = {}, LoadReview, UNCHANGED lastReview
  PROVE  /\ reviewLoading' = TRUE
         /\ \E l : l \in ReviewLoads /\ l.st = "asked" /\ reviewLoads' = {l}
<1> DEFINE l == [nr |-> headSteps, st |-> "asked", review |-> NoReview]
<1>1. l \in ReviewLoads /\ l.st = "asked"
  BY DEF ReviewTyped, ReviewLoads, NoReview
<1>2. reviewLoads' = {l} /\ reviewLoading' = TRUE
  BY DEF LoadReview
<1> HIDE DEF l
<1> QED
  BY <1>1, <1>2

LEMMA ReviewStepKeeps == TabInvOfReview /\ ReviewTabNext => TabInvOfReview'
<1> SUFFICES ASSUME TabInvOfReview, ReviewTabNext PROVE ReviewTyped' /\ LoadsApart' /\ TabShowsTheReview'
  BY DEF TabInvOfReview
<1>0. ReviewTyped /\ LoadsApart /\ TabShowsTheReview /\ HeadSteps \in Nat
  BY HeadNames DEF TabInvOfReview
<1>1. ASSUME OnTabChange PROVE ReviewTyped' /\ LoadsApart' /\ TabShowsTheReview'
  <2>1. ~reviewLoaded /\ reviewLoads = {} /\ rerunning = "no"
    BY <1>0, <1>1 DEF OnTabChange, LoadsApart
  <2>2. /\ reviewLoaded' = TRUE /\ LoadReview
        /\ UNCHANGED <<reviewSaved, rerunJobs, lastReview, reviewMoved, reviewShown, rerunning, headSteps>>
    BY <1>1 DEF OnTabChange, runVars
  <2>3. PICK l : l \in ReviewLoads /\ l.st = "asked" /\ reviewLoads' = {l} /\ reviewLoading' = TRUE
    BY <1>0, <2>1, <2>2, ReviewAsked
  <2>4. ReviewTyped'
    BY <1>0, <2>2, <2>3 DEF ReviewTyped, RunsArePressed, ReviewLoads
  <2> QED
    BY <2>1, <2>2, <2>3, <2>4 DEF LoadsApart, TabShowsTheReview
<1>2. ASSUME OnRerunClicked PROVE ReviewTyped' /\ LoadsApart' /\ TabShowsTheReview'
  <2>1. /\ reviewLoaded /\ ~reviewLoading /\ rerunning = "no" /\ rerunning' = "sent" /\ HeadStep
        /\ UNCHANGED <<reviewSaved, rerunJobs, lastReview, reviewMoved, reviewShown, reviewLoads, reviewLoading, reviewLoaded>>
    BY <1>2 DEF OnRerunClicked, runVars
  <2>2. headSteps' \in 0 .. HeadSteps /\ headSteps' = headSteps + 1
    BY <1>0, <2>1 DEF HeadStep, ReviewTyped
  <2>3. RunsArePressed'
    BY <1>0, <2>1, <2>2 DEF ReviewTyped, RunsArePressed
  <2>4. ReviewTyped'
    BY <1>0, <2>1, <2>2, <2>3 DEF ReviewTyped, ReviewLoads
  <2> QED
    BY <1>0, <2>1, <2>4 DEF LoadsApart, TabShowsTheReview
<1>3. ASSUME RerunQueued PROVE ReviewTyped' /\ LoadsApart' /\ TabShowsTheReview'
  <2>1. /\ rerunning = "sent" /\ rerunning' \in {"waiting", "no"}
        /\ UNCHANGED <<reviewShown, reviewLoads, reviewLoading, reviewLoaded, reviewSaved, lastReview, reviewMoved>>
    BY <1>3 DEF RerunQueued
  <2>2. \/ rerunJobs' = rerunJobs + 1 /\ headSteps' = headSteps
        \/ rerunJobs' = rerunJobs /\ headSteps < HeadSteps /\ headSteps' = headSteps + 1
    BY <1>3 DEF RerunQueued, HeadStep
  <2>3. headSteps' \in 0 .. HeadSteps /\ rerunJobs' \in Nat /\ rerunJobs' + lastReview' <= headSteps' + 1
    BY <1>0, <2>1, <2>2 DEF ReviewTyped, RunsArePressed
  <2>4. ReviewTyped'
    BY <1>0, <2>1, <2>3 DEF ReviewTyped, RunsArePressed, ReviewLoads
  <2> QED
    BY <1>0, <2>1, <2>4 DEF LoadsApart, TabShowsTheReview
<1>4. ASSUME RerunTimerFires PROVE ReviewTyped' /\ LoadsApart' /\ TabShowsTheReview'
  <2>1. rerunning = "waiting" /\ reviewLoads = {} /\ reviewLoaded
    BY <1>0, <1>4 DEF RerunTimerFires, LoadsApart
  <2>2. /\ rerunning' = "no" /\ LoadReview
        /\ UNCHANGED <<reviewSaved, rerunJobs, lastReview, reviewMoved, reviewShown, reviewLoaded, headSteps>>
    BY <1>4 DEF RerunTimerFires, runVars
  <2>3. PICK l : l \in ReviewLoads /\ l.st = "asked" /\ reviewLoads' = {l} /\ reviewLoading' = TRUE
    BY <1>0, <2>1, <2>2, ReviewAsked
  <2>4. ReviewTyped'
    BY <1>0, <2>1, <2>2, <2>3 DEF ReviewTyped, RunsArePressed, ReviewLoads
  <2> QED
    BY <2>1, <2>2, <2>3, <2>4 DEF LoadsApart, TabShowsTheReview
<1>5. ASSUME RunDeletes PROVE ReviewTyped' /\ LoadsApart' /\ TabShowsTheReview'
  <2>1. /\ reviewSaved' = NoReview /\ reviewMoved' = TRUE
        /\ UNCHANGED <<reviewShown, reviewLoads, reviewLoading, reviewLoaded, rerunning, rerunJobs, lastReview, headSteps>>
    BY <1>5 DEF RunDeletes, tabVars
  <2>2. ReviewTyped'
    BY <1>0, <2>1 DEF ReviewTyped, RunsArePressed, ReviewLoads, NoReview
  <2> QED
    BY <1>0, <2>1, <2>2 DEF LoadsApart, TabShowsTheReview
<1>6. ASSUME RunEnds PROVE ReviewTyped' /\ LoadsApart' /\ TabShowsTheReview'
  <2>1. /\ rerunJobs > 0 /\ rerunJobs' = rerunJobs - 1
        /\ UNCHANGED <<reviewShown, reviewLoads, reviewLoading, reviewLoaded, rerunning, headSteps>>
        /\ \/ lastReview' = lastReview + 1 /\ reviewSaved' = lastReview' /\ reviewMoved' = TRUE
           \/ UNCHANGED <<lastReview, reviewSaved, reviewMoved>>
    BY <1>6 DEF RunEnds, tabVars
  <2>2. /\ rerunJobs' \in Nat /\ lastReview' \in Nat /\ lastReview' >= lastReview
        /\ rerunJobs' + lastReview' <= rerunJobs + lastReview
        /\ reviewSaved' \in 0 .. lastReview' /\ reviewShown' \in 0 .. lastReview'
    BY <1>0, <2>1 DEF ReviewTyped
  <2>3. \A l \in reviewLoads : l \in ReviewLoads'
    <3>1. 0 .. lastReview \subseteq 0 .. lastReview'
      BY <1>0, <2>2 DEF ReviewTyped
    <3> QED
      BY <1>0, <3>1 DEF ReviewTyped, ReviewLoads
  <2>4. reviewMoved' \in BOOLEAN /\ (~reviewMoved' => ~reviewMoved /\ reviewSaved' = reviewSaved)
    <3>1. CASE reviewMoved' = TRUE
      BY <3>1
    <3>2. CASE UNCHANGED <<lastReview, reviewSaved, reviewMoved>>
      BY <1>0, <3>2 DEF ReviewTyped
    <3> QED
      BY <2>1, <3>1, <3>2
  <2>5. ReviewTyped'
    <3>1. RunsArePressed'
      <4>1. headSteps' = headSteps /\ rerunning' = rerunning /\ headSteps \in Nat /\ RunsArePressed
            /\ rerunJobs \in Nat /\ lastReview \in Nat
        BY <1>0, <2>1 DEF ReviewTyped
      <4>2. rerunJobs + lastReview <= headSteps + 1 /\ (rerunning = "sent" => rerunJobs + lastReview <= headSteps)
        BY <4>1 DEF RunsArePressed
      <4>p. PICK jobs \in Nat, last \in Nat, steps \in Nat :
                rerunJobs' = jobs /\ lastReview' = last /\ headSteps' = steps
        BY <2>2, <4>1
      <4>3. jobs + last <= steps + 1
        BY ONLY <2>2, <4>1, <4>p, <4>2
      <4>4. rerunning' = "sent" => jobs + last <= steps
        BY ONLY <2>2, <4>1, <4>p, <4>2
      <4> QED
        BY <4>p, <4>3, <4>4 DEF RunsArePressed
    <3>2. reviewLoads' \subseteq ReviewLoads'
      BY <2>1, <2>3
    <3> QED
      BY <1>0, <2>1, <2>2, <2>4, <3>1, <3>2 DEF ReviewTyped
  <2> QED
    BY <1>0, <2>1, <2>4, <2>5 DEF LoadsApart, TabShowsTheReview
<1>7. ASSUME NEW l \in reviewLoads, ReviewRead(l) PROVE ReviewTyped' /\ LoadsApart' /\ TabShowsTheReview'
  <2>1. l \in ReviewLoads /\ reviewSaved \in 0 .. lastReview /\ reviewLoads = {l}
    BY <1>0 DEF ReviewTyped, LoadsApart
  <2>2. PICK m : m = [l EXCEPT !.st = "read", !.review = reviewSaved]
    OBVIOUS
  <2>3. m \in ReviewLoads /\ m.review = reviewSaved
    BY ONLY <2>1, <2>2 DEF ReviewLoads
  <2>4. /\ reviewLoads' = {m} /\ reviewMoved' = FALSE
        /\ UNCHANGED <<reviewShown, reviewLoading, reviewLoaded, rerunning, reviewSaved, rerunJobs, lastReview, headSteps>>
    BY <1>7, <2>1, <2>2 DEF ReviewRead
  <2>5. ReviewTyped'
    BY <1>0, <2>3, <2>4 DEF ReviewTyped, RunsArePressed, ReviewLoads
  <2>6. LoadsApart'
    BY <1>0, <2>1, <2>3, <2>4 DEF LoadsApart
  <2> QED
    BY <2>4, <2>5, <2>6 DEF TabShowsTheReview
<1>8. ASSUME NEW l \in reviewLoads, ReviewAnswers(l) PROVE ReviewTyped' /\ LoadsApart' /\ TabShowsTheReview'
  <2>1. l \in ReviewLoads /\ l.review \in 0 .. lastReview /\ reviewLoads = {l} /\ reviewLoading /\ l.st = "read"
    BY <1>0, <1>8 DEF ReviewTyped, LoadsApart, ReviewLoads, ReviewAnswers
  <2>2. /\ reviewLoads' = {} /\ reviewLoading' = FALSE
        /\ UNCHANGED <<reviewLoaded, rerunning, reviewSaved, rerunJobs, lastReview>>
        /\ \/ reviewShown' = l.review /\ UNCHANGED <<reviewMoved, headSteps>>
           \/ HeadStep /\ reviewMoved' = TRUE /\ UNCHANGED reviewShown
    BY <1>8, <2>1 DEF ReviewAnswers
  <2>3. reviewMoved' \in BOOLEAN /\ (~reviewMoved' => ~reviewMoved /\ reviewShown' = l.review)
    BY <1>0, <2>2 DEF ReviewTyped
  <2>4. headSteps' \in 0 .. HeadSteps /\ headSteps' >= headSteps
    BY <1>0, <2>2 DEF ReviewTyped, HeadStep
  <2>5. reviewShown' \in 0 .. lastReview /\ rerunning = "no"
    BY <1>0, <2>1, <2>2 DEF ReviewTyped, LoadsApart
  <2>6. ReviewTyped'
    <3>1. RunsArePressed'
      <4>1. rerunJobs' = rerunJobs /\ lastReview' = lastReview /\ rerunning' = rerunning /\ RunsArePressed
            /\ rerunJobs \in Nat /\ lastReview \in Nat /\ headSteps \in Nat /\ headSteps' \in Nat
        BY <1>0, <2>2, <2>4 DEF ReviewTyped
      <4>2. rerunJobs + lastReview <= headSteps + 1 /\ (rerunning = "sent" => rerunJobs + lastReview <= headSteps)
        BY <4>1 DEF RunsArePressed
      <4>p. PICK jobs \in Nat, last \in Nat, steps \in Nat :
                rerunJobs' = jobs /\ lastReview' = last /\ headSteps' = steps
        BY <2>4, <4>1
      <4>3. jobs + last <= steps + 1
        BY ONLY <2>4, <4>1, <4>p, <4>2
      <4>4. rerunning' = "sent" => jobs + last <= steps
        BY ONLY <2>4, <4>1, <4>p, <4>2
      <4> QED
        BY <4>p, <4>3, <4>4 DEF RunsArePressed
    <3> QED
      BY <1>0, <2>2, <2>3, <2>4, <2>5, <3>1 DEF ReviewTyped, ReviewLoads
  <2> QED
    BY <1>0, <2>1, <2>2, <2>3, <2>5, <2>6 DEF LoadsApart, TabShowsTheReview
<1> QED
  BY <1>1, <1>2, <1>3, <1>4, <1>5, <1>6, <1>7, <1>8 DEF ReviewTabNext

LEMMA ReviewOnly == ReviewTabNext => UNCHANGED headVars
BY DEF ReviewTabNext, OnTabChange, OnRerunClicked, RerunQueued, RerunTimerFires, RunDeletes, RunEnds, ReviewRead,
    ReviewAnswers

-----------------------------------------------------------------------------
(* Both of them, which share the count of steps.                           *)
OneInv == HeadInv /\ TabInvOfReview

LEMMA OneInitial == HeadInit => OneInv
BY HeadInitial, ReviewInitial DEF OneInv

LEMMA OneStep == OneInv /\ [HeadNext \/ ReviewTabNext]_onePageVars => OneInv'
<1>1. ASSUME OneInv, HeadNext PROVE OneInv'
  <2>1. HeadInv'
    BY <1>1, HeadStepKeeps DEF OneInv
  <2>2. UNCHANGED reviewVars
    BY <1>1, HeadOnly
  <2>3. headSteps \in 0 .. HeadSteps /\ headSteps' \in 0 .. HeadSteps /\ headSteps' >= headSteps
    <3>1. headSteps' = headSteps \/ headSteps' = headSteps + 1
      BY <1>1 DEF HeadNext, EditHead, OnReEvaluateJurisdiction, ServeHead, HeadAnswers, HeadFails, EvaluationEnds, HeadStep
    <3> QED
      BY <1>1, <2>1, <3>1 DEF OneInv, HeadInv, HeadTyped
  <2>4. TabInvOfReview'
    <3>1. UNCHANGED <<reviewShown, reviewLoads, reviewLoading, reviewLoaded, rerunning, reviewSaved, rerunJobs, lastReview, reviewMoved>>
      BY <2>2 DEF reviewVars, tabVars, runVars
    <3>2. ReviewTyped /\ LoadsApart /\ TabShowsTheReview
      BY <1>1 DEF OneInv, TabInvOfReview
    <3>3. LoadsApart' /\ TabShowsTheReview'
      BY <3>1, <3>2 DEF LoadsApart, TabShowsTheReview
    <3>4. RunsArePressed'
      <4>1. RunsArePressed /\ rerunJobs \in Nat /\ lastReview \in Nat /\ headSteps \in Nat /\ headSteps' \in Nat
        BY <2>3, <3>2 DEF ReviewTyped
      <4>2. rerunJobs + lastReview <= headSteps + 1 /\ (rerunning = "sent" => rerunJobs + lastReview <= headSteps)
        BY <4>1 DEF RunsArePressed
      <4>p. PICK jobs \in Nat, last \in Nat, steps \in Nat :
                rerunJobs' = jobs /\ lastReview' = last /\ headSteps' = steps
        BY <2>3, <3>1, <4>1
      <4>3. jobs + last <= steps + 1
        BY ONLY <2>3, <3>1, <4>1, <4>p, <4>2
      <4>4. rerunning' = "sent" => jobs + last <= steps
        BY ONLY <2>3, <3>1, <4>1, <4>p, <4>2
      <4> QED
        BY <4>p, <4>3, <4>4 DEF RunsArePressed
    <3>5. ReviewTyped'
      BY <2>3, <3>1, <3>2, <3>4 DEF ReviewTyped, ReviewLoads
    <3> QED
      BY <3>3, <3>5 DEF TabInvOfReview
  <2> QED
    BY <2>1, <2>4 DEF OneInv
<1>2. ASSUME OneInv, ReviewTabNext PROVE OneInv'
  <2>1. TabInvOfReview' /\ UNCHANGED headVars
    BY <1>2, ReviewStepKeeps, ReviewOnly DEF OneInv
  <2>2. HeadInv'
    BY <1>2, <2>1 DEF OneInv, TabInvOfReview, ReviewTyped, HeadInv, HeadTyped, HeadFollows, HeadLags, headVars
  <2> QED
    BY <2>1, <2>2 DEF OneInv
<1>3. OneInv /\ UNCHANGED onePageVars => OneInv'
  BY DEF OneInv, HeadInv, HeadTyped, HeadFollows, HeadLags, TabInvOfReview, ReviewTyped, RunsArePressed, ReviewLoads, LoadsApart,
      TabShowsTheReview, onePageVars, headVars, reviewVars, tabVars, runVars
<1> QED
  BY <1>1, <1>2, <1>3

LEMMA OneInvShows == OneInv => HeadTypeOK /\ HeadShowsTheRow /\ TabShowsTheReview
<1> SUFFICES ASSUME OneInv PROVE HeadTypeOK /\ HeadShowsTheRow /\ TabShowsTheReview
  OBVIOUS
<1>1. /\ HeadTyped /\ HeadFollows /\ ReviewTyped /\ TabShowsTheReview
  BY DEF OneInv, HeadInv, TabInvOfReview
<1>2. lastReview \in 0 .. HeadSteps + 1 /\ rerunJobs \in 0 .. HeadSteps + 1
  BY <1>1, HeadNames DEF ReviewTyped, RunsArePressed
<1>3. HeadTypeOK
  BY <1>1, <1>2 DEF HeadTypeOK, HeadTyped, HeadCalls, ReviewTyped, ReviewLoads
<1> QED
  BY <1>1, <1>3 DEF HeadFollows, HeadShowsTheRow

-----------------------------------------------------------------------------
(* The table of files.                                                     *)
FileNrs == 1 .. MaxFile
Answers == [st : {"asked", "read", "shown"}, rows : SUBSET FileNrs]
FileRemovals == [ids : SUBSET FileNrs, left : SUBSET FileNrs]

FilesTyped ==
    /\ stored \subseteq FileNrs /\ files \subseteq FileNrs /\ selectedFiles \subseteq FileNrs /\ removed \subseteq FileNrs
    /\ typed \in Texts /\ query \in Texts /\ debounced \in Texts \cup {None} /\ lastTyped \in Texts \cup {None}
    /\ scope \in Scopes /\ filesParams \in Params /\ filesRequest \in Params
    /\ answer \in Answers /\ upload \in {"none", "sent", "stored"} /\ removal \in FileRemovals
    /\ reloadTimer \in BOOLEAN /\ disturbed \in BOOLEAN /\ changes \in 0 .. Changes

\* Both forms of the type invariant say the same.
LEMMA FilesTypes == (FileListTypeOK <=> FilesTyped) /\ (FileListTypeOK' <=> FilesTyped')
BY DEF FileListTypeOK, FilesTyped, FileNrs, Answers, FileRemovals

\* What is typed, what waits, what the page was told and what it asked for
\* follow each other, until they are disturbed; Clear leaves what waits.
BoxFollows ==
    /\ debounced # None => typed = debounced \/ (typed = "" /\ query = "")
    /\ ~disturbed /\ debounced = None => typed = query
    /\ ~disturbed => filesParams.q = SearchedFor(query, scope)
    /\ ~disturbed /\ ~reloadTimer => filesRequest = filesParams

\* Of the files that are gone the rows, read or shown, have only those that
\* the deletion under way has already come to.
RowsFollow ==
    /\ stored \cap removed = {}
    /\ removal.left \subseteq removal.ids
    /\ answer.st = "read" => answer.rows \cap removed \subseteq removal.ids \ removal.left
    /\ answer.st = "shown" => files \cap removed \subseteq removal.ids \ removal.left

FilesInv == FilesTyped /\ BoxFollows /\ RowsFollow

LEMMA FileBounds == MaxFile \in Nat /\ Changes \in Nat /\ None \notin Texts
BY FileListAssumption, NoneTyped

LEMMA FirstPage == "" \in Texts /\ [page |-> 0, q |-> ""] \in Params /\ [page |-> 0, q |-> ""].q = ""
<1>1. "" \in Texts
  BY FileListAssumption
<1>2. 0 \in 0 .. MaxFile
  BY FileBounds
<1> QED
  BY <1>1, <1>2, Zenon DEF Params

LEMMA FilesInitial == FileListInit => FilesInv
<1> SUFFICES ASSUME FileListInit PROVE FilesInv
  OBVIOUS
<1>1. PICK p : p = [page |-> 0, q |-> ""]
  OBVIOUS
<1>2. p \in Params /\ p.q = "" /\ "" \in Texts
  BY <1>1, FirstPage, FileBounds
<1>3. filesParams = p /\ filesRequest = p
  BY <1>1 DEF FileListInit
<1>4. answer \in Answers /\ answer.st = "asked"
  BY DEF FileListInit, Answers
<1>5. NoRemoval \in FileRemovals /\ NoRemoval.left = {} /\ NoRemoval.ids = {}
  BY DEF NoRemoval, FileRemovals
<1>6. changes \in 0 .. Changes
  <2>1. changes = 0
    BY DEF FileListInit
  <2> QED
    BY <2>1, FileBounds
<1>7. reloadTimer \in BOOLEAN /\ disturbed \in BOOLEAN
  BY DEF FileListInit
<1>8. FilesTyped
  BY <1>2, <1>3, <1>4, <1>5, <1>6, <1>7 DEF FileListInit, FilesTyped, FileNrs, Scopes
<1>9. BoxFollows
  BY <1>2, <1>3 DEF FileListInit, BoxFollows, SearchedFor
<1>10. RowsFollow
  BY <1>4, <1>5 DEF FileListInit, RowsFollow
<1> QED
  BY <1>8, <1>9, <1>10 DEF FilesInv

\* Whatever is asked for, the rows that were there are shown no longer.
LEMMA Asked ==
  ASSUME RowsFollow, NEW p \in Params, Request(p), UNCHANGED <<stored, files, removed>>,
         \/ UNCHANGED removal
         \/ removal' = NoRemoval
  PROVE  RowsFollow' /\ answer' \in Answers /\ filesRequest' = p
<1>1. answer' \in Answers /\ answer'.st = "asked" /\ filesRequest' = p
  BY DEF Request, Answers
<1>2. removal'.left \subseteq removal'.ids
  BY DEF RowsFollow, NoRemoval
<1> QED
  BY <1>1, <1>2 DEF RowsFollow

\* applyFileSearch, with what the box then shows.
LEMMA Applied ==
  ASSUME FilesInv, NEW text \in Texts, NEW where \in Scopes, ApplyFileSearch(text, where),
         UNCHANGED <<stored, files, removed, removal, reloadTimer>>
  PROVE  /\ query' = text /\ scope' = where /\ typed' \in Texts
         /\ text # query => typed' = text
         /\ text = query => typed' = typed
         /\ filesParams' \in Params /\ filesRequest' \in Params /\ answer' \in Answers /\ disturbed' \in BOOLEAN
         /\ RowsFollow'
         /\ filesParams'.q = SearchedFor(text, where)
         /\ ~disturbed' /\ ~reloadTimer' => filesRequest' = filesParams'
         /\ ~disturbed' => ~disturbed \/ typed' = query'
<1>0. FilesTyped /\ BoxFollows /\ RowsFollow
  BY DEF FilesInv
<1>1. PICK p : p = [page |-> 0, q |-> SearchedFor(text, where)]
  OBVIOUS
<1>2. p \in Params /\ p.q = SearchedFor(text, where)
  BY <1>1, FirstPage, FileBounds DEF Params, SearchedFor
<1>3. query' = text /\ scope' = where /\ typed' = IF text # query THEN text ELSE typed
  BY DEF ApplyFileSearch
<1>4. \/ p = filesParams /\ UNCHANGED <<filesParams, filesRequest, answer, disturbed>>
      \/ filesParams' = p /\ Request(p) /\ disturbed' = Unsettled
  BY <1>1 DEF ApplyFileSearch
<1>5. CASE p = filesParams /\ UNCHANGED <<filesParams, filesRequest, answer, disturbed>>
  <2>1. RowsFollow'
    BY <1>0, <1>5 DEF RowsFollow
  <2> QED
    BY <1>0, <1>2, <1>3, <1>5, <2>1 DEF FilesTyped, BoxFollows
<1>6. CASE filesParams' = p /\ Request(p) /\ disturbed' = Unsettled
  <2>1. RowsFollow' /\ answer' \in Answers /\ filesRequest' = p
    BY <1>0, <1>2, <1>6, Asked
  <2>2. disturbed' \in BOOLEAN /\ (~disturbed' => ~disturbed \/ typed' = query')
    BY <1>0, <1>6 DEF Unsettled, FilesTyped
  <2> QED
    BY <1>0, <1>2, <1>3, <1>6, <2>1, <2>2 DEF FilesTyped
<1> QED
  BY <1>4, <1>5, <1>6

LEMMA FilesStep == FilesInv /\ [FileListNext]_fileListVars => FilesInv'
<1> SUFFICES ASSUME FilesInv, [FileListNext]_fileListVars PROVE FilesTyped' /\ BoxFollows' /\ RowsFollow'
  BY DEF FilesInv
<1>0. /\ FilesTyped /\ BoxFollows /\ RowsFollow /\ Changes \in Nat /\ MaxFile \in Nat
      /\ None \notin Texts
  BY FileBounds DEF FilesInv
<1>c. Changed => changes' \in 0 .. Changes
  BY <1>0 DEF Changed, FilesTyped
<1>1. ASSUME NEW text \in Texts, Type(text) PROVE FilesTyped' /\ BoxFollows' /\ RowsFollow'
  <2>1. FilesTyped'
    BY <1>0, <1>1 DEF Type, listVars, FilesTyped
  <2> QED
    BY <1>0, <1>1, <2>1 DEF Type, listVars, BoxFollows, RowsFollow
<1>2. ASSUME DebounceEnds PROVE FilesTyped' /\ BoxFollows' /\ RowsFollow'
  <2>1. /\ debounced # None /\ debounced' = None /\ lastTyped' = debounced /\ debounced \in Texts
        /\ UNCHANGED <<stored, files, selectedFiles, upload, reloadTimer, removal, removed, changes>>
    BY <1>0, <1>2 DEF DebounceEnds, FilesTyped
  <2>2. typed = debounced \/ (typed = "" /\ query = "")
    BY <1>0, <2>1 DEF BoxFollows
  <2>3. CASE debounced # lastTyped
    <3>1. ApplyFileSearch(debounced, scope) /\ scope \in Scopes
      BY <1>0, <1>2, <2>3 DEF DebounceEnds, FilesTyped
    <3>2. /\ query' = debounced /\ scope' = scope /\ typed' \in Texts
          /\ debounced # query => typed' = debounced
          /\ debounced = query => typed' = typed
          /\ filesParams' \in Params /\ filesRequest' \in Params /\ answer' \in Answers /\ disturbed' \in BOOLEAN
          /\ RowsFollow'
          /\ filesParams'.q = SearchedFor(debounced, scope)
          /\ ~disturbed' /\ ~reloadTimer' => filesRequest' = filesParams'
      BY <2>1, <3>1, Applied
    <3>3. typed' = query'
      BY <2>2, <3>2
    <3>4. FilesTyped'
      BY <1>0, <2>1, <3>2 DEF FilesTyped
    <3>5. BoxFollows'
      BY <2>1, <3>2, <3>3 DEF BoxFollows
    <3> QED
      BY <3>2, <3>4, <3>5
  <2>4. CASE debounced = lastTyped
    <3>1. /\ disturbed' = (disturbed \/ query # debounced)
          /\ UNCHANGED <<typed, query, scope, filesParams, filesRequest, answer>>
      BY <1>2, <2>4 DEF DebounceEnds
    <3>2. disturbed' \in BOOLEAN /\ (~disturbed' => ~disturbed /\ typed = query)
      BY <1>0, <2>2, <3>1 DEF FilesTyped
    <3>3. FilesTyped'
      BY <1>0, <2>1, <3>1, <3>2 DEF FilesTyped
    <3>4. BoxFollows'
      BY <1>0, <2>1, <3>1, <3>2 DEF BoxFollows
    <3> QED
      BY <1>0, <2>1, <3>1, <3>3, <3>4 DEF RowsFollow
  <2> QED
    BY <2>3, <2>4
<1>3. ASSUME Clear PROVE FilesTyped' /\ BoxFollows' /\ RowsFollow'
  <2>1. PICK p : p = [page |-> 0, q |-> ""]
    OBVIOUS
  <2>2. p \in Params /\ p.q = "" /\ "" \in Texts
    BY <2>1, FirstPage
  <2>3. /\ typed' = "" /\ query' = ""
        /\ UNCHANGED <<stored, debounced, lastTyped, scope, files, selectedFiles, upload, reloadTimer, removal, removed,
                       changes>>
        /\ \/ p = filesParams /\ UNCHANGED <<filesParams, filesRequest, answer, disturbed>>
           \/ filesParams' = p /\ Request(p) /\ disturbed' = Unsettled
    BY <1>3, <2>1 DEF Clear
  <2>4. SearchedFor(query', scope') = ""
    BY <2>3 DEF SearchedFor
  <2>5. CASE p = filesParams /\ UNCHANGED <<filesParams, filesRequest, answer, disturbed>>
    <3>1. FilesTyped'
      BY <1>0, <2>2, <2>3, <2>5 DEF FilesTyped
    <3>2. BoxFollows'
      BY <1>0, <2>2, <2>3, <2>4, <2>5 DEF BoxFollows
    <3> QED
      BY <1>0, <2>3, <2>5, <3>1, <3>2 DEF RowsFollow
  <2>6. CASE filesParams' = p /\ Request(p) /\ disturbed' = Unsettled
    <3>1. RowsFollow' /\ answer' \in Answers /\ filesRequest' = p
      BY <1>0, <2>2, <2>3, <2>6, Asked
    <3>2. disturbed' \in BOOLEAN
      BY <1>0, <2>6 DEF Unsettled, FilesTyped
    <3>3. FilesTyped'
      BY <1>0, <2>2, <2>3, <2>6, <3>1, <3>2 DEF FilesTyped
    <3>4. BoxFollows'
      BY <2>2, <2>3, <2>4, <2>6, <3>1 DEF BoxFollows
    <3> QED
      BY <3>1, <3>3, <3>4
  <2> QED
    BY <2>3, <2>5, <2>6
<1>4. ASSUME NEW where \in Scopes, OnFileSearchScopeChange(where) PROVE FilesTyped' /\ BoxFollows' /\ RowsFollow'
  <2>1. /\ ApplyFileSearch(query, where) /\ query \in Texts
        /\ UNCHANGED <<stored, debounced, lastTyped, files, selectedFiles, upload, reloadTimer, removal, removed, changes>>
    BY <1>0, <1>4 DEF OnFileSearchScopeChange, FilesTyped
  <2>2. /\ query' = query /\ scope' = where /\ typed' \in Texts /\ typed' = typed
        /\ filesParams' \in Params /\ filesRequest' \in Params /\ answer' \in Answers /\ disturbed' \in BOOLEAN
        /\ RowsFollow'
        /\ filesParams'.q = SearchedFor(query, where)
        /\ ~disturbed' /\ ~reloadTimer' => filesRequest' = filesParams'
        /\ ~disturbed' => ~disturbed \/ typed' = query'
    BY <2>1, Applied
  <2>3. FilesTyped'
    BY <1>0, <2>1, <2>2 DEF FilesTyped
  <2>4. BoxFollows'
    BY <1>0, <2>1, <2>2 DEF BoxFollows
  <2> QED
    BY <2>2, <2>3, <2>4
<1>5. ASSUME NEW page \in 0 .. MaxFile, UpdateFilesParamsFromLazyEvent(page)
      PROVE  FilesTyped' /\ BoxFollows' /\ RowsFollow'
  <2>1. PICK p : p = [page |-> page, q |-> SearchedFor(query, scope)]
    OBVIOUS
  <2>2. p \in Params /\ p.q = SearchedFor(query, scope)
    BY <1>0, <2>1, FirstPage DEF Params, SearchedFor, FilesTyped
  <2>3. /\ filesParams' = p /\ Request(p) /\ disturbed' = Unsettled
        /\ UNCHANGED <<typed, debounced, lastTyped, query, scope>>
        /\ UNCHANGED <<stored, files, selectedFiles, upload, reloadTimer, removal, removed, changes>>
    BY <1>5, <2>1 DEF UpdateFilesParamsFromLazyEvent, searchVars
  <2>4. RowsFollow' /\ answer' \in Answers /\ filesRequest' = p
    BY <1>0, <2>2, <2>3, Asked
  <2>5. disturbed' \in BOOLEAN /\ (~disturbed' => ~disturbed \/ typed' = query')
    BY <1>0, <2>3 DEF Unsettled, FilesTyped
  <2>6. FilesTyped'
    BY <1>0, <2>2, <2>3, <2>4, <2>5 DEF FilesTyped
  <2>7. BoxFollows'
    BY <1>0, <2>2, <2>3, <2>4, <2>5 DEF BoxFollows
  <2> QED
    BY <2>4, <2>6, <2>7
<1>6. ASSUME ServerReads PROVE FilesTyped' /\ BoxFollows' /\ RowsFollow'
  <2>1. PICK rows \in SUBSET stored : answer' = [st |-> "read", rows |-> rows]
    BY <1>6 DEF ServerReads, Page
  <2>2. answer' \in Answers /\ answer'.st = "read" /\ answer'.rows \subseteq stored
    BY <1>0, <2>1 DEF Answers, FilesTyped
  <2>3. UNCHANGED <<stored, typed, debounced, lastTyped, query, scope, filesParams, filesRequest, files, selectedFiles,
                    upload, reloadTimer, removal, removed, disturbed, changes>>
    BY <1>6 DEF ServerReads, searchVars
  <2> QED
    BY <1>0, <2>2, <2>3 DEF FilesTyped, BoxFollows, RowsFollow
<1>7. ASSUME FilesShown PROVE FilesTyped' /\ BoxFollows' /\ RowsFollow'
  <2>1. answer' \in Answers /\ answer'.st = "shown"
    BY <1>7 DEF FilesShown, Answers
  <2>2. /\ answer.st = "read" /\ files' \in {answer.rows, {}} /\ changes' \in 0 .. Changes
        /\ UNCHANGED <<stored, typed, debounced, lastTyped, query, scope, filesParams, filesRequest, selectedFiles,
                       upload, reloadTimer, removal, removed, disturbed>>
    BY <1>0, <1>7, <1>c DEF FilesShown, searchVars, FilesTyped
  <2>3. answer.rows \subseteq FileNrs
    BY <1>0 DEF FilesTyped, Answers
  <2> QED
    BY <1>0, <2>1, <2>2, <2>3 DEF FilesTyped, BoxFollows, RowsFollow
<1>8. ASSUME NEW chosen \in SUBSET files, Select(chosen) PROVE FilesTyped' /\ BoxFollows' /\ RowsFollow'
  BY <1>0, <1>8 DEF Select, searchVars, FilesTyped, BoxFollows, RowsFollow
<1>9. ASSUME ConfirmUpload PROVE FilesTyped' /\ BoxFollows' /\ RowsFollow'
  BY <1>0, <1>9, <1>c DEF ConfirmUpload, searchVars, listVars, FilesTyped, BoxFollows, RowsFollow
<1>10. ASSUME UploadStored PROVE FilesTyped' /\ BoxFollows' /\ RowsFollow'
  BY <1>0, <1>10 DEF UploadStored, searchVars, listVars, FilesTyped, FileNrs, BoxFollows, RowsFollow
<1>11. ASSUME UploadDone PROVE FilesTyped' /\ BoxFollows' /\ RowsFollow'
  <2>1. PICK p : p = [page |-> 0, q |-> ""]
    OBVIOUS
  <2>2. p \in Params /\ p.q = ""
    BY <2>1, FirstPage
  <2>3. /\ filesParams' = p /\ reloadTimer' = TRUE /\ disturbed' = (disturbed \/ SearchedFor(query, scope) # "")
        /\ upload' = "none"
        /\ UNCHANGED <<stored, typed, debounced, lastTyped, query, scope, filesRequest, answer, files, selectedFiles,
                       removal, removed, changes>>
    BY <1>11, <2>1 DEF UploadDone, searchVars
  <2>4. disturbed' \in BOOLEAN /\ (~disturbed' => ~disturbed /\ SearchedFor(query, scope) = "")
    BY <1>0, <2>3 DEF FilesTyped
  <2>5. FilesTyped'
    BY <1>0, <2>2, <2>3, <2>4 DEF FilesTyped
  <2>6. BoxFollows'
    <3>1. SearchedFor(query, scope)' = SearchedFor(query, scope)
      BY <2>3 DEF SearchedFor
    <3> QED
      BY <1>0, <2>2, <2>3, <2>4, <3>1 DEF BoxFollows
  <2> QED
    BY <1>0, <2>3, <2>5, <2>6 DEF RowsFollow
<1>12. ASSUME ReloadTimerFires PROVE FilesTyped' /\ BoxFollows' /\ RowsFollow'
  <2>1. PICK p : p = [page |-> 0, q |-> ""]
    OBVIOUS
  <2>2. p \in Params
    BY <2>1, FirstPage
  <2>3. /\ reloadTimer' = FALSE /\ Request(p) /\ disturbed' = (disturbed \/ filesParams # p)
        /\ UNCHANGED <<stored, typed, debounced, lastTyped, query, scope, filesParams, files, selectedFiles, upload,
                       removal, removed, changes>>
    BY <1>12, <2>1 DEF ReloadTimerFires, searchVars
  <2>4. RowsFollow' /\ answer' \in Answers /\ filesRequest' = p
    BY <1>0, <2>2, <2>3, Asked
  <2>5. disturbed' \in BOOLEAN /\ (~disturbed' => ~disturbed /\ filesParams = p)
    BY <1>0, <2>3 DEF FilesTyped
  <2>6. FilesTyped'
    BY <1>0, <2>2, <2>3, <2>4, <2>5 DEF FilesTyped
  <2>7. BoxFollows'
    BY <1>0, <2>3, <2>4, <2>5 DEF BoxFollows
  <2> QED
    BY <2>4, <2>6, <2>7
<1>13. ASSUME NEW ids \in SUBSET (files \cup selectedFiles), DeleteFiles(ids)
       PROVE  FilesTyped' /\ BoxFollows' /\ RowsFollow'
  <2>1. /\ removal = NoRemoval /\ removal' = [ids |-> ids, left |-> ids] /\ changes' \in 0 .. Changes
        /\ UNCHANGED <<stored, typed, debounced, lastTyped, query, scope, filesParams, filesRequest, answer, files,
                       selectedFiles, upload, reloadTimer, removed, disturbed>>
    BY <1>13, <1>c DEF DeleteFiles, searchVars, listVars
  <2>2. removal' \in FileRemovals /\ removal'.ids = ids /\ removal'.left = ids
    BY <1>0, <2>1 DEF FileRemovals, FilesTyped
  <2>3. removal.ids \ removal.left = {}
    BY <2>1 DEF NoRemoval
  <2> QED
    BY <1>0, <2>1, <2>2, <2>3 DEF FilesTyped, BoxFollows, RowsFollow
<1>14. ASSUME NEW f \in removal.left, ServerDeletes(f) PROVE FilesTyped' /\ BoxFollows' /\ RowsFollow'
  <2>u. UNCHANGED <<typed, debounced, lastTyped, query, scope, filesParams, filesRequest, answer, files, selectedFiles,
                    upload, reloadTimer, disturbed>>
    BY <1>14 DEF ServerDeletes, searchVars, listVars
  <2>0. removal \in FileRemovals /\ removal.ids \subseteq FileNrs /\ removal.left \subseteq removal.ids /\ f \in FileNrs
    BY <1>0, <1>14 DEF FilesTyped, FileRemovals, RowsFollow
  <2>1. PICK r : r = [removal EXCEPT !.left = @ \ {f}]
    OBVIOUS
  <2>2. r \in FileRemovals /\ r.ids = removal.ids /\ r.left = removal.left \ {f}
    BY ONLY <2>0, <2>1 DEF FileRemovals
  <2>b. BoxFollows'
    BY <1>0, <2>u DEF BoxFollows
  <2>3. CASE stored' = stored \ {f} /\ removed' = removed \cup {f} /\ removal' = r /\ UNCHANGED changes
    <3>1. FilesTyped'
      BY <1>0, <2>u, <2>0, <2>2, <2>3 DEF FilesTyped
    <3>2. RowsFollow'
      BY <1>0, <2>u, <2>0, <2>2, <2>3 DEF RowsFollow
    <3> QED
      BY <2>b, <3>1, <3>2
  <2>4. CASE Several /\ removal' = r /\ Changed /\ UNCHANGED <<stored, removed>>
    <3>1. FilesTyped'
      BY <1>0, <1>c, <2>u, <2>2, <2>4 DEF FilesTyped
    <3>2. RowsFollow'
      BY <1>0, <2>u, <2>0, <2>2, <2>4 DEF RowsFollow
    <3> QED
      BY <2>b, <3>1, <3>2
  <2>5. CASE ~Several /\ removal' = NoRemoval /\ Changed /\ UNCHANGED <<stored, removed>>
    <3>1. removal.ids = {f}
      <4>1. IsFiniteSet(removal.ids) /\ f \in removal.ids
        <5>1. IsFiniteSet(FileNrs)
          BY FileBounds, FS_Interval DEF FileNrs
        <5> QED
          BY <1>14, <2>0, <5>1, FS_Subset
      <4>2. Cardinality(removal.ids) \in Nat /\ Cardinality(removal.ids) <= 1
        BY <2>5, <4>1, FS_CardinalityType DEF Several
      <4>3. Cardinality(removal.ids) # 0
        BY <4>1, FS_EmptySet
      <4>4. Cardinality(removal.ids) = 1
        BY <4>2, <4>3
      <4> QED
        BY <4>1, <4>4, FS_Singleton
    <3>2. removal.ids \ removal.left = {}
      BY <1>14, <3>1
    <3>3. NoRemoval \in FileRemovals /\ NoRemoval.ids = {} /\ NoRemoval.left = {}
      BY DEF NoRemoval, FileRemovals
    <3>4. FilesTyped'
      BY <1>0, <1>c, <2>u, <2>5, <3>3 DEF FilesTyped
    <3>5. RowsFollow'
      BY <1>0, <2>u, <2>5, <3>2, <3>3 DEF RowsFollow
    <3> QED
      BY <2>b, <3>4, <3>5
  <2> QED
    BY <1>14, <2>1, <2>3, <2>4, <2>5 DEF ServerDeletes
<1>15. ASSUME DeletionDone PROVE FilesTyped' /\ BoxFollows' /\ RowsFollow'
  <2>1. PICK p : p = [filesParams EXCEPT !.page = 0]
    OBVIOUS
  <2>2. filesParams \in Params /\ MaxFile \in Nat
    BY <1>0 DEF FilesTyped
  <2>3. p \in Params /\ p.q = filesParams.q
    BY ONLY <2>1, <2>2 DEF Params
  <2>4. /\ filesParams' = p /\ Request(p) /\ removal' = NoRemoval
        /\ selectedFiles' = (IF Several THEN {} ELSE selectedFiles \ removal.ids)
        /\ UNCHANGED <<stored, typed, debounced, lastTyped, query, scope, files, upload, reloadTimer, removed, disturbed,
                       changes>>
    BY <1>15, <2>1 DEF DeletionDone, searchVars
  <2>5. RowsFollow' /\ answer' \in Answers /\ filesRequest' = p
    BY <1>0, <2>3, <2>4, Asked
  <2>6. NoRemoval \in FileRemovals
    BY DEF NoRemoval, FileRemovals
  <2>7. FilesTyped'
    BY <1>0, <2>3, <2>4, <2>5, <2>6 DEF FilesTyped
  <2>8. BoxFollows'
    BY <1>0, <2>3, <2>4, <2>5 DEF BoxFollows
  <2> QED
    BY <2>5, <2>7, <2>8
<1>16. CASE UNCHANGED fileListVars
  BY <1>0, <1>16 DEF fileListVars, searchVars, listVars, FilesTyped, BoxFollows, RowsFollow
<1> QED
  BY <1>1, <1>2, <1>3, <1>4, <1>5, <1>6, <1>7, <1>8, <1>9, <1>10, <1>11, <1>12, <1>13, <1>14, <1>15, <1>16
      DEF FileListNext

LEMMA FilesInvShows == FilesInv => FileListTypeOK /\ TableListsTheSearch /\ DeletedFileIsGone
<1> SUFFICES ASSUME FilesInv PROVE FileListTypeOK /\ TableListsTheSearch /\ DeletedFileIsGone
  OBVIOUS
<1>1. FilesTyped /\ BoxFollows /\ RowsFollow
  BY DEF FilesInv
<1>2. DeletedFileIsGone
  BY <1>1 DEF RowsFollow, DeletedFileIsGone, NoRemoval
<1>3. TableListsTheSearch
  BY <1>1 DEF BoxFollows, TableListsTheSearch, Quiet
<1> QED
  BY <1>1, <1>2, <1>3, FilesTypes

-----------------------------------------------------------------------------
(* The tabs of a workspace's settings.                                     *)
SettingUpdates == [nr : 1 .. SettingSteps, field : Fields, value : BOOLEAN,
                   st : {"sent", "loaded", "saved", "answered"}, rows : Bits]
SettingLoads == [nr : 0 .. SettingSteps, st : {"asked", "read"}, rows : Bits]

SettingsTyped ==
    /\ tab \in {"voice", "parsers"} /\ settingsRow \in Bits /\ shownSettings \in Bits
    /\ settingUpdates \subseteq SettingUpdates /\ settingLoads \subseteq SettingLoads
    /\ loadingTab \in BOOLEAN /\ crossing \in BOOLEAN /\ savingKey \in Keys \cup {NoKey}
    /\ lastSaved \in [Fields -> 0 .. SettingSteps] /\ settingSteps \in 0 .. SettingSteps

\* Both forms of the type invariant say the same.
LEMMA SettingsTypes == (SettingsFormsTypeOK <=> SettingsTyped) /\ (SettingsFormsTypeOK' <=> SettingsTyped')
BY DEF SettingsFormsTypeOK, SettingsTyped, SettingUpdates, SettingLoads

\* Updates are numbered as they are sent.
Numbered ==
    /\ \A u, v \in settingUpdates : u.nr = v.nr => u = v
    /\ \A u \in settingUpdates : u.nr <= settingSteps
    /\ \A f \in Fields : lastSaved[f] <= settingSteps

ToSave(u) == u \in settingUpdates /\ u.st \in {"sent", "loaded"}
Choosing(u) == ToSave(u) /\ u.field = "choice"

\* A choice is shown at once: the newest one is to be saved, or was saved.
ChoiceFollows ==
    \/ \E u \in settingUpdates :
           /\ Choosing(u) /\ u.value = shownSettings["choice"]
           /\ \A v \in settingUpdates : Choosing(v) => v.nr <= u.nr
    \/ /\ settingsRow["choice"] = shownSettings["choice"]
       /\ \A v \in settingUpdates : Choosing(v) => v.nr < lastSaved["choice"]

\* One plan is changed at a time, and shown when its answer has come.
PlanFollows ==
    /\ \A u, v \in settingUpdates : u.field = "plan" /\ v.field = "plan" => u = v
    /\ (\A u \in settingUpdates : u.field = "plan" => ToSave(u)) => settingsRow["plan"] = shownSettings["plan"]
    /\ \A u \in settingUpdates : u.field = "plan" /\ u.st = "answered" => u.rows["plan"] = settingsRow["plan"]

\* A key that is saved is shown by the load that follows its answer.
KeysFollow ==
    \A k \in Keys : \/ settingsRow[k] = shownSettings[k]
                    \/ \E u \in settingUpdates : u.field = k /\ u.st \in {"saved", "answered"}
                    \/ settingLoads # {}

SettingsFollow ==
    ~crossing =>
        /\ settingLoads = {} => ChoiceFollows
        /\ \A l \in settingLoads : l.st = "read" => \A u \in settingUpdates : ~Choosing(u)
        /\ PlanFollows /\ KeysFollow

SettingsInv == SettingsTyped /\ Numbered /\ SettingsFollow

LEMMA FieldNames == "choice" \in Fields /\ "plan" \in Fields /\ Keys \subseteq Fields
                    /\ "choice" \notin Keys /\ "plan" \notin Keys /\ NoKey \notin Keys /\ SettingSteps \in Nat
BY KeyNames, SettingsAssumption DEF Fields

LEMMA UnsetIs == Unset \in Bits /\ \A f \in Fields : Unset[f] = FALSE
BY DEF Unset, Bits

LEMMA SettingsInitial == SettingsInit => SettingsInv
<1> SUFFICES ASSUME SettingsInit PROVE SettingsInv
  OBVIOUS
<1>1. PICK l : l = [nr |-> 0, st |-> "asked", rows |-> Unset]
  OBVIOUS
<1>2. l \in SettingLoads /\ l.st = "asked"
  BY <1>1, UnsetIs, FieldNames DEF SettingLoads
<1>3. settingLoads = {l} /\ settingUpdates = {} /\ settingsRow = Unset /\ shownSettings = Unset
  BY <1>1 DEF SettingsInit
<1>4. lastSaved \in [Fields -> 0 .. SettingSteps] /\ settingSteps \in 0 .. SettingSteps
      /\ \A f \in Fields : lastSaved[f] <= settingSteps
  BY FieldNames DEF SettingsInit
<1>5. loadingTab \in BOOLEAN /\ crossing \in BOOLEAN
  BY DEF SettingsInit
<1>6. SettingsTyped
  BY <1>2, <1>3, <1>4, <1>5, UnsetIs DEF SettingsInit, SettingsTyped
<1>7. SettingsFollow
  BY <1>2, <1>3 DEF SettingsFollow, PlanFollows, KeysFollow
<1> QED
  BY <1>3, <1>4, <1>6, <1>7 DEF SettingsInv, Numbered

\* What is sent is newer than what was sent before.
LEMMA UpdateSent ==
  ASSUME SettingsInv, NEW f \in Fields, NEW value \in BOOLEAN, SendUpdate(f, value)
  PROVE  \E u : /\ u \in SettingUpdates /\ u.field = f /\ u.value = value /\ u.st = "sent" /\ u.nr = settingSteps'
                /\ settingUpdates' = settingUpdates \cup {u}
                /\ settingSteps' \in 0 .. SettingSteps
                /\ u \notin settingUpdates
                /\ \A v \in settingUpdates : v.nr < u.nr
                /\ Numbered'
                /\ UNCHANGED <<tab, settingsRow, settingLoads, loadingTab, lastSaved>>
<1> DEFINE u == [nr |-> settingSteps', field |-> f, value |-> value, st |-> "sent", rows |-> Unset]
<1>0. SettingsTyped /\ Numbered /\ SettingSteps \in Nat
  BY FieldNames DEF SettingsInv
<1>1. settingSteps' = settingSteps + 1 /\ settingSteps' \in 1 .. SettingSteps
  BY <1>0 DEF SendUpdate, SettingStep, SettingsTyped
<1>2. u \in SettingUpdates
  BY <1>1, UnsetIs DEF SettingUpdates
<1>3. u.field = f /\ u.value = value /\ u.st = "sent" /\ u.nr = settingSteps'
  OBVIOUS
<1>4. settingUpdates' = settingUpdates \cup {u} /\ UNCHANGED <<tab, settingsRow, settingLoads, loadingTab, lastSaved>>
  BY DEF SendUpdate
<1> HIDE DEF u
<1>5. \A v \in settingUpdates : v.nr \in Nat /\ v.nr <= settingSteps /\ settingSteps \in Nat
  BY <1>0 DEF SettingsTyped, SettingUpdates, Numbered
<1>6. \A v \in settingUpdates : v.nr < u.nr
  BY <1>1, <1>3, <1>5
<1>7. u \notin settingUpdates
  BY <1>5, <1>6
<1>8. Numbered'
  <2>1. \A f2 \in Fields : lastSaved'[f2] <= settingSteps'
    BY <1>0, <1>1, <1>4 DEF Numbered, SettingsTyped
  <2>2. \A v \in settingUpdates' : v.nr <= settingSteps'
    BY <1>0, <1>1, <1>3, <1>4, <1>5
  <2>3. \A v, w \in settingUpdates' : v.nr = w.nr => v = w
    <3>1. \A v \in settingUpdates : v.nr # u.nr
      BY <1>5, <1>6, <1>1, <1>3
    <3> QED
      BY <1>0, <1>4, <3>1 DEF Numbered
  <2> QED
    BY <2>1, <2>2, <2>3 DEF Numbered
<1> QED
  BY <1>1, <1>2, <1>3, <1>4, <1>6, <1>7, <1>8

\* One update that goes on keeps its number, its field and its value.
GoesOn(u, w) == w \in SettingUpdates /\ w.nr = u.nr /\ w.field = u.field /\ w.value = u.value

LEMMA NumberedGoesOn ==
  ASSUME SettingsInv, NEW u \in settingUpdates, NEW w, GoesOn(u, w),
         settingUpdates' = (settingUpdates \ {u}) \cup {w}, UNCHANGED <<settingSteps>>,
         \A f \in Fields : lastSaved'[f] <= settingSteps
  PROVE  Numbered'
BY DEF SettingsInv, Numbered, GoesOn

LEMMA ChoiceSent == SettingsInv /\ ChangeChoice => SettingsInv'
<1> SUFFICES ASSUME SettingsInv, ChangeChoice PROVE SettingsInv'
  OBVIOUS
<1>0. SettingsTyped /\ Numbered /\ SettingsFollow
  BY DEF SettingsInv
<1>1. PICK v \in BOOLEAN : v = ~shownSettings["choice"]
  OBVIOUS
<1>2. /\ SendUpdate("choice", v) /\ shownSettings' = [shownSettings EXCEPT !["choice"] = v]
      /\ crossing' = (crossing \/ settingLoads # {}) /\ savingKey' = savingKey
  BY <1>1 DEF ChangeChoice
<1>3. PICK u : /\ u \in SettingUpdates /\ u.field = "choice" /\ u.value = v /\ u.st = "sent" /\ u.nr = settingSteps'
               /\ settingUpdates' = settingUpdates \cup {u}
               /\ settingSteps' \in 0 .. SettingSteps
               /\ u \notin settingUpdates
               /\ \A w \in settingUpdates : w.nr < u.nr
               /\ Numbered'
               /\ UNCHANGED <<tab, settingsRow, settingLoads, loadingTab, lastSaved>>
  BY <1>2, UpdateSent, FieldNames
<1>4. shownSettings' \in Bits /\ shownSettings'["choice"] = v /\ \A f \in Fields \ {"choice"} : shownSettings'[f] = shownSettings[f]
  BY <1>0, <1>2, FieldNames DEF SettingsTyped, Bits
<1>5. crossing' \in BOOLEAN /\ (~crossing' => ~crossing /\ settingLoads = {})
  BY <1>0, <1>2 DEF SettingsTyped
<1>6. SettingsTyped'
  BY <1>0, <1>2, <1>3, <1>4, <1>5 DEF SettingsTyped
<1>7. ASSUME ~crossing' PROVE ChoiceFollows'
  <2>1. \A w \in settingUpdates' : w.nr <= u.nr
    BY <1>0, <1>3 DEF SettingsTyped, SettingUpdates
  <2> QED
    BY <1>3, <1>4, <2>1 DEF ChoiceFollows, Choosing, ToSave
<1>8. ASSUME ~crossing' PROVE PlanFollows' /\ KeysFollow'
  <2>1. PlanFollows /\ KeysFollow
    BY <1>0, <1>5, <1>8 DEF SettingsFollow
  <2>2. \A w \in settingUpdates' : w.field = "plan" => w \in settingUpdates
    BY <1>3
  <2>3. shownSettings'["plan"] = shownSettings["plan"] /\ \A k \in Keys : shownSettings'[k] = shownSettings[k]
    BY <1>4, FieldNames
  <2>4. PlanFollows'
    BY <1>3, <2>1, <2>2, <2>3 DEF PlanFollows, ToSave
  <2>5. KeysFollow'
    BY <1>3, <2>1, <2>3 DEF KeysFollow
  <2> QED
    BY <2>4, <2>5
<1>9. SettingsFollow'
  BY <1>3, <1>5, <1>7, <1>8 DEF SettingsFollow
<1> QED
  BY <1>3, <1>6, <1>9 DEF SettingsInv

\* A plan or a key that is sent changes nothing that is shown.
LEMMA OtherSent ==
  ASSUME SettingsInv, NEW f \in Fields, f # "choice", NEW value \in BOOLEAN, SendUpdate(f, value),
         f = "plan" => \A w \in settingUpdates : w.field # "plan",
         UNCHANGED <<shownSettings, crossing>>, savingKey' \in Keys \cup {NoKey}
  PROVE  SettingsInv'
<1>0. SettingsTyped /\ Numbered /\ SettingsFollow
  BY DEF SettingsInv
<1>1. PICK u : /\ u \in SettingUpdates /\ u.field = f /\ u.value = value /\ u.st = "sent" /\ u.nr = settingSteps'
               /\ settingUpdates' = settingUpdates \cup {u}
               /\ settingSteps' \in 0 .. SettingSteps
               /\ u \notin settingUpdates
               /\ \A v \in settingUpdates : v.nr < u.nr
               /\ Numbered'
               /\ UNCHANGED <<tab, settingsRow, settingLoads, loadingTab, lastSaved>>
  BY UpdateSent
<1>2. SettingsTyped'
  BY <1>0, <1>1 DEF SettingsTyped
<1>3. \A w : Choosing(w)' <=> Choosing(w)
  BY <1>1 DEF Choosing, ToSave
<1>4. ChoiceFollows => ChoiceFollows'
  BY <1>1, <1>3 DEF ChoiceFollows, Choosing, ToSave
<1>5. PlanFollows => PlanFollows'
  BY <1>1 DEF PlanFollows, ToSave
<1>6. KeysFollow => KeysFollow'
  BY <1>1 DEF KeysFollow
<1>7. (\A w \in settingUpdates : ~Choosing(w)) => (\A w \in settingUpdates' : ~Choosing(w)')
  BY <1>1, <1>3 DEF Choosing, ToSave
<1>8. SettingsFollow'
  BY <1>0, <1>1, <1>4, <1>5, <1>6, <1>7 DEF SettingsFollow
<1> QED
  BY <1>1, <1>2, <1>8 DEF SettingsInv

\* One update goes on from u to w; what is shown and what is loaded stay.
LEMMA ServedTypes ==
  ASSUME SettingsInv, NEW u \in settingUpdates, NEW w, GoesOn(u, w),
         settingUpdates' = (settingUpdates \ {u}) \cup {w}, settingsRow' \in Bits,
         lastSaved' \in [Fields -> 0 .. SettingSteps], \A f \in Fields : lastSaved'[f] <= settingSteps,
         crossing' \in BOOLEAN,
         UNCHANGED <<tab, shownSettings, settingLoads, loadingTab, savingKey, settingSteps>>
  PROVE  SettingsTyped' /\ Numbered'
<1>1. Numbered'
  BY NumberedGoesOn
<1>2. SettingsTyped'
  BY DEF SettingsInv, SettingsTyped, GoesOn
<1> QED
  BY <1>1, <1>2

LEMMA RowLoaded == SettingsInv /\ (\E u \in settingUpdates : LoadSettingsRow(u)) => SettingsInv'
<1> SUFFICES ASSUME SettingsInv, NEW u \in settingUpdates, LoadSettingsRow(u) PROVE SettingsInv'
  OBVIOUS
<1>0. SettingsTyped /\ Numbered /\ SettingsFollow /\ u \in SettingUpdates
  BY DEF SettingsInv, SettingsTyped
<1>1. PICK w : w = [u EXCEPT !.st = "loaded", !.rows = settingsRow]
  OBVIOUS
<1>2. settingsRow \in Bits
  BY <1>0 DEF SettingsTyped
<1>3. GoesOn(u, w) /\ w.st = "loaded"
  BY ONLY <1>0, <1>1, <1>2 DEF GoesOn, SettingUpdates
<1>4. /\ u.st = "sent" /\ settingUpdates' = (settingUpdates \ {u}) \cup {w}
      /\ UNCHANGED <<tab, settingsRow, shownSettings, settingLoads, loadingTab, savingKey, lastSaved, crossing,
                     settingSteps>>
  BY <1>1 DEF LoadSettingsRow
<1>5. SettingsTyped' /\ Numbered'
  <2>1. \A f \in Fields : lastSaved'[f] <= settingSteps
    BY <1>0, <1>4 DEF Numbered
  <2> QED
    BY <1>0, <1>3, <1>4, <2>1, ServedTypes DEF SettingsTyped
<1>6. ChoiceFollows => ChoiceFollows'
  BY <1>3, <1>4 DEF ChoiceFollows, Choosing, ToSave, GoesOn
<1>7. PlanFollows => PlanFollows'
  BY <1>3, <1>4 DEF PlanFollows, ToSave, GoesOn
<1>8. KeysFollow => KeysFollow'
  BY <1>3, <1>4 DEF KeysFollow, GoesOn
<1>9. (\A v \in settingUpdates : ~Choosing(v)) => (\A v \in settingUpdates' : ~Choosing(v)')
  BY <1>3, <1>4 DEF Choosing, ToSave, GoesOn
<1>10. SettingsFollow'
  BY <1>0, <1>4, <1>6, <1>7, <1>8, <1>9 DEF SettingsFollow
<1> QED
  BY <1>5, <1>10 DEF SettingsInv

LEMMA AnswerRead == SettingsInv /\ (\E u \in settingUpdates : ReadAnswer(u)) => SettingsInv'
<1> SUFFICES ASSUME SettingsInv, NEW u \in settingUpdates, ReadAnswer(u) PROVE SettingsInv'
  OBVIOUS
<1>0. SettingsTyped /\ Numbered /\ SettingsFollow /\ u \in SettingUpdates
  BY DEF SettingsInv, SettingsTyped
<1>1. PICK w : w = [u EXCEPT !.st = "answered", !.rows = settingsRow]
  OBVIOUS
<1>2. settingsRow \in Bits
  BY <1>0 DEF SettingsTyped
<1>3. GoesOn(u, w) /\ w.st = "answered" /\ w.rows = settingsRow
  BY ONLY <1>0, <1>1, <1>2 DEF GoesOn, SettingUpdates
<1>4. /\ u.st = "saved" /\ settingUpdates' = (settingUpdates \ {u}) \cup {w}
      /\ UNCHANGED <<tab, settingsRow, shownSettings, settingLoads, loadingTab, savingKey, lastSaved, crossing,
                     settingSteps>>
  BY <1>1 DEF ReadAnswer
<1>5. SettingsTyped' /\ Numbered'
  <2>1. \A f \in Fields : lastSaved'[f] <= settingSteps
    BY <1>0, <1>4 DEF Numbered
  <2> QED
    BY <1>0, <1>3, <1>4, <2>1, ServedTypes DEF SettingsTyped
<1>6. ChoiceFollows => ChoiceFollows'
  BY <1>3, <1>4 DEF ChoiceFollows, Choosing, ToSave, GoesOn
<1>7. PlanFollows => PlanFollows'
  BY <1>3, <1>4 DEF PlanFollows, ToSave, GoesOn
<1>8. KeysFollow => KeysFollow'
  BY <1>3, <1>4 DEF KeysFollow, GoesOn
<1>9. (\A v \in settingUpdates : ~Choosing(v)) => (\A v \in settingUpdates' : ~Choosing(v)')
  BY <1>3, <1>4 DEF Choosing, ToSave, GoesOn
<1>10. SettingsFollow'
  BY <1>0, <1>4, <1>6, <1>7, <1>8, <1>9 DEF SettingsFollow
<1> QED
  BY <1>5, <1>10 DEF SettingsInv

\* A save that does not cross another changes its own field, and no newer one was saved.
LEMMA RowSaved == SettingsInv /\ (\E u \in settingUpdates : SaveSettingsRow(u)) => SettingsInv'
<1> SUFFICES ASSUME SettingsInv, NEW u \in settingUpdates, SaveSettingsRow(u) PROVE SettingsInv'
  OBVIOUS
<1>0. SettingsTyped /\ Numbered /\ SettingsFollow /\ u \in SettingUpdates
  BY DEF SettingsInv, SettingsTyped
<1>1. PICK w : w = [u EXCEPT !.st = "saved"]
  OBVIOUS
<1>2. /\ u.field \in Fields /\ u.value \in BOOLEAN /\ u.rows \in Bits /\ u.nr \in 1 .. SettingSteps
      /\ lastSaved \in [Fields -> 0 .. SettingSteps] /\ SettingSteps \in Nat /\ settingSteps \in 0 .. SettingSteps
  BY <1>0, FieldNames DEF SettingUpdates, SettingsTyped
<1>3. GoesOn(u, w) /\ w.st = "saved"
  BY ONLY <1>0, <1>1 DEF GoesOn, SettingUpdates
<1>4. /\ u.st = "loaded" /\ settingUpdates' = (settingUpdates \ {u}) \cup {w}
      /\ settingsRow' = [u.rows EXCEPT ![u.field] = u.value]
      /\ lastSaved' = [lastSaved EXCEPT ![u.field] = IF @ < u.nr THEN u.nr ELSE @]
      /\ crossing' = (crossing \/ u.rows # settingsRow \/ lastSaved[u.field] > u.nr)
      /\ UNCHANGED <<tab, shownSettings, settingLoads, loadingTab, savingKey, settingSteps>>
  BY <1>1 DEF SaveSettingsRow
<1>5. settingsRow' \in Bits
  BY <1>2, <1>4 DEF Bits
<1>6. lastSaved' \in [Fields -> 0 .. SettingSteps] /\ \A f \in Fields \ {u.field} : lastSaved'[f] = lastSaved[f]
  BY <1>2, <1>4
<1>7. lastSaved'[u.field] = IF lastSaved[u.field] < u.nr THEN u.nr ELSE lastSaved[u.field]
  BY <1>2, <1>4
<1>8. \A f \in Fields : lastSaved'[f] <= settingSteps
  BY <1>0, <1>2, <1>6, <1>7 DEF Numbered
<1>9. crossing' \in BOOLEAN
  BY <1>0, <1>4 DEF SettingsTyped
<1>10. SettingsTyped' /\ Numbered'
  BY <1>3, <1>4, <1>5, <1>6, <1>8, <1>9, ServedTypes
<1>11. ASSUME ~crossing'
       PROVE  /\ ~crossing /\ lastSaved[u.field] <= u.nr /\ lastSaved'[u.field] = u.nr
              /\ settingsRow'[u.field] = u.value /\ \A f \in Fields \ {u.field} : settingsRow'[f] = settingsRow[f]
  <2>1. ~crossing /\ u.rows = settingsRow /\ ~(lastSaved[u.field] > u.nr)
    BY <1>0, <1>4, <1>11 DEF SettingsTyped
  <2>2. lastSaved[u.field] \in Nat /\ u.nr \in Nat
    BY <1>2
  <2>3. lastSaved[u.field] <= u.nr /\ lastSaved'[u.field] = u.nr
    BY <2>1, <2>2, <1>7
  <2>4. settingsRow'[u.field] = u.value /\ \A f \in Fields \ {u.field} : settingsRow'[f] = settingsRow[f]
    BY <1>2, <1>4, <2>1 DEF Bits
  <2> QED
    BY <2>1, <2>3, <2>4
<1>12. \A v : v \in settingUpdates' /\ v # w => v \in settingUpdates /\ v # u
  BY <1>4
<1>13. \A v \in settingUpdates : v # u => v \in settingUpdates'
  BY <1>4
<1>14. \A v \in settingUpdates' : Choosing(v)' => v \in settingUpdates /\ v # u /\ Choosing(v)
  BY <1>3, <1>12 DEF Choosing, ToSave
<1>15. ASSUME ~crossing', ChoiceFollows PROVE ChoiceFollows'
  <2>1. CASE u.field # "choice"
    <3>1. \A v : Choosing(v) <=> Choosing(v)'
      BY <1>3, <1>13, <1>14, <2>1 DEF Choosing, ToSave, GoesOn
    <3>2. settingsRow'["choice"] = settingsRow["choice"] /\ lastSaved'["choice"] = lastSaved["choice"]
      BY <1>6, <1>11, <1>15, <2>1, FieldNames
    <3>3. \A v : Choosing(v) => v \in settingUpdates
      BY DEF Choosing, ToSave
    <3>4. \A v : Choosing(v) => v \in settingUpdates'
      BY <3>1 DEF Choosing, ToSave
    <3> QED
      BY <1>4, <1>15, <3>1, <3>2, <3>3, <3>4 DEF ChoiceFollows
  <2>2. CASE u.field = "choice"
    <3>1. Choosing(u)
      BY <1>4, <2>2 DEF Choosing, ToSave
    <3>2. PICK x \in settingUpdates : /\ Choosing(x) /\ x.value = shownSettings["choice"]
                                      /\ \A v \in settingUpdates : Choosing(v) => v.nr <= x.nr
      <4>1. ~(u.nr < lastSaved["choice"])
        BY <1>2, <1>11, <1>15, <2>2
      <4> QED
        BY <1>15, <3>1, <4>1 DEF ChoiceFollows
    <3>3. CASE x = u
      <4>1. settingsRow'["choice"] = shownSettings'["choice"]
        BY <1>4, <1>11, <1>15, <2>2, <3>2, <3>3
      <4>2. \A v \in settingUpdates' : Choosing(v)' => v.nr <= u.nr /\ v.nr # u.nr /\ v.nr \in Nat
        BY <1>0, <1>14, <3>2, <3>3 DEF Numbered, SettingsTyped, SettingUpdates
      <4>3. \A v \in settingUpdates' : Choosing(v)' => v.nr < lastSaved'["choice"]
        BY <1>2, <1>11, <1>15, <2>2, <4>2
      <4> QED
        BY <4>1, <4>3 DEF ChoiceFollows
    <3>4. CASE x # u
      <4>1. x \in settingUpdates' /\ Choosing(x)'
        BY <1>13, <3>2, <3>4 DEF Choosing, ToSave
      <4>2. \A v \in settingUpdates' : Choosing(v)' => v.nr <= x.nr
        BY <1>14, <3>2
      <4> QED
        BY <1>4, <3>2, <4>1, <4>2 DEF ChoiceFollows
    <3> QED
      BY <3>3, <3>4
  <2> QED
    BY <2>1, <2>2
<1>16. ASSUME ~crossing', PlanFollows PROVE PlanFollows'
  <2>1. CASE u.field = "plan"
    <3>1. \A v \in settingUpdates' : v.field = "plan" => v = w
      BY <1>12, <1>16, <2>1 DEF PlanFollows
    <3>2. w \in settingUpdates' /\ w.field = "plan" /\ ~ToSave(w)' /\ w.st # "answered"
      BY <1>3, <1>4, <2>1 DEF GoesOn, ToSave
    <3> QED
      BY <3>1, <3>2 DEF PlanFollows
  <2>2. CASE u.field # "plan"
    <3>1. settingsRow'["plan"] = settingsRow["plan"]
      BY <1>11, <1>16, <2>2, FieldNames
    <3>2. \A v : v \in settingUpdates' /\ v.field = "plan" <=> v \in settingUpdates /\ v.field = "plan"
      BY <1>3, <1>4, <2>2 DEF GoesOn
    <3> QED
      BY <1>4, <1>16, <3>1, <3>2 DEF PlanFollows, ToSave
  <2> QED
    BY <2>1, <2>2
<1>17. ASSUME ~crossing', KeysFollow PROVE KeysFollow'
  <2> SUFFICES ASSUME NEW k \in Keys
               PROVE  \/ settingsRow'[k] = shownSettings[k]
                      \/ \E v \in settingUpdates' : v.field = k /\ v.st \in {"saved", "answered"}
                      \/ settingLoads # {}
    BY <1>4 DEF KeysFollow
  <2>1. CASE u.field = k
    BY <1>3, <1>4, <2>1 DEF GoesOn
  <2>2. CASE u.field # k
    <3>1. settingsRow'[k] = settingsRow[k]
      BY <1>11, <1>17, <2>2, FieldNames
    <3>2. \A v \in settingUpdates : v.field = k => v \in settingUpdates'
      BY <1>13, <2>2
    <3> QED
      BY <1>17, <3>1, <3>2 DEF KeysFollow
  <2> QED
    BY <2>1, <2>2
<1>18. (\A v \in settingUpdates : ~Choosing(v)) => (\A v \in settingUpdates' : ~Choosing(v)')
  BY <1>14
<1>19. SettingsFollow'
  BY <1>0, <1>4, <1>11, <1>15, <1>16, <1>17, <1>18 DEF SettingsFollow
<1> QED
  BY <1>10, <1>19 DEF SettingsInv

\* What is read while no choice and no key is on its way is the last that was chosen.
LEMMA SettingsRead == SettingsInv /\ (\E l \in settingLoads : ReadSettings(l)) => SettingsInv'
<1> SUFFICES ASSUME SettingsInv, NEW l \in settingLoads, ReadSettings(l) PROVE SettingsInv'
  OBVIOUS
<1>0. SettingsTyped /\ Numbered /\ SettingsFollow /\ l \in SettingLoads
  BY DEF SettingsInv, SettingsTyped
<1>1. PICK m : m = [l EXCEPT !.st = "read", !.rows = settingsRow]
  OBVIOUS
<1>2. settingsRow \in Bits
  BY <1>0 DEF SettingsTyped
<1>3. m \in SettingLoads
  BY ONLY <1>0, <1>1, <1>2 DEF SettingLoads
<1>4. /\ settingLoads' = (settingLoads \ {l}) \cup {m}
      /\ crossing' = (crossing \/ \E u \in settingUpdates : u.st \in {"sent", "loaded"} /\ u.field # "plan")
      /\ UNCHANGED <<tab, settingsRow, shownSettings, settingUpdates, loadingTab, savingKey, lastSaved, settingSteps>>
  BY <1>1 DEF ReadSettings
<1>5. crossing' \in BOOLEAN /\ (~crossing' => ~crossing /\ \A u \in settingUpdates : ~Choosing(u))
  BY <1>0, <1>4 DEF SettingsTyped, Choosing, ToSave
<1>6. SettingsTyped'
  BY <1>0, <1>3, <1>4, <1>5 DEF SettingsTyped
<1>7. Numbered'
  BY <1>0, <1>4 DEF Numbered
<1>8. (PlanFollows => PlanFollows') /\ (\A u : Choosing(u)' <=> Choosing(u))
  BY <1>4 DEF PlanFollows, ToSave, Choosing
<1>9. settingLoads' # {} /\ KeysFollow'
  BY <1>4 DEF KeysFollow
<1>10. SettingsFollow'
  BY <1>0, <1>4, <1>5, <1>8, <1>9 DEF SettingsFollow
<1> QED
  BY <1>6, <1>7, <1>10 DEF SettingsInv

\* An answer is taken: its update is no more, and was saved before.
LEMMA ChoiceAnswered == SettingsInv /\ (\E u \in settingUpdates : ChoiceSaved(u)) => SettingsInv'
<1> SUFFICES ASSUME SettingsInv, NEW u \in settingUpdates, ChoiceSaved(u) PROVE SettingsInv'
  OBVIOUS
<1>0. SettingsTyped /\ Numbered /\ SettingsFollow /\ u \in SettingUpdates
  BY DEF SettingsInv, SettingsTyped
<1>1. /\ u.st = "answered" /\ u.field \in {"choice", "plan"} /\ u.field \notin Keys
      /\ settingUpdates' = settingUpdates \ {u}
      /\ shownSettings' = IF u.field = "plan" THEN [shownSettings EXCEPT !["plan"] = u.rows["plan"]] ELSE shownSettings
      /\ UNCHANGED <<tab, settingsRow, settingLoads, loadingTab, savingKey, lastSaved, crossing, settingSteps>>
  BY FieldNames DEF ChoiceSaved
<1>2. u.rows \in Bits /\ u.rows["plan"] \in BOOLEAN
  BY <1>0, FieldNames DEF SettingUpdates, Bits
<1>3. /\ shownSettings' \in Bits
      /\ \A f \in Fields \ {"plan"} : shownSettings'[f] = shownSettings[f]
      /\ u.field = "plan" => shownSettings'["plan"] = u.rows["plan"]
      /\ u.field # "plan" => shownSettings' = shownSettings
  BY <1>0, <1>1, <1>2, FieldNames DEF SettingsTyped, Bits
<1>4. SettingsTyped'
  BY <1>0, <1>1, <1>3 DEF SettingsTyped
<1>5. Numbered'
  BY <1>0, <1>1 DEF Numbered
<1>6. \A v : Choosing(v)' <=> Choosing(v)
  BY <1>1 DEF Choosing, ToSave
<1>7. ChoiceFollows => ChoiceFollows'
  <2>1. shownSettings'["choice"] = shownSettings["choice"]
    BY <1>3, FieldNames
  <2>2. \A v : Choosing(v) => v \in settingUpdates'
    BY <1>1 DEF Choosing, ToSave
  <2>3. \A v \in settingUpdates' : v \in settingUpdates
    BY <1>1
  <2> QED
    BY <1>1, <1>6, <2>1, <2>2, <2>3 DEF ChoiceFollows
<1>8. PlanFollows => PlanFollows'
  <2>1. CASE u.field = "plan"
    BY <1>1, <1>3, <2>1 DEF PlanFollows, ToSave
  <2>2. CASE u.field # "plan"
    <3>1. \A v : v \in settingUpdates' /\ v.field = "plan" <=> v \in settingUpdates /\ v.field = "plan"
      BY <1>1, <2>2
    <3> QED
      BY <1>1, <1>3, <2>2, <3>1 DEF PlanFollows, ToSave
  <2> QED
    BY <2>1, <2>2
<1>9. KeysFollow => KeysFollow'
  <2>1. \A k \in Keys : shownSettings'[k] = shownSettings[k] /\ u.field # k
    BY <1>1, <1>3, FieldNames
  <2> QED
    BY <1>1, <2>1 DEF KeysFollow
<1>10. SettingsFollow'
  BY <1>0, <1>1, <1>6, <1>7, <1>8, <1>9 DEF SettingsFollow
<1> QED
  BY <1>4, <1>5, <1>10 DEF SettingsInv

\* A key that was saved is loaded anew.
LEMMA KeyAnswered == SettingsInv /\ (\E u \in settingUpdates : KeySaved(u)) => SettingsInv'
<1> SUFFICES ASSUME SettingsInv, NEW u \in settingUpdates, KeySaved(u) PROVE SettingsInv'
  OBVIOUS
<1>0. SettingsTyped /\ Numbered /\ SettingsFollow /\ u \in SettingUpdates
  BY DEF SettingsInv, SettingsTyped
<1>1. PICK l : l = [nr |-> u.nr, st |-> "asked", rows |-> Unset]
  OBVIOUS
<1>2. l \in SettingLoads /\ l.st = "asked"
  BY <1>0, <1>1, UnsetIs, FieldNames DEF SettingLoads, SettingUpdates
<1>3. /\ u.st = "answered" /\ u.field \in Keys
      /\ settingUpdates' = settingUpdates \ {u} /\ savingKey' = NoKey /\ loadingTab' = TRUE
      /\ settingLoads' = settingLoads \cup {l}
      /\ UNCHANGED <<tab, settingsRow, shownSettings, lastSaved, crossing, settingSteps>>
  BY <1>1 DEF KeySaved
<1>4. loadingTab' \in BOOLEAN
  BY <1>3
<1>5. SettingsTyped'
  BY <1>0, <1>2, <1>3, <1>4 DEF SettingsTyped
<1>6. Numbered'
  BY <1>0, <1>3 DEF Numbered
<1>7. \A v : Choosing(v)' <=> Choosing(v)
  BY <1>3, FieldNames DEF Choosing, ToSave
<1>8. PlanFollows => PlanFollows'
  <2>1. \A v : v \in settingUpdates' /\ v.field = "plan" <=> v \in settingUpdates /\ v.field = "plan"
    BY <1>3, FieldNames
  <2> QED
    BY <1>3, <2>1 DEF PlanFollows, ToSave
<1>9. settingLoads' # {} /\ KeysFollow'
  BY <1>3 DEF KeysFollow
<1>10. \A m \in settingLoads' : m.st = "read" => m \in settingLoads
  BY <1>2, <1>3
<1>11. (\A v \in settingUpdates : ~Choosing(v)) => (\A v \in settingUpdates' : ~Choosing(v)')
  BY <1>3, <1>7
<1>12. SettingsFollow'
  BY <1>0, <1>3, <1>8, <1>9, <1>10, <1>11 DEF SettingsFollow
<1> QED
  BY <1>5, <1>6, <1>12 DEF SettingsInv

\* A load that finds the row as it read it shows all of it.
LEMMA LoadShown == SettingsInv /\ (\E l \in settingLoads : SettingsLoaded(l)) => SettingsInv'
<1> SUFFICES ASSUME SettingsInv, NEW l \in settingLoads, SettingsLoaded(l) PROVE SettingsInv'
  OBVIOUS
<1>0. SettingsTyped /\ Numbered /\ SettingsFollow /\ l \in SettingLoads
  BY DEF SettingsInv, SettingsTyped
<1>1. /\ l.st = "read" /\ settingLoads' = settingLoads \ {l} /\ loadingTab' = FALSE /\ shownSettings' = l.rows
      /\ crossing' = (crossing \/ settingsRow # l.rows)
      /\ UNCHANGED <<tab, settingsRow, settingUpdates, savingKey, lastSaved, settingSteps>>
  BY DEF SettingsLoaded
<1>2. l.rows \in Bits
  BY <1>0 DEF SettingLoads
<1>3. crossing' \in BOOLEAN /\ (~crossing' => ~crossing /\ shownSettings' = settingsRow')
  BY <1>0, <1>1 DEF SettingsTyped
<1>4. loadingTab' \in BOOLEAN
  BY <1>1
<1>5. SettingsTyped'
  BY <1>0, <1>1, <1>2, <1>3, <1>4 DEF SettingsTyped
<1>6. Numbered'
  BY <1>0, <1>1 DEF Numbered
<1>7. ASSUME ~crossing' PROVE SettingsFollow'
  <2>1. \A v \in settingUpdates : ~Choosing(v)
    BY <1>0, <1>1, <1>3, <1>7 DEF SettingsFollow
  <2>2. \A v \in settingUpdates' : ~Choosing(v)'
    BY <1>1, <2>1 DEF Choosing, ToSave
  <2>3. ChoiceFollows' /\ KeysFollow'
    BY <1>3, <1>7, <2>2 DEF ChoiceFollows, KeysFollow
  <2>4. PlanFollows'
    BY <1>0, <1>1, <1>3, <1>7 DEF SettingsFollow, PlanFollows, ToSave
  <2> QED
    BY <2>2, <2>3, <2>4 DEF SettingsFollow
<1>8. SettingsFollow'
  BY <1>7 DEF SettingsFollow
<1> QED
  BY <1>5, <1>6, <1>8 DEF SettingsInv

LEMMA RequestLost ==
  SettingsInv /\ (\E r \in settingUpdates \cup settingLoads : SettingsRequestFails(r)) => SettingsInv'
<1> SUFFICES ASSUME SettingsInv, NEW r \in settingUpdates \cup settingLoads, SettingsRequestFails(r)
             PROVE  SettingsInv'
  OBVIOUS
<1>0. SettingsTyped /\ Numbered /\ SettingSteps \in Nat
  BY FieldNames DEF SettingsInv
<1>1. /\ settingSteps < SettingSteps /\ settingSteps' = settingSteps + 1
      /\ settingUpdates' \subseteq settingUpdates /\ settingLoads' \subseteq settingLoads
      /\ savingKey' \in {NoKey, savingKey} /\ crossing' = TRUE
      /\ UNCHANGED <<tab, settingsRow, shownSettings, lastSaved>>
  BY DEF SettingsRequestFails, SettingStep
<1>2. loadingTab' \in BOOLEAN
  BY DEF SettingsRequestFails
<1>3. settingSteps' \in 0 .. SettingSteps
  BY <1>0, <1>1 DEF SettingsTyped
<1>4. crossing' \in BOOLEAN
  BY <1>1
<1>5. SettingsTyped'
  BY <1>0, <1>1, <1>2, <1>3, <1>4 DEF SettingsTyped
<1>6. Numbered'
  <2>1. \A u \in settingUpdates' : u \in settingUpdates /\ u.nr \in Nat /\ u.nr <= settingSteps /\ settingSteps \in Nat
    BY <1>0, <1>1 DEF Numbered, SettingsTyped, SettingUpdates
  <2>2. \A f \in Fields : lastSaved'[f] = lastSaved[f] /\ lastSaved[f] \in Nat /\ lastSaved[f] <= settingSteps
                          /\ settingSteps \in Nat
    BY <1>0, <1>1 DEF Numbered, SettingsTyped
  <2>3. (\A u \in settingUpdates' : u.nr <= settingSteps') /\ (\A f \in Fields : lastSaved'[f] <= settingSteps')
    BY <1>1, <2>1, <2>2
  <2>4. \A u, v \in settingUpdates' : u.nr = v.nr => u = v
    BY <1>0, <2>1 DEF Numbered
  <2> QED
    BY <2>3, <2>4 DEF Numbered
<1>7. SettingsFollow'
  BY <1>1 DEF SettingsFollow
<1> QED
  BY <1>5, <1>6, <1>7 DEF SettingsInv

LEMMA SettingsStep == SettingsInv /\ [SettingsNext]_settingsVars => SettingsInv'
<1> SUFFICES ASSUME SettingsInv, [SettingsNext]_settingsVars PROVE SettingsInv'
  OBVIOUS
<1>1. CASE ChangeChoice
  BY <1>1, ChoiceSent
<1>2. CASE ChangePlan
  <2>1. PICK v \in BOOLEAN : v = ~shownSettings["plan"]
    OBVIOUS
  <2>2. /\ SendUpdate("plan", v) /\ UNCHANGED <<shownSettings, savingKey, crossing>>
        /\ \A w \in settingUpdates : w.field # "plan"
    BY <1>2, <2>1 DEF ChangePlan
  <2>3. savingKey' \in Keys \cup {NoKey}
    BY <2>2 DEF SettingsInv, SettingsTyped
  <2> QED
    BY <2>2, <2>3, OtherSent, FieldNames
<1>3. ASSUME NEW k \in Keys, NEW value \in BOOLEAN, SaveApiKey(k, value) PROVE SettingsInv'
  <2>1. SendUpdate(k, value) /\ UNCHANGED <<shownSettings, crossing>> /\ savingKey' = k
    BY <1>3 DEF SaveApiKey
  <2> QED
    BY <2>1, OtherSent, FieldNames
<1>4. CASE UNCHANGED settingsVars
  BY <1>4 DEF settingsVars, SettingsInv, SettingsTyped, Numbered, SettingsFollow, ChoiceFollows, PlanFollows, KeysFollow,
              Choosing, ToSave
<1> QED
  BY <1>1, <1>2, <1>3, <1>4, RowLoaded, RowSaved, AnswerRead, SettingsRead, ChoiceAnswered, KeyAnswered, LoadShown,
     RequestLost DEF SettingsNext

LEMMA SettingsInvShows == SettingsInv => SettingsFormsTypeOK /\ ShownIsStored
<1> SUFFICES ASSUME SettingsInv PROVE SettingsFormsTypeOK /\ ShownIsStored
  OBVIOUS
<1>1. SettingsFormsTypeOK
  BY SettingsTypes DEF SettingsInv
<1>2. ASSUME settingUpdates = {}, settingLoads = {}, ~crossing PROVE shownSettings = settingsRow
  <2>1. ChoiceFollows /\ PlanFollows /\ KeysFollow
    BY <1>2 DEF SettingsInv, SettingsFollow
  <2>2. \A f \in Fields : settingsRow[f] = shownSettings[f]
    BY <1>2, <2>1 DEF Fields, ChoiceFollows, PlanFollows, KeysFollow, Choosing, ToSave
  <2>3. settingsRow \in [Fields -> BOOLEAN] /\ shownSettings \in [Fields -> BOOLEAN]
    BY DEF SettingsInv, SettingsTyped, Bits
  <2> QED
    BY <2>2, <2>3
<1> QED
  BY <1>1, <1>2 DEF ShownIsStored

-----------------------------------------------------------------------------
(* The editors of prompts.                                                 *)
PutTexts == Wordings \cup {Standard}
PutStates == {"none", "asked", "sent", "read", "done"}
OfAll == [PromptKeys -> PutTexts]
PromptPuts == [nr : 0 .. EditorSteps, key : PromptKeys, text : PutTexts, st : PutStates]
PromptLoads == [st : PutStates, rows : OfAll]
ScopeRequests == [st : PutStates, value : BOOLEAN]

PromptsTyped ==
    /\ editor \in {"document", "single"} /\ overrides \in OfAll /\ promptsShown \in OfAll
    /\ editedContent \in [PromptKeys -> PutTexts \cup {BlankText}]
    /\ puts \subseteq PromptPuts /\ promptsLoad \in PromptLoads /\ savingPrompt \in PromptKeys \cup {NoPrompt}
    /\ outOfStep \in BOOLEAN /\ editorSteps \in 0 .. EditorSteps

SwitchTyped ==
    /\ storedScope \in BOOLEAN /\ scopeShown \in BOOLEAN /\ savingScope \in BOOLEAN /\ pendingScope \subseteq BOOLEAN
    /\ scopePut \in ScopeRequests /\ scopeLoad \in ScopeRequests

LEMMA EditorTypes == /\ PromptEditorsTypeOK <=> PromptsTyped /\ SwitchTyped
                     /\ PromptEditorsTypeOK' <=> PromptsTyped' /\ SwitchTyped'
BY DEF PromptEditorsTypeOK, PromptsTyped, SwitchTyped, PutTexts, PutStates, OfAll, PromptPuts, PromptLoads, ScopeRequests

\* An editor of one prompt saves once at a time, and loads when nothing is being saved.
OneAtATime ==
    editor = "single" =>
        /\ puts # {} => promptsLoad.st = "none"
        /\ \A u \in puts : u.key \in KeysShown /\ savingPrompt = u.key
        /\ \A u, v \in puts : u = v
        /\ \A u \in puts : u.st = "done" => overrides[u.key] = u.text

\* What is shown of a prompt that no answer will change, and what is loaded, is stored.
PromptFollows(k) ==
    \/ \E u \in puts : u.key = k /\ u.st = "done"
    \/ promptsLoad.st = "asked"
    \/ promptsLoad.st = "none" /\ promptsShown[k] = overrides[k]
    \/ promptsLoad.st = "read" /\ promptsLoad.rows[k] = overrides[k]

PromptsFollow ==
    /\ promptsLoad.st \in {"none", "asked", "read"}
    /\ OneAtATime
    /\ ~outOfStep => \A k \in PromptKeys : PromptFollows(k)

EditorInv == PromptsTyped /\ SwitchTyped /\ PromptsFollow

LEMMA PromptsNamed == /\ EditorSteps \in Nat /\ KeysShown \subseteq PromptKeys
                      /\ \A k, m \in KeysShown : editor = "single" => k = m
BY PromptEditorsAssumption DEF KeysShown

LEMMA NothingLoads == NoPromptsLoad \in PromptLoads /\ NoPromptsLoad.st = "none" /\ NoScope \in ScopeRequests
BY DEF NoPromptsLoad, PromptLoads, PutStates, OfAll, PutTexts, NoScope, ScopeRequests

LEMMA LoadsAnew == \E l \in PromptLoads : l = [NoPromptsLoad EXCEPT !.st = "asked"] /\ l.st = "asked"
<1> PICK l : l = [NoPromptsLoad EXCEPT !.st = "asked"]
  OBVIOUS
<1>1. NoPromptsLoad \in PromptLoads
  BY NothingLoads
<1>2. l \in PromptLoads /\ l.st = "asked"
  BY ONLY <1>1, l = [NoPromptsLoad EXCEPT !.st = "asked"] DEF PromptLoads, PutStates
<1> QED
  BY <1>2

LEMMA AsksScope == \E l \in ScopeRequests : l = [NoScope EXCEPT !.st = "asked"]
<1> PICK l : l = [NoScope EXCEPT !.st = "asked"]
  OBVIOUS
<1>1. NoScope \in ScopeRequests
  BY NothingLoads
<1>2. l \in ScopeRequests
  BY ONLY <1>1, l = [NoScope EXCEPT !.st = "asked"] DEF ScopeRequests, PutStates
<1> QED
  BY <1>2

LEMMA EditorInitial == EditorInit => EditorInv
<1> SUFFICES ASSUME EditorInit PROVE EditorInv
  OBVIOUS
<1>1. overrides \in OfAll
  BY DEF EditorInit, OfAll, PutTexts
<1>2. /\ editor \in {"document", "single"} /\ promptsShown = overrides /\ editedContent = overrides /\ puts = {}
      /\ promptsLoad = [NoPromptsLoad EXCEPT !.st = "asked"] /\ savingPrompt = NoPrompt
      /\ pendingScope = {} /\ scopePut = NoScope /\ scopeLoad = [NoScope EXCEPT !.st = "asked"] /\ editorSteps = 0
  BY DEF EditorInit
<1>3. promptsLoad \in PromptLoads /\ promptsLoad.st = "asked"
  BY <1>2, LoadsAnew
<1>4. scopeLoad \in ScopeRequests /\ scopePut \in ScopeRequests
  BY <1>2, AsksScope, NothingLoads
<1>5. storedScope \in BOOLEAN /\ scopeShown \in BOOLEAN /\ savingScope \in BOOLEAN
  BY DEF EditorInit
<1>6. outOfStep \in BOOLEAN
  BY DEF EditorInit
<1>7. editedContent \in [PromptKeys -> PutTexts \cup {BlankText}]
  BY <1>1, <1>2 DEF OfAll
<1>8. PromptsTyped
  BY <1>1, <1>2, <1>3, <1>6, <1>7, PromptsNamed DEF PromptsTyped
<1>9. SwitchTyped
  BY <1>2, <1>4, <1>5 DEF SwitchTyped
<1>10. PromptsFollow
  BY <1>2, <1>3 DEF PromptsFollow, OneAtATime, PromptFollows
<1> QED
  BY <1>8, <1>9, <1>10 DEF EditorInv

\* The step counter stays within its bound.
LEMMA EditorCounts ==
  ASSUME EditorInv, EditorStep
  PROVE  editorSteps' \in 0 .. EditorSteps
<1>1. PICK n \in 0 .. EditorSteps : n = editorSteps
  BY DEF EditorInv, PromptsTyped
<1>2. n < EditorSteps /\ editorSteps' = n + 1 /\ EditorSteps \in Nat
  BY <1>1, PromptsNamed DEF EditorStep
<1> QED
  BY <1>2

LEMMA ContentTyped ==
  ASSUME EditorInv, NEW k \in KeysShown, NEW text \in Wordings \cup {BlankText}, OnContentChange(k, text)
  PROVE  EditorInv'
<1>1. /\ editedContent' = [editedContent EXCEPT ![k] = text]
      /\ UNCHANGED <<editor, overrides, promptsShown, puts, promptsLoad, savingPrompt, outOfStep, editorSteps>>
      /\ UNCHANGED scopeState
  BY DEF OnContentChange
<1>2. editedContent' \in [PromptKeys -> PutTexts \cup {BlankText}]
  BY <1>1 DEF EditorInv, PromptsTyped, PutTexts
<1>3. PromptsTyped'
  BY <1>1, <1>2 DEF EditorInv, PromptsTyped
<1>4. SwitchTyped' /\ PromptsFollow'
  BY <1>1 DEF EditorInv, SwitchTyped, scopeState, PromptsFollow, OneAtATime, PromptFollows, KeysShown
<1> QED
  BY <1>3, <1>4 DEF EditorInv

LEMMA PutSent ==
  ASSUME EditorInv, NEW k \in KeysShown, NEW text \in PutTexts, Put(k, text)
  PROVE  EditorInv'
<1>0. PromptsTyped /\ SwitchTyped /\ PromptsFollow /\ k \in PromptKeys
  BY PromptsNamed DEF EditorInv
<1>1. PICK u : u = [nr |-> editorSteps, key |-> k, text |-> text, st |-> "sent"]
  OBVIOUS
<1>2. u \in PromptPuts /\ u.key = k /\ u.st = "sent"
  BY <1>0, <1>1 DEF PromptPuts, PutStates, PromptsTyped
<1>3. /\ promptsLoad.st = "none" /\ savingPrompt # k /\ savingPrompt' = k /\ puts' = puts \cup {u}
      /\ UNCHANGED <<editor, overrides, promptsShown, editedContent, promptsLoad, outOfStep>> /\ UNCHANGED scopeState
  BY <1>1 DEF Put, FieldsShown
<1>4. editorSteps' \in 0 .. EditorSteps
  BY EditorCounts DEF Put
<1>5. PromptsTyped'
  BY <1>0, <1>2, <1>3, <1>4 DEF PromptsTyped
<1>6. SwitchTyped'
  BY <1>0, <1>3 DEF SwitchTyped, scopeState
<1>7. OneAtATime'
  <2>1. KeysShown' = KeysShown
    BY <1>3 DEF KeysShown
  <2>2. ASSUME editor = "single" PROVE puts = {}
    BY <1>0, <1>3, <2>2, PromptsNamed DEF PromptsFollow, OneAtATime
  <2> QED
    BY <1>0, <1>2, <1>3, <2>1, <2>2 DEF OneAtATime
<1>8. \A m \in PromptKeys : PromptFollows(m) => PromptFollows(m)'
  BY <1>3 DEF PromptFollows
<1>9. PromptsFollow'
  BY <1>0, <1>3, <1>7, <1>8 DEF PromptsFollow
<1> QED
  BY <1>5, <1>6, <1>9 DEF EditorInv

LEMMA PutServed == EditorInv /\ (\E u \in puts : ServePut(u)) => EditorInv'
<1> SUFFICES ASSUME EditorInv, NEW u \in puts, ServePut(u) PROVE EditorInv'
  OBVIOUS
<1>0. PromptsTyped /\ SwitchTyped /\ PromptsFollow /\ u \in PromptPuts
  BY DEF EditorInv, PromptsTyped
<1>1. PICK v : v = [u EXCEPT !.st = "done"]
  OBVIOUS
<1>2. v \in PromptPuts /\ v.key = u.key /\ v.text = u.text /\ v.st = "done" /\ u.key \in PromptKeys /\ u.text \in PutTexts
  BY ONLY <1>0, <1>1 DEF PromptPuts, PutStates
<1>3. /\ u.st = "sent" /\ overrides' = [overrides EXCEPT ![u.key] = u.text] /\ puts' = (puts \ {u}) \cup {v}
      /\ UNCHANGED <<editor, promptsShown, editedContent, promptsLoad, savingPrompt, outOfStep, editorSteps>>
      /\ UNCHANGED scopeState
  BY <1>1 DEF ServePut
<1>4. /\ overrides' \in OfAll /\ overrides'[u.key] = u.text
      /\ \A k \in PromptKeys \ {u.key} : overrides'[k] = overrides[k]
  BY <1>0, <1>2, <1>3 DEF PromptsTyped, OfAll
<1>5. PromptsTyped'
  BY <1>0, <1>2, <1>3, <1>4 DEF PromptsTyped
<1>6. SwitchTyped'
  BY <1>0, <1>3 DEF SwitchTyped, scopeState
<1>7. OneAtATime'
  <2>1. KeysShown' = KeysShown
    BY <1>3 DEF KeysShown
  <2>2. ASSUME editor = "single" PROVE puts' = {v} /\ u.key \in KeysShown /\ savingPrompt = u.key /\ promptsLoad.st = "none"
    BY <1>0, <1>3, <2>2 DEF PromptsFollow, OneAtATime
  <2> QED
    BY <1>2, <1>3, <1>4, <2>1, <2>2 DEF OneAtATime
<1>8. ASSUME NEW k \in PromptKeys, PromptFollows(k) PROVE PromptFollows(k)'
  <2>1. CASE k = u.key
    BY <1>2, <1>3, <2>1 DEF PromptFollows
  <2>2. CASE k # u.key
    <3>1. overrides'[k] = overrides[k]
      BY <1>4, <2>2
    <3>2. \A w \in puts : w.key = k => w \in puts'
      BY <1>3, <2>2
    <3> QED
      BY <1>3, <1>8, <3>1, <3>2 DEF PromptFollows
  <2> QED
    BY <2>1, <2>2
<1>9. PromptsFollow'
  BY <1>0, <1>3, <1>7, <1>8 DEF PromptsFollow
<1> QED
  BY <1>5, <1>6, <1>9 DEF EditorInv

\* An answer: of several prompts all are loaded again, of one its text is shown.
LEMMA PutAnswered == EditorInv /\ (\E u \in puts : PutDone(u)) => EditorInv'
<1> SUFFICES ASSUME EditorInv, NEW u \in puts, PutDone(u) PROVE EditorInv'
  OBVIOUS
<1>0. PromptsTyped /\ SwitchTyped /\ PromptsFollow /\ u \in PromptPuts
  BY DEF EditorInv, PromptsTyped
<1>1. u.key \in PromptKeys /\ u.text \in PutTexts
  BY <1>0 DEF PromptPuts
<1>2. /\ u.st = "done" /\ puts' = puts \ {u} /\ savingPrompt' = NoPrompt
      /\ editedContent' = IF u.text = Standard THEN editedContent ELSE [editedContent EXCEPT ![u.key] = u.text]
      /\ UNCHANGED <<editor, overrides, editorSteps>> /\ UNCHANGED scopeState
  BY DEF PutDone
<1>3. editedContent' \in [PromptKeys -> PutTexts \cup {BlankText}]
  BY <1>0, <1>1, <1>2 DEF PromptsTyped
<1>4. SwitchTyped'
  BY <1>0, <1>2 DEF SwitchTyped, scopeState
<1>5. editor = "single" => puts' = {}
  BY <1>0, <1>2 DEF PromptsFollow, OneAtATime
<1>6. OneAtATime'
  BY <1>2, <1>5 DEF OneAtATime
<1>7. CASE editor = "document" \/ u.text = Standard
  <2>1. promptsShown' = promptsShown /\ ReloadPrompts
    BY <1>2, <1>7 DEF PutDone
  <2>2. /\ promptsLoad' \in PromptLoads /\ outOfStep' \in BOOLEAN /\ promptsLoad'.st \in {"none", "asked", "read"}
        /\ ~outOfStep' => promptsLoad'.st = "asked"
    <3>1. CASE promptsLoad.st = "none"
      <4>1. promptsLoad' = [NoPromptsLoad EXCEPT !.st = "asked"] /\ outOfStep' = outOfStep
        BY <2>1, <3>1 DEF ReloadPrompts
      <4>2. promptsLoad' \in PromptLoads /\ promptsLoad'.st = "asked"
        BY <4>1, LoadsAnew
      <4> QED
        BY <1>0, <4>1, <4>2 DEF PromptsTyped
    <3>2. CASE promptsLoad.st # "none"
      <4>1. promptsLoad' = promptsLoad /\ outOfStep' = TRUE
        BY <2>1, <3>2 DEF ReloadPrompts
      <4> QED
        BY <1>0, <4>1 DEF PromptsTyped, PromptsFollow
    <3> QED
      BY <3>1, <3>2
  <2>3. PromptsTyped'
    BY <1>0, <1>2, <1>3, <2>1, <2>2 DEF PromptsTyped
  <2>4. PromptsFollow'
    BY <1>6, <2>2 DEF PromptsFollow, PromptFollows
  <2> QED
    BY <1>4, <2>3, <2>4 DEF EditorInv
<1>8. CASE editor # "document" /\ u.text # Standard
  <2>1. promptsShown' = [promptsShown EXCEPT ![u.key] = u.text] /\ UNCHANGED <<promptsLoad, outOfStep>>
    BY <1>8 DEF PutDone
  <2>2. promptsShown' \in OfAll /\ promptsShown'[u.key] = u.text /\ \A k \in PromptKeys \ {u.key} : promptsShown'[k] = promptsShown[k]
    BY <1>0, <1>1, <2>1 DEF PromptsTyped, OfAll
  <2>3. PromptsTyped'
    BY <1>0, <1>2, <1>3, <2>1, <2>2 DEF PromptsTyped
  <2>4. editor = "single"
    BY <1>0, <1>8 DEF PromptsTyped
  <2>5. promptsLoad.st = "none" /\ overrides[u.key] = u.text /\ \A v \in puts : v = u
    BY <1>0, <1>2, <2>4 DEF PromptsFollow, OneAtATime
  <2>6. ASSUME NEW k \in PromptKeys, PromptFollows(k) PROVE PromptFollows(k)'
    <3>1. CASE k = u.key
      BY <1>2, <2>1, <2>2, <2>5, <3>1 DEF PromptFollows
    <3>2. CASE k # u.key
      BY <1>2, <2>1, <2>2, <2>5, <2>6, <3>2 DEF PromptFollows
    <3> QED
      BY <3>1, <3>2
  <2>7. PromptsFollow'
    BY <1>0, <1>6, <2>1, <2>6 DEF PromptsFollow
  <2> QED
    BY <1>4, <2>3, <2>7 DEF EditorInv
<1> QED
  BY <1>7, <1>8

\* Loads of the prompts, and what fails.
LEMMA PromptsMove == EditorInv /\ (ReadPrompts \/ PromptsLoaded \/ PromptsFail) => EditorInv'
<1> SUFFICES ASSUME EditorInv PROVE (ReadPrompts => EditorInv') /\ (PromptsLoaded => EditorInv') /\ (PromptsFail => EditorInv')
  OBVIOUS
<1>0. PromptsTyped /\ SwitchTyped /\ PromptsFollow
  BY DEF EditorInv
<1>1. ASSUME ReadPrompts PROVE EditorInv'
  <2>1. PICK l : l = [st |-> "read", rows |-> overrides]
    OBVIOUS
  <2>2. l \in PromptLoads /\ l.st = "read" /\ l.rows = overrides
    BY <1>0, <2>1 DEF PromptLoads, PutStates, PromptsTyped
  <2>3. /\ promptsLoad.st = "asked" /\ promptsLoad' = l
        /\ UNCHANGED <<editor, overrides, promptsShown, editedContent, puts, savingPrompt, outOfStep, editorSteps>>
        /\ UNCHANGED scopeState
    BY <1>1, <2>1 DEF ReadPrompts
  <2>4. PromptsTyped' /\ SwitchTyped'
    BY <1>0, <2>2, <2>3 DEF PromptsTyped, SwitchTyped, scopeState
  <2>5. OneAtATime'
    <3>1. KeysShown' = KeysShown
      BY <2>3 DEF KeysShown
    <3> QED
      BY <1>0, <2>3, <3>1 DEF PromptsFollow, OneAtATime
  <2>6. PromptsFollow'
    BY <2>2, <2>3, <2>5 DEF PromptsFollow, PromptFollows
  <2> QED
    BY <2>4, <2>6 DEF EditorInv
<1>2. ASSUME PromptsLoaded PROVE EditorInv'
  <2>1. /\ promptsLoad.st = "read" /\ promptsLoad' = NoPromptsLoad
        /\ promptsShown' = promptsLoad.rows /\ editedContent' = promptsLoad.rows
        /\ UNCHANGED <<editor, overrides, puts, savingPrompt, outOfStep, editorSteps>> /\ UNCHANGED scopeState
    BY <1>2 DEF PromptsLoaded
  <2>2. promptsLoad.rows \in OfAll /\ promptsLoad' \in PromptLoads /\ promptsLoad'.st = "none"
    BY <1>0, <2>1, NothingLoads DEF PromptsTyped, PromptLoads
  <2>3. editedContent' \in [PromptKeys -> PutTexts \cup {BlankText}]
    BY <2>1, <2>2 DEF OfAll
  <2>4. PromptsTyped' /\ SwitchTyped'
    BY <1>0, <2>1, <2>2, <2>3 DEF PromptsTyped, SwitchTyped, scopeState
  <2>5. OneAtATime'
    <3>1. KeysShown' = KeysShown
      BY <2>1 DEF KeysShown
    <3> QED
      BY <1>0, <2>1, <2>2, <3>1 DEF PromptsFollow, OneAtATime
  <2>6. PromptsFollow'
    BY <1>0, <2>1, <2>2, <2>5 DEF PromptsFollow, PromptFollows
  <2> QED
    BY <2>4, <2>6 DEF EditorInv
<1>3. ASSUME PromptsFail PROVE EditorInv'
  <2>1. /\ promptsLoad.st # "none" /\ promptsLoad' = NoPromptsLoad /\ outOfStep' = TRUE
        /\ UNCHANGED <<editor, overrides, promptsShown, editedContent, puts, savingPrompt>> /\ UNCHANGED scopeState
    BY <1>3 DEF PromptsFail
  <2>2. promptsLoad' \in PromptLoads /\ promptsLoad'.st = "none" /\ outOfStep' \in BOOLEAN
    BY <2>1, NothingLoads
  <2>3. editorSteps' \in 0 .. EditorSteps
    BY <1>3, EditorCounts DEF PromptsFail
  <2>4. PromptsTyped' /\ SwitchTyped'
    BY <1>0, <2>1, <2>2, <2>3 DEF PromptsTyped, SwitchTyped, scopeState
  <2>5. OneAtATime'
    <3>1. KeysShown' = KeysShown
      BY <2>1 DEF KeysShown
    <3> QED
      BY <1>0, <2>1, <2>2, <3>1 DEF PromptsFollow, OneAtATime
  <2>6. PromptsFollow'
    BY <2>1, <2>2, <2>5 DEF PromptsFollow
  <2> QED
    BY <2>4, <2>6 DEF EditorInv
<1> QED
  BY <1>1, <1>2, <1>3

LEMMA PutLost == EditorInv /\ (\E u \in puts : PutFails(u)) => EditorInv'
<1> SUFFICES ASSUME EditorInv, NEW u \in puts, PutFails(u) PROVE EditorInv'
  OBVIOUS
<1>0. PromptsTyped /\ SwitchTyped /\ PromptsFollow
  BY DEF EditorInv
<1>1. /\ puts' = puts \ {u} /\ savingPrompt' = NoPrompt /\ outOfStep' = TRUE
      /\ UNCHANGED <<editor, overrides, promptsShown, editedContent, promptsLoad>> /\ UNCHANGED scopeState
  BY DEF PutFails
<1>2. editorSteps' \in 0 .. EditorSteps
  BY EditorCounts DEF PutFails
<1>3. outOfStep' \in BOOLEAN
  BY <1>1
<1>4. PromptsTyped' /\ SwitchTyped'
  BY <1>0, <1>1, <1>2, <1>3 DEF PromptsTyped, SwitchTyped, scopeState
<1>5. editor = "single" => puts' = {}
  BY <1>0, <1>1 DEF PromptsFollow, OneAtATime
<1>6. PromptsFollow'
  BY <1>0, <1>1, <1>5 DEF PromptsFollow, OneAtATime
<1> QED
  BY <1>4, <1>6 DEF EditorInv

\* The switch leaves the prompts alone.
LEMMA SwitchMoves ==
  ASSUME EditorInv, UNCHANGED <<editor, promptState>>, SwitchTyped', editorSteps' \in 0 .. EditorSteps,
         outOfStep' \in BOOLEAN, ~outOfStep' => ~outOfStep
  PROVE  EditorInv'
<1>1. UNCHANGED <<editor, overrides, promptsShown, editedContent, puts, promptsLoad, savingPrompt>>
  BY DEF promptState
<1>2. PromptsTyped'
  BY <1>1 DEF EditorInv, PromptsTyped
<1>3. OneAtATime => OneAtATime'
  <2>1. KeysShown' = KeysShown
    BY <1>1 DEF KeysShown
  <2> QED
    BY <1>1, <2>1 DEF OneAtATime
<1>4. \A k \in PromptKeys : PromptFollows(k)' <=> PromptFollows(k)
  BY <1>1 DEF PromptFollows
<1>5. PromptsFollow'
  BY <1>1, <1>3, <1>4 DEF EditorInv, PromptsFollow
<1> QED
  BY <1>2, <1>5 DEF EditorInv

LEMMA ScopeStates == \A r \in ScopeRequests : r.st \in PutStates /\ r.value \in BOOLEAN
BY DEF ScopeRequests

LEMMA ScopeMoves ==
  EditorInv /\ (ToggleScope \/ ServeScope \/ ScopeSaved \/ ScopeFails \/ ReadScope \/ ScopeLoaded) => EditorInv'
<1> SUFFICES ASSUME EditorInv
             PROVE  /\ ToggleScope => EditorInv'
                    /\ ServeScope => EditorInv'
                    /\ ScopeSaved => EditorInv'
                    /\ ScopeFails => EditorInv'
                    /\ ReadScope => EditorInv'
                    /\ ScopeLoaded => EditorInv'
  OBVIOUS
<1>0. SwitchTyped /\ outOfStep \in BOOLEAN /\ editorSteps \in 0 .. EditorSteps
  BY DEF EditorInv, PromptsTyped
<1>a. scopePut \in ScopeRequests /\ scopeLoad \in ScopeRequests /\ scopePut.value \in BOOLEAN /\ scopeLoad.value \in BOOLEAN
  BY <1>0, ScopeStates DEF SwitchTyped
<1>b. storedScope \in BOOLEAN /\ scopeShown \in BOOLEAN /\ savingScope \in BOOLEAN /\ pendingScope \subseteq BOOLEAN
  BY <1>0 DEF SwitchTyped
<1>1. ASSUME ToggleScope PROVE EditorInv'
  <2>1. PICK v \in BOOLEAN : v = ~IncludeShown
    OBVIOUS
  <2>2. PICK r : r = [st |-> "sent", value |-> v]
    OBVIOUS
  <2>3. r \in ScopeRequests
    BY <2>2 DEF ScopeRequests, PutStates
  <2>4. /\ scopePut' = r /\ savingScope' = TRUE
        /\ pendingScope' \in {pendingScope, {v}} /\ scopeShown' \in {scopeShown, v}
        /\ UNCHANGED <<editor, promptState>> /\ UNCHANGED <<storedScope, scopeLoad, outOfStep>>
    BY <1>1, <2>1, <2>2 DEF ToggleScope
  <2>5. savingScope' \in BOOLEAN /\ scopeShown' \in BOOLEAN /\ storedScope' \in BOOLEAN
    BY <1>b, <2>4
  <2>6. SwitchTyped'
    BY <1>a, <1>b, <2>3, <2>4, <2>5 DEF SwitchTyped
  <2>7. editorSteps' \in 0 .. EditorSteps
    BY <1>1, EditorCounts DEF ToggleScope
  <2> QED
    BY <1>0, <2>4, <2>6, <2>7, SwitchMoves
<1>2. ASSUME ServeScope PROVE EditorInv'
  <2>1. PICK r : r = [scopePut EXCEPT !.st = "done"]
    OBVIOUS
  <2>2. r \in ScopeRequests
    BY ONLY <1>a, <2>1 DEF ScopeRequests, PutStates
  <2>3. /\ storedScope' = scopePut.value /\ scopePut' = r
        /\ UNCHANGED <<editor, promptState>>
        /\ UNCHANGED <<scopeShown, pendingScope, savingScope, scopeLoad, outOfStep, editorSteps>>
    BY <1>2, <2>1 DEF ServeScope
  <2>4. SwitchTyped'
    BY <1>a, <1>b, <2>2, <2>3 DEF SwitchTyped
  <2> QED
    BY <1>0, <2>3, <2>4, SwitchMoves
<1>3. ASSUME ScopeSaved PROVE EditorInv'
  <2>1. PICK r \in ScopeRequests : r = [NoScope EXCEPT !.st = "asked"]
    BY AsksScope
  <2>2. /\ savingScope' = FALSE /\ scopePut' = NoScope /\ pendingScope' = {}
        /\ scopeShown' \in {scopeShown, scopePut.value} /\ scopeLoad' \in {scopeLoad, r}
        /\ outOfStep' = outOfStep \/ outOfStep' = TRUE
        /\ UNCHANGED <<editor, promptState>> /\ UNCHANGED <<storedScope, editorSteps>>
    BY <1>3, <2>1 DEF ScopeSaved
  <2>3. savingScope' \in BOOLEAN /\ scopeShown' \in BOOLEAN /\ storedScope' \in BOOLEAN
    BY <1>a, <1>b, <2>2
  <2>4. SwitchTyped'
    BY <1>a, <1>b, <2>1, <2>2, <2>3, NothingLoads DEF SwitchTyped
  <2>5. outOfStep' \in BOOLEAN /\ (~outOfStep' => ~outOfStep)
    <3>1. outOfStep' = outOfStep => outOfStep' \in BOOLEAN /\ (~outOfStep' => ~outOfStep)
      BY <1>0
    <3>2. outOfStep' = TRUE => outOfStep' \in BOOLEAN /\ (~outOfStep' => ~outOfStep)
      OBVIOUS
    <3> QED
      BY <2>2, <3>1, <3>2
  <2>6. editorSteps' \in 0 .. EditorSteps
    BY <1>0, <2>2
  <2> QED
    BY <2>2, <2>4, <2>5, <2>6, SwitchMoves
<1>4. ASSUME ScopeFails PROVE EditorInv'
  <2>0. PICK v \in BOOLEAN : v = ~scopePut.value
    OBVIOUS
  <2>1. /\ savingScope' = FALSE /\ scopePut' = NoScope /\ pendingScope' = {} /\ outOfStep' = TRUE
        /\ scopeShown' \in {scopeShown, v}
        /\ UNCHANGED <<editor, promptState>> /\ UNCHANGED <<storedScope, scopeLoad>>
    BY <1>4, <2>0 DEF ScopeFails
  <2>2. savingScope' \in BOOLEAN /\ scopeShown' \in BOOLEAN /\ storedScope' \in BOOLEAN
    BY <1>b, <2>1
  <2>3. SwitchTyped'
    BY <1>a, <1>b, <2>1, <2>2, NothingLoads DEF SwitchTyped
  <2>4. outOfStep' \in BOOLEAN /\ (~outOfStep' => ~outOfStep)
    BY <2>1
  <2>5. editorSteps' \in 0 .. EditorSteps
    BY <1>4, EditorCounts DEF ScopeFails
  <2> QED
    BY <2>1, <2>3, <2>4, <2>5, SwitchMoves
<1>5. ASSUME ReadScope PROVE EditorInv'
  <2>1. PICK r : r = [st |-> "read", value |-> storedScope]
    OBVIOUS
  <2>2. r \in ScopeRequests
    BY <1>b, <2>1 DEF ScopeRequests, PutStates
  <2>3. /\ scopeLoad' = r /\ UNCHANGED <<editor, promptState>>
        /\ UNCHANGED <<storedScope, scopeShown, pendingScope, savingScope, scopePut, outOfStep, editorSteps>>
    BY <1>5, <2>1 DEF ReadScope
  <2>4. SwitchTyped'
    BY <1>a, <1>b, <2>2, <2>3 DEF SwitchTyped
  <2> QED
    BY <1>0, <2>3, <2>4, SwitchMoves
<1>6. ASSUME ScopeLoaded PROVE EditorInv'
  <2>1. /\ scopeShown' = scopeLoad.value /\ scopeLoad' = NoScope /\ UNCHANGED <<editor, promptState>>
        /\ UNCHANGED <<storedScope, pendingScope, savingScope, scopePut, outOfStep, editorSteps>>
    BY <1>6 DEF ScopeLoaded
  <2>2. SwitchTyped'
    BY <1>a, <1>b, <2>1, NothingLoads DEF SwitchTyped
  <2> QED
    BY <1>0, <2>1, <2>2, SwitchMoves
<1> QED
  BY <1>1, <1>2, <1>3, <1>4, <1>5, <1>6

LEMMA EditorChanges == EditorInv /\ [EditorNext]_editorVars => EditorInv'
<1> SUFFICES ASSUME EditorInv, [EditorNext]_editorVars PROVE EditorInv'
  OBVIOUS
<1>1. ASSUME NEW k \in KeysShown, OnSave(k) PROVE EditorInv'
  <2>1. PICK text : text = editedContent[k]
    OBVIOUS
  <2>2. text \in PutTexts \cup {BlankText} /\ text # BlankText /\ Put(k, text)
    BY <1>1, <2>1, PromptsNamed DEF OnSave, EditorInv, PromptsTyped
  <2>3. text \in PutTexts
    BY <2>2
  <2> QED
    BY <2>2, <2>3, PutSent
<1>2. ASSUME NEW k \in KeysShown, OnReset(k) PROVE EditorInv'
  <2>1. Standard \in PutTexts /\ Put(k, Standard)
    BY <1>2 DEF OnReset, PutTexts
  <2> QED
    BY <2>1, PutSent
<1>3. ASSUME NEW k \in KeysShown, NEW text \in Wordings \cup {BlankText}, OnContentChange(k, text) PROVE EditorInv'
  BY <1>3, ContentTyped
<1>4. CASE UNCHANGED editorVars
  <2>1. UNCHANGED <<editor, promptState>> /\ UNCHANGED <<outOfStep, editorSteps>> /\ UNCHANGED scopeState
    BY <1>4 DEF editorVars
  <2>2. SwitchTyped'
    BY <2>1 DEF EditorInv, SwitchTyped, scopeState
  <2> QED
    BY <2>1, <2>2, SwitchMoves DEF EditorInv, PromptsTyped
<1> QED
  BY <1>1, <1>2, <1>3, <1>4, PutServed, PutAnswered, PutLost, PromptsMove, ScopeMoves DEF EditorNext

LEMMA EditorInvShows == EditorInv => PromptEditorsTypeOK /\ EditorShowsStored
<1> SUFFICES ASSUME EditorInv PROVE PromptEditorsTypeOK /\ EditorShowsStored
  OBVIOUS
<1>1. PromptEditorsTypeOK
  BY EditorTypes DEF EditorInv
<1>2. ASSUME puts = {}, promptsLoad.st = "none", ~outOfStep PROVE promptsShown = overrides
  <2>1. \A k \in PromptKeys : promptsShown[k] = overrides[k]
    BY <1>2 DEF EditorInv, PromptsFollow, PromptFollows
  <2>2. promptsShown \in [PromptKeys -> PutTexts] /\ overrides \in [PromptKeys -> PutTexts]
    BY DEF EditorInv, PromptsTyped, OfAll
  <2> QED
    BY <2>1, <2>2
<1> QED
  BY <1>1, <1>2 DEF EditorShowsStored

-----------------------------------------------------------------------------
(* What a user has been shown.                                             *)
OnboardingRows == [exists : BOOLEAN, marks : SUBSET Marks]
OnboardingOps == Marks \cup {"load", "reset"}
OnboardingCalls == [nr : 1 .. UpdateCalls, op : OnboardingOps,
                    st : {"sent", "creating", "read", "saved", "failed"}, seen : SUBSET Marks]

OnboardingTyped ==
    /\ row \in OnboardingRows /\ calls \subseteq OnboardingCalls /\ state \in OnboardingRows
    /\ signedIn \in BOOLEAN /\ stateLoadAttempted \in BOOLEAN /\ isChecklistVisible \in BOOLEAN
    /\ savedOver \in BOOLEAN /\ mixed \in BOOLEAN /\ completions \in BOOLEAN /\ resetSince \in BOOLEAN
    /\ waiting \subseteq Guides /\ pendingKeys \subseteq Guides
    /\ activeTour \in Guides \cup {"primary", NoTour}
    /\ updates \in 0 .. UpdateCalls

LEMMA OnboardingTypes == /\ OnboardingTypeOK <=> OnboardingTyped
                         /\ OnboardingTypeOK' <=> OnboardingTyped'
BY DEF OnboardingTypeOK, OnboardingTyped, OnboardingRows, OnboardingCalls, OnboardingOps

\* A request that has the row to itself: what it read is what is there.
AloneAtRow(c) ==
    /\ c.st \in {"read", "saved"} => row = Row(c.seen)
    /\ c.st = "creating" => ~row.exists
    /\ c.st # "failed"

OneRequest ==
    ~mixed => /\ \A c, d \in calls : c = d
              /\ \A c \in calls : AloneAtRow(c)
              /\ calls = {} /\ state # NoState => state = row

\* The mark is there from the moment an update that set it has saved the row.
MarkStands ==
    /\ ~savedOver /\ ~resetSince /\ (completions \/ \E c \in calls : c.op = "completed" /\ c.st = "saved")
       => "completed" \in row.marks
    /\ ~row.exists => row.marks = {}

\* A load ends with the row it has read.
LoadsSaveNothing == \A c \in calls : c.op = "load" => c.st # "read"

OnboardingInv == OnboardingTyped /\ OneRequest /\ MarkStands /\ LoadsSaveNothing

LEMMA NamedMarks == /\ "load" \notin Marks /\ "reset" \notin Marks /\ Guides \subseteq Marks /\ Items \subseteq Marks
                    /\ {"completed", "dismissed", "tour completed", "tour dismissed"} \subseteq Marks
                    /\ UpdateCalls \in Nat
BY OnboardingNames, OnboardingAssumption DEF Marks

LEMMA RowsOf == /\ \A m \in SUBSET Marks : Row(m) \in OnboardingRows /\ Row(m).exists /\ Row(m).marks = m
                /\ \A r \in OnboardingRows : r.exists => r = Row(r.marks)
                /\ NoRow \in OnboardingRows /\ ~NoRow.exists /\ NoRow.marks = {}
BY DEF Row, OnboardingRows, NoRow

LEMMA OnboardingInitial == OnboardingInit => OnboardingInv
<1> SUFFICES ASSUME OnboardingInit PROVE OnboardingInv
  OBVIOUS
<1>1. {} \in SUBSET Marks /\ Guides \in SUBSET Marks
  BY NamedMarks
<1>2. row \in OnboardingRows /\ (~row.exists => row.marks = {}) /\ state \in OnboardingRows
  BY <1>1, RowsOf DEF OnboardingInit, NoState
<1>3. /\ signedIn \in BOOLEAN /\ stateLoadAttempted \in BOOLEAN /\ isChecklistVisible \in BOOLEAN
      /\ savedOver \in BOOLEAN /\ mixed \in BOOLEAN /\ completions \in BOOLEAN /\ resetSince \in BOOLEAN
  BY DEF OnboardingInit
<1>4. ~completions
  BY DEF OnboardingInit
<1>5. calls = {} /\ state = NoState /\ waiting = {} /\ pendingKeys = {} /\ activeTour = NoTour /\ updates = 0
  BY DEF OnboardingInit
<1>6. OnboardingTyped
  <2>1. updates \in 0 .. UpdateCalls
    <3>1. updates = 0 /\ UpdateCalls \in Nat
      BY OnboardingAssumption DEF OnboardingInit
    <3> QED
      BY ONLY <3>1
  <2>2. waiting \subseteq Guides /\ pendingKeys \subseteq Guides /\ activeTour \in Guides \cup {"primary", NoTour}
        /\ calls \subseteq OnboardingCalls
    BY <1>5
  <2> QED
    BY ONLY <1>2, <1>3, <2>1, <2>2 DEF OnboardingTyped
<1> QED
  BY <1>2, <1>4, <1>5, <1>6 DEF OnboardingInv, OneRequest, MarkStands, LoadsSaveNothing

\* A request that goes on keeps its number and what it is for.
Proceeds(c, d) == d \in OnboardingCalls /\ d.nr = c.nr /\ d.op = c.op

LEMMA RowFound == OnboardingInv /\ (\E c \in calls : FindRow(c)) => OnboardingInv'
<1> SUFFICES ASSUME OnboardingInv, NEW c \in calls, FindRow(c) PROVE OnboardingInv'
  OBVIOUS
<1>0. OnboardingTyped /\ OneRequest /\ MarkStands /\ LoadsSaveNothing /\ c \in OnboardingCalls
  BY DEF OnboardingInv, OnboardingTyped
<1>1. PICK d : /\ calls' = (calls \ {c}) \cup {d}
               /\ d = (IF ~row.exists THEN [c EXCEPT !.st = "creating"]
                       ELSE [c EXCEPT !.st = IF c.op = "load" THEN "saved" ELSE "read", !.seen = row.marks])
  BY DEF FindRow, Becomes
<1>2. row.marks \in SUBSET Marks /\ (row.exists => row = Row(row.marks))
  BY <1>0, RowsOf DEF OnboardingTyped, OnboardingRows
<1>3. /\ Proceeds(c, d)
      /\ ~row.exists => d.st = "creating"
      /\ row.exists => d.seen = row.marks /\ d.st = IF c.op = "load" THEN "saved" ELSE "read"
  BY ONLY <1>0, <1>1, <1>2 DEF Proceeds, OnboardingCalls
<1>4. /\ UNCHANGED <<row, savedOver, mixed, completions, resetSince, updates>> /\ UNCHANGED clientVars
  BY DEF FindRow
<1>5. UNCHANGED <<signedIn, state, stateLoadAttempted, isChecklistVisible, waiting, pendingKeys, activeTour>>
  BY <1>4 DEF clientVars
<1>6. OnboardingTyped'
  BY <1>0, <1>1, <1>3, <1>4, <1>5 DEF OnboardingTyped, Proceeds
<1>7. AloneAtRow(d)'
  BY <1>2, <1>3, <1>4 DEF AloneAtRow
<1>8. OneRequest'
  BY <1>0, <1>1, <1>4, <1>7 DEF OneRequest
<1>9. MarkStands'
  <2>1. d.op = "completed" => d.st # "saved"
    BY <1>3 DEF Proceeds
  <2> QED
    BY <1>0, <1>1, <1>4, <2>1 DEF MarkStands
<1>10. LoadsSaveNothing'
  <2>1. d.op = "load" => d.st # "read"
    BY <1>3 DEF Proceeds
  <2> QED
    BY <1>0, <1>1, <2>1 DEF LoadsSaveNothing
<1> QED
  BY <1>6, <1>8, <1>9, <1>10 DEF OnboardingInv

LEMMA RowCreated == OnboardingInv /\ (\E c \in calls : CreateRow(c)) => OnboardingInv' /\ row.marks \subseteq row'.marks
<1> SUFFICES ASSUME OnboardingInv, NEW c \in calls, CreateRow(c) PROVE OnboardingInv' /\ row.marks \subseteq row'.marks
  OBVIOUS
<1>0. OnboardingTyped /\ OneRequest /\ MarkStands /\ LoadsSaveNothing /\ c \in OnboardingCalls
  BY DEF OnboardingInv, OnboardingTyped
<1>1. /\ c.st = "creating"
      /\ UNCHANGED <<savedOver, mixed, completions, resetSince, updates>> /\ UNCHANGED clientVars
  BY DEF CreateRow
<1>2. UNCHANGED <<signedIn, state, stateLoadAttempted, isChecklistVisible, waiting, pendingKeys, activeTour>>
  BY <1>1 DEF clientVars
<1>3. CASE row.exists
  <2>1. PICK d : d = [c EXCEPT !.st = "failed"] /\ calls' = (calls \ {c}) \cup {d}
    BY <1>3 DEF CreateRow, Becomes
  <2>2. Proceeds(c, d) /\ d.st = "failed"
    BY ONLY <1>0, <2>1 DEF Proceeds, OnboardingCalls
  <2>3. row' = row
    BY <1>3 DEF CreateRow
  <2>4. mixed
    BY <1>0, <1>1, <1>3 DEF OneRequest, AloneAtRow
  <2>5. OnboardingTyped'
    BY <1>0, <1>1, <1>2, <2>1, <2>2, <2>3 DEF OnboardingTyped, Proceeds
  <2>6. OneRequest'
    BY <1>1, <2>4 DEF OneRequest
  <2>7. MarkStands'
    BY <1>0, <1>1, <2>1, <2>2, <2>3 DEF MarkStands
  <2>8. LoadsSaveNothing'
    BY <1>0, <2>1, <2>2 DEF LoadsSaveNothing
  <2> QED
    BY <2>3, <2>5, <2>6, <2>7, <2>8 DEF OnboardingInv
<1>4. CASE ~row.exists
  <2>1. PICK marks : marks = {c.op} \cap {"completed", "dismissed"}
    OBVIOUS
  <2>2. PICK d : /\ d = [c EXCEPT !.seen = marks, !.st = IF c.op \in {"load", "reset", "completed", "dismissed"} THEN "saved"
                                                          ELSE "read"]
                 /\ calls' = (calls \ {c}) \cup {d} /\ row' = Row(marks)
    BY <1>4, <2>1 DEF CreateRow, Becomes
  <2>3. marks \in SUBSET Marks /\ (c.op = "completed" => "completed" \in marks)
    BY <2>1, NamedMarks
  <2>4. Proceeds(c, d) /\ d.seen = marks /\ d.st \in {"saved", "read"} /\ (c.op = "load" => d.st = "saved")
    BY ONLY <1>0, <2>2, <2>3 DEF Proceeds, OnboardingCalls
  <2>5. row' \in OnboardingRows /\ row'.exists /\ row'.marks = marks
    BY <2>2, <2>3, RowsOf
  <2>6. row.marks = {} /\ (savedOver \/ resetSince \/ (~completions /\ \A e \in calls : ~(e.op = "completed" /\ e.st = "saved")))
    BY <1>0, <1>4 DEF MarkStands
  <2>7. OnboardingTyped'
    BY <1>0, <1>1, <1>2, <2>2, <2>4, <2>5 DEF OnboardingTyped, Proceeds
  <2>8. AloneAtRow(d)'
    BY <2>2, <2>4 DEF AloneAtRow
  <2>9. OneRequest'
    BY <1>0, <1>1, <2>2, <2>8 DEF OneRequest
  <2>10. MarkStands'
    <3>1. \A e \in calls' : e.op = "completed" /\ e.st = "saved" => e \in calls \/ "completed" \in marks
      BY <2>2, <2>3, <2>4 DEF Proceeds
    <3> QED
      BY <1>1, <2>5, <2>6, <3>1 DEF MarkStands
  <2>11. LoadsSaveNothing'
    BY <1>0, <2>2, <2>4 DEF LoadsSaveNothing, Proceeds
  <2> QED
    BY <2>6, <2>7, <2>9, <2>10, <2>11 DEF OnboardingInv
<1> QED
  BY <1>3, <1>4

\* A save over no other's keeps every mark, unless it is a reset.
LEMMA RowSavedWhole ==
  OnboardingInv /\ (\E c \in calls : SaveRow(c))
    => /\ OnboardingInv'
       /\ row.marks \subseteq row'.marks \/ savedOver' \/ \E c \in calls : c.op = "reset" /\ c.st = "read"
<1> SUFFICES ASSUME OnboardingInv, NEW c \in calls, SaveRow(c)
             PROVE  /\ OnboardingInv'
                    /\ row.marks \subseteq row'.marks \/ savedOver' \/ c.op = "reset"
  BY DEF SaveRow
<1>0. OnboardingTyped /\ OneRequest /\ MarkStands /\ LoadsSaveNothing /\ c \in OnboardingCalls
  BY DEF OnboardingInv, OnboardingTyped
<1>1. PICK marks : marks = Written(c)
  OBVIOUS
<1>2. PICK d : d = [c EXCEPT !.st = "saved", !.seen = marks] /\ calls' = (calls \ {c}) \cup {d}
  BY <1>1 DEF SaveRow, Becomes
<1>3. /\ c.st = "read" /\ row' = Row(marks)
      /\ savedOver' = (savedOver \/ row.marks # c.seen)
      /\ resetSince' = (c.op = "reset" \/ (resetSince /\ c.op # "completed"))
      /\ UNCHANGED <<mixed, completions, updates>> /\ UNCHANGED clientVars
  BY <1>1 DEF SaveRow
<1>4. UNCHANGED <<signedIn, state, stateLoadAttempted, isChecklistVisible, waiting, pendingKeys, activeTour>>
  BY <1>3 DEF clientVars
<1>5. c.seen \in SUBSET Marks /\ c.op \in OnboardingOps
  BY <1>0 DEF OnboardingCalls
<1>6. marks \in SUBSET Marks /\ (c.op # "reset" => marks = c.seen \cup {c.op})
  BY <1>0, <1>1, <1>3, <1>5 DEF Written, OnboardingOps, LoadsSaveNothing
<1>7. Proceeds(c, d) /\ d.seen = marks /\ d.st = "saved"
  BY ONLY <1>0, <1>2, <1>6 DEF Proceeds, OnboardingCalls
<1>8. row' \in OnboardingRows /\ row'.exists /\ row'.marks = marks
  BY <1>3, <1>6, RowsOf
<1>9. savedOver' \in BOOLEAN /\ (~savedOver' => ~savedOver /\ row.marks = c.seen)
  BY <1>0, <1>3 DEF OnboardingTyped
<1>10. resetSince' \in BOOLEAN /\ (~resetSince' => c.op # "reset" /\ (c.op = "completed" \/ ~resetSince))
  BY <1>0, <1>3 DEF OnboardingTyped
<1>11. OnboardingTyped'
  BY <1>0, <1>2, <1>3, <1>4, <1>7, <1>8, <1>9, <1>10 DEF OnboardingTyped, Proceeds
<1>12. AloneAtRow(d)'
  BY <1>3, <1>7 DEF AloneAtRow
<1>13. OneRequest'
  BY <1>0, <1>2, <1>3, <1>12 DEF OneRequest
<1>14. MarkStands'
  <2>1. ASSUME ~savedOver', ~resetSince', completions' \/ \E e \in calls' : e.op = "completed" /\ e.st = "saved"
        PROVE  "completed" \in marks
    <3>1. marks = row.marks \cup {c.op}
      BY <1>6, <1>9, <1>10, <2>1
    <3>2. CASE c.op = "completed"
      BY <3>1, <3>2
    <3>3. CASE c.op # "completed"
      <4>1. completions \/ \E e \in calls : e.op = "completed" /\ e.st = "saved"
        BY <1>2, <1>3, <1>7, <2>1, <3>3 DEF Proceeds
      <4> QED
        BY <1>0, <1>9, <1>10, <2>1, <3>1, <3>3, <4>1 DEF MarkStands
    <3> QED
      BY <3>2, <3>3
  <2> QED
    BY <1>8, <2>1 DEF MarkStands
<1>15. LoadsSaveNothing'
  BY <1>0, <1>2, <1>7 DEF LoadsSaveNothing
<1>16. row.marks \subseteq row'.marks \/ savedOver' \/ c.op = "reset"
  BY <1>6, <1>8, <1>9
<1> QED
  BY <1>11, <1>13, <1>14, <1>15, <1>16 DEF OnboardingInv

\* The answer to a request that was alone is what the row holds.
LEMMA AnswerTaken == OnboardingInv /\ (\E c \in calls : CallAnswers(c)) => OnboardingInv'
<1> SUFFICES ASSUME OnboardingInv, NEW c \in calls, CallAnswers(c) PROVE OnboardingInv'
  OBVIOUS
<1>0. OnboardingTyped /\ OneRequest /\ MarkStands /\ LoadsSaveNothing /\ c \in OnboardingCalls
  BY DEF OnboardingInv, OnboardingTyped
<1>1. /\ c.st = "saved" /\ calls' = calls \ {c} /\ state' = Row(c.seen)
      /\ completions' = (completions \/ c.op = "completed")
      /\ UNCHANGED <<row, signedIn, waiting, pendingKeys, activeTour, savedOver, mixed, resetSince, updates>>
  BY DEF CallAnswers, Takes
<1>2. stateLoadAttempted' \in BOOLEAN /\ isChecklistVisible' \in BOOLEAN
  BY DEF CallAnswers
<1>3. c.seen \in SUBSET Marks
  BY <1>0 DEF OnboardingCalls
<1>4. state' \in OnboardingRows
  BY <1>1, <1>3, RowsOf
<1>5. completions' \in BOOLEAN /\ (completions' => completions \/ c.op = "completed")
  BY <1>0, <1>1 DEF OnboardingTyped
<1>6. OnboardingTyped'
  BY <1>0, <1>1, <1>2, <1>4, <1>5 DEF OnboardingTyped
<1>7. OneRequest'
  <2>1. ASSUME ~mixed PROVE state' = row' /\ \A d \in calls' : AloneAtRow(d)'
    BY <1>0, <1>1, <2>1 DEF OneRequest, AloneAtRow
  <2> QED
    BY <1>0, <1>1, <2>1 DEF OneRequest
<1>8. MarkStands'
  BY <1>0, <1>1, <1>5 DEF MarkStands
<1>9. LoadsSaveNothing'
  BY <1>0, <1>1 DEF LoadsSaveNothing
<1> QED
  BY <1>6, <1>7, <1>8, <1>9 DEF OnboardingInv

LEMMA CallLost == OnboardingInv /\ (\E c \in calls : CallFails(c)) => OnboardingInv'
<1> SUFFICES ASSUME OnboardingInv, NEW c \in calls, CallFails(c) PROVE OnboardingInv'
  OBVIOUS
<1>0. OnboardingTyped /\ OneRequest /\ MarkStands /\ LoadsSaveNothing
  BY DEF OnboardingInv
<1>1. /\ calls' = calls \ {c} /\ mixed' = TRUE /\ state' \in {state, NoState}
      /\ stateLoadAttempted' = TRUE \/ stateLoadAttempted' = stateLoadAttempted
      /\ UNCHANGED <<row, signedIn, isChecklistVisible, waiting, pendingKeys, activeTour, savedOver,
                     completions, resetSince, updates>>
  BY DEF CallFails
<1>2. stateLoadAttempted' \in BOOLEAN
  <2>1. stateLoadAttempted' = TRUE => stateLoadAttempted' \in BOOLEAN
    OBVIOUS
  <2>2. stateLoadAttempted' = stateLoadAttempted => stateLoadAttempted' \in BOOLEAN
    BY <1>0 DEF OnboardingTyped
  <2> QED
    BY <1>1, <2>1, <2>2
<1>3. mixed' \in BOOLEAN /\ state' \in OnboardingRows
  BY <1>0, <1>1, RowsOf DEF OnboardingTyped, NoState
<1>4. OnboardingTyped'
  BY <1>0, <1>1, <1>2, <1>3 DEF OnboardingTyped
<1>5. OneRequest' /\ MarkStands' /\ LoadsSaveNothing'
  BY <1>0, <1>1 DEF OneRequest, MarkStands, LoadsSaveNothing
<1> QED
  BY <1>4, <1>5 DEF OnboardingInv

\* What the proof asks of the requests after a step of the user.
RequestsFit ==
    /\ calls' \subseteq OnboardingCalls /\ updates' \in 0 .. UpdateCalls /\ mixed' \in BOOLEAN
    /\ OneRequest' /\ MarkStands' /\ LoadsSaveNothing'

\* What is sent has read nothing yet.
LEMMA RequestsSent ==
  ASSUME OnboardingInv, NEW ops \in SUBSET OnboardingOps, ops # {}, Send(ops), mixed' \/ \A a, b \in ops : a = b,
         UNCHANGED <<row, savedOver, completions, resetSince>>
  PROVE  RequestsFit
<1>0. OnboardingTyped /\ OneRequest /\ MarkStands /\ LoadsSaveNothing
  BY DEF OnboardingInv
<1>1. updates' \in 1 .. UpdateCalls /\ updates' \in 0 .. UpdateCalls
  <2>1. PICK n \in 0 .. UpdateCalls : n = updates
    BY <1>0 DEF OnboardingTyped
  <2>2. n < UpdateCalls /\ updates' = n + 1 /\ UpdateCalls \in Nat
    BY <2>1, OnboardingAssumption DEF Send
  <2> QED
    BY ONLY <2>2, n \in 0 .. UpdateCalls
<1>2. PICK new : /\ new = {[nr |-> updates', op |-> op, st |-> "sent", seen |-> {}] : op \in ops}
                 /\ calls' = calls \cup new
  BY DEF Send
<1>3. \A c \in new : c \in OnboardingCalls /\ c.st = "sent" /\ c.op \in ops
  BY <1>1, <1>2 DEF OnboardingCalls
<1>4. (\A a, b \in ops : a = b) => \A c, d \in new : c = d
  BY <1>2
<1>5. mixed' = (mixed \/ calls # {} \/ Cardinality(ops) > 1)
  BY DEF Send
<1>6. mixed' \in BOOLEAN /\ (~mixed' => ~mixed /\ calls = {})
  BY <1>0, <1>5 DEF OnboardingTyped
<1>7. calls' \subseteq OnboardingCalls
  BY <1>0, <1>2, <1>3 DEF OnboardingTyped
<1>8. OneRequest'
  <2> SUFFICES ASSUME ~mixed'
               PROVE  /\ \A c, d \in calls' : c = d
                      /\ \A c \in calls' : AloneAtRow(c)'
                      /\ calls' = {} /\ state' # NoState => state' = row'
    BY DEF OneRequest
  <2>1. calls' = new /\ \A c, d \in new : c = d
    BY <1>2, <1>4, <1>6
  <2>2. \A c \in calls' : AloneAtRow(c)'
    BY <1>3, <2>1 DEF AloneAtRow
  <2>3. calls' # {}
    BY <1>2
  <2> QED
    BY <2>1, <2>2, <2>3
<1>9. MarkStands' /\ LoadsSaveNothing'
  BY <1>0, <1>2, <1>3 DEF MarkStands, LoadsSaveNothing
<1> QED
  BY <1>1, <1>6, <1>7, <1>8, <1>9 DEF RequestsFit

LEMMA NothingSent ==
  ASSUME OnboardingInv, UNCHANGED <<calls, mixed, updates>>, state' \in {state, NoState},
         UNCHANGED <<row, savedOver, completions, resetSince>>
  PROVE  RequestsFit
<1>0. OnboardingTyped /\ OneRequest /\ MarkStands /\ LoadsSaveNothing
  BY DEF OnboardingInv
<1>1. calls' \subseteq OnboardingCalls /\ updates' \in 0 .. UpdateCalls /\ mixed' \in BOOLEAN
  BY <1>0 DEF OnboardingTyped
<1>2. OneRequest'
  BY <1>0 DEF OneRequest, AloneAtRow
<1>3. MarkStands' /\ LoadsSaveNothing'
  BY <1>0 DEF MarkStands, LoadsSaveNothing
<1> QED
  BY <1>1, <1>2, <1>3 DEF RequestsFit

LEMMA OneSent ==
  ASSUME OnboardingInv, NEW op \in OnboardingOps, Send({op}), UNCHANGED <<row, savedOver, completions, resetSince>>
  PROVE  RequestsFit
<1>1. PICK ops : ops = {op}
  OBVIOUS
<1>2. ops \in SUBSET OnboardingOps /\ ops # {} /\ (\A a, b \in ops : a = b) /\ Send(ops)
  BY <1>1
<1> QED
  BY <1>2, RequestsSent

\* The two updates of a tour that is completed are under way at once.
LEMMA TourSent ==
  ASSUME OnboardingInv, Send({"tour completed", "completed"}), UNCHANGED <<row, savedOver, completions, resetSince>>
  PROVE  RequestsFit
<1>1. PICK ops : ops = {"tour completed", "completed"}
  OBVIOUS
<1>2. Cardinality(ops) = 2
  <2>1. IsFiniteSet({"completed"}) /\ Cardinality({"completed"}) = 1
    BY FS_Singleton
  <2>2. ops = {"completed"} \cup {"tour completed"} /\ "tour completed" \notin {"completed"}
    BY <1>1
  <2>3. Cardinality(ops) = 1 + 1
    BY <2>1, <2>2, FS_AddElement
  <2> QED
    BY ONLY <2>3
<1>3. mixed'
  <2>1. mixed' = (mixed \/ calls # {} \/ Cardinality(ops) > 1)
    BY <1>1 DEF Send
  <2>2. Cardinality(ops) > 1
    BY ONLY <1>2
  <2> QED
    BY <2>1, <2>2
<1>4. ops \in SUBSET OnboardingOps /\ ops # {} /\ Send(ops)
  BY <1>1, NamedMarks DEF OnboardingOps
<1> QED
  BY <1>3, <1>4, RequestsSent

LEMMA GuideTried ==
  ASSUME OnboardingInv, NEW g \in Guides, TryShow(g), state' = state, UNCHANGED <<row, savedOver, completions, resetSince>>
  PROVE  RequestsFit /\ pendingKeys' \subseteq Guides
<1>1. CASE g \in state.marks \/ g \in pendingKeys
  <2>1. UNCHANGED <<pendingKeys, calls, mixed, updates>>
    BY <1>1 DEF TryShow
  <2> QED
    BY <2>1, NothingSent DEF OnboardingInv, OnboardingTyped
<1>2. CASE ~(g \in state.marks \/ g \in pendingKeys)
  <2>1. pendingKeys' = pendingKeys \cup {g} /\ Send({g})
    BY <1>2 DEF TryShow
  <2>2. g \in OnboardingOps
    BY NamedMarks DEF OnboardingOps
  <2> QED
    BY <2>1, <2>2, OneSent DEF OnboardingInv, OnboardingTyped
<1> QED
  BY <1>1, <1>2

LEMMA TourBegun ==
  ASSUME OnboardingInv, NEW tour \in Guides \cup {"primary"}, BeginTour(tour), state' = state,
         UNCHANGED <<row, savedOver, completions, resetSince>>
  PROVE  RequestsFit /\ activeTour' \in Guides \cup {"primary", NoTour}
<1>1. activeTour' = tour
  BY DEF BeginTour
<1>2. CASE activeTour = "primary"
  BY <1>1, <1>2, TourSent DEF BeginTour
<1>3. CASE activeTour # "primary"
  BY <1>1, <1>3, NothingSent DEF BeginTour
<1> QED
  BY <1>2, <1>3

\* What the requests of a step leave to be typed.
LEMMA UserStep ==
  ASSUME OnboardingInv, RequestsFit, UNCHANGED <<row, savedOver, completions, resetSince>>,
         state' \in {state, NoState}, stateLoadAttempted' = stateLoadAttempted,
         signedIn' \in BOOLEAN, isChecklistVisible' \in BOOLEAN, waiting' \subseteq Guides, pendingKeys' \subseteq Guides,
         activeTour' \in Guides \cup {"primary", NoTour}
  PROVE  OnboardingInv'
<1>1. OnboardingTyped
  BY DEF OnboardingInv
<1>2. state' \in OnboardingRows
  BY <1>1, RowsOf DEF OnboardingTyped, NoState
<1>3. OnboardingTyped'
  BY <1>1, <1>2 DEF OnboardingTyped, RequestsFit
<1> QED
  BY <1>3 DEF OnboardingInv, RequestsFit

LEMMA UserMoves ==
  /\ OnboardingInv /\ SignIn => OnboardingInv'
  /\ OnboardingInv /\ SignOut => OnboardingInv'
  /\ OnboardingInv /\ StartTour => OnboardingInv'
  /\ \A g \in Guides : OnboardingInv /\ (VisitPage(g) \/ RetryGuide(g) \/ GuideOpens(g)) => OnboardingInv'
  /\ \A completed \in BOOLEAN : OnboardingInv /\ TourEnds(completed) => OnboardingInv'
  /\ \A op \in Items \cup {"dismissed", "reset"} : OnboardingInv /\ Update(op) => OnboardingInv'
<1>t. OnboardingInv => /\ signedIn \in BOOLEAN /\ isChecklistVisible \in BOOLEAN /\ waiting \subseteq Guides
                       /\ pendingKeys \subseteq Guides /\ activeTour \in Guides \cup {"primary", NoTour}
  BY DEF OnboardingInv, OnboardingTyped
<1>1. ASSUME OnboardingInv, SignIn PROVE OnboardingInv'
  <2>1. "load" \in OnboardingOps
    BY DEF OnboardingOps
  <2>2. /\ Send({"load"}) /\ signedIn' = TRUE
        /\ UNCHANGED <<row, state, stateLoadAttempted, isChecklistVisible, waiting, pendingKeys, activeTour, savedOver,
                       completions, resetSince>>
    BY <1>1 DEF SignIn
  <2>3. signedIn' \in BOOLEAN
    BY <2>2
  <2>4. RequestsFit
    BY <1>1, <2>1, <2>2, OneSent
  <2> QED
    BY <1>1, <1>t, <2>2, <2>3, <2>4, UserStep
<1>2. ASSUME OnboardingInv, SignOut PROVE OnboardingInv'
  <2>1. /\ signedIn' = FALSE /\ state' = NoState /\ isChecklistVisible' = FALSE
        /\ UNCHANGED <<row, calls, stateLoadAttempted, waiting, pendingKeys, activeTour, savedOver, mixed,
                       completions, resetSince, updates>>
    BY <1>2 DEF SignOut
  <2>2. signedIn' \in BOOLEAN /\ isChecklistVisible' \in BOOLEAN
    BY <2>1
  <2>3. RequestsFit
    BY <1>2, <2>1, NothingSent
  <2> QED
    BY <1>2, <1>t, <2>1, <2>2, <2>3, UserStep
<1>3. ASSUME OnboardingInv, StartTour PROVE OnboardingInv'
  <2>1. /\ BeginTour("primary") /\ isChecklistVisible' \in {isChecklistVisible, FALSE}
        /\ UNCHANGED <<row, signedIn, state, stateLoadAttempted, waiting, pendingKeys, savedOver, completions, resetSince>>
    BY <1>3 DEF StartTour
  <2>2. RequestsFit /\ activeTour' \in Guides \cup {"primary", NoTour}
    BY <1>3, <2>1, TourBegun
  <2>3. isChecklistVisible' \in BOOLEAN
    BY <1>3, <1>t, <2>1
  <2> QED
    BY <1>3, <1>t, <2>1, <2>2, <2>3, UserStep
<1>4. ASSUME NEW g \in Guides, OnboardingInv, VisitPage(g) PROVE OnboardingInv'
  <2>1. UNCHANGED <<row, signedIn, state, stateLoadAttempted, isChecklistVisible, activeTour, savedOver,
                    completions, resetSince>>
    BY <1>4 DEF VisitPage
  <2>2. RequestsFit /\ waiting' \subseteq Guides /\ pendingKeys' \subseteq Guides
    <3>1. CASE stateLoadAttempted
      BY <1>4, <1>t, <2>1, <3>1, GuideTried DEF VisitPage
    <3>2. CASE ~stateLoadAttempted
      BY <1>4, <1>t, <2>1, <3>2, NothingSent DEF VisitPage
    <3> QED
      BY <3>1, <3>2
  <2> QED
    BY <1>4, <1>t, <2>1, <2>2, UserStep
<1>5. ASSUME NEW g \in Guides, OnboardingInv, RetryGuide(g) PROVE OnboardingInv'
  <2>1. /\ waiting' = waiting \ {g}
        /\ UNCHANGED <<row, signedIn, state, stateLoadAttempted, isChecklistVisible, activeTour, savedOver,
                       completions, resetSince>>
    BY <1>5 DEF RetryGuide
  <2>2. RequestsFit /\ pendingKeys' \subseteq Guides
    <3>1. CASE signedIn /\ stateLoadAttempted
      BY <1>5, <2>1, <3>1, GuideTried DEF RetryGuide
    <3>2. CASE ~(signedIn /\ stateLoadAttempted)
      BY <1>5, <1>t, <2>1, <3>2, NothingSent DEF RetryGuide
    <3> QED
      BY <3>1, <3>2
  <2> QED
    BY <1>5, <1>t, <2>1, <2>2, UserStep
<1>6. ASSUME NEW g \in Guides, OnboardingInv, GuideOpens(g) PROVE OnboardingInv'
  <2>1. /\ pendingKeys' = pendingKeys \ {g} /\ BeginTour(g)
        /\ UNCHANGED <<row, signedIn, state, stateLoadAttempted, isChecklistVisible, waiting, savedOver,
                       completions, resetSince>>
    BY <1>6 DEF GuideOpens
  <2>2. RequestsFit /\ activeTour' \in Guides \cup {"primary", NoTour}
    BY <1>6, <2>1, TourBegun
  <2> QED
    BY <1>6, <1>t, <2>1, <2>2, UserStep
<1>7. ASSUME NEW completed \in BOOLEAN, OnboardingInv, TourEnds(completed) PROVE OnboardingInv'
  <2>1. /\ activeTour' = NoTour
        /\ UNCHANGED <<row, signedIn, state, stateLoadAttempted, isChecklistVisible, waiting, pendingKeys,
                       savedOver, completions, resetSince>>
    BY <1>7 DEF TourEnds
  <2>2. RequestsFit
    <3>1. CASE activeTour # "primary"
      BY <1>7, <2>1, <3>1, NothingSent DEF TourEnds
    <3>2. CASE activeTour = "primary" /\ completed
      BY <1>7, <2>1, <3>2, TourSent DEF TourEnds
    <3>3. CASE activeTour = "primary" /\ ~completed
      <4>1. Send({"tour dismissed"})
        BY <1>7, <3>3 DEF TourEnds
      <4>2. "tour dismissed" \in OnboardingOps
        BY NamedMarks DEF OnboardingOps
      <4> QED
        BY <1>7, <2>1, <4>1, <4>2, OneSent
    <3> QED
      BY <3>1, <3>2, <3>3
  <2> QED
    BY <1>7, <1>t, <2>1, <2>2, UserStep
<1>8. ASSUME NEW op \in Items \cup {"dismissed", "reset"}, OnboardingInv, Update(op) PROVE OnboardingInv'
  <2>1. /\ Send({op})
        /\ UNCHANGED <<row, signedIn, state, stateLoadAttempted, waiting, pendingKeys, activeTour, savedOver,
                       completions, resetSince>>
    BY <1>8 DEF Update
  <2>2. isChecklistVisible' \in BOOLEAN
    BY <1>8 DEF Update
  <2>3. op \in OnboardingOps
    BY NamedMarks DEF OnboardingOps
  <2>4. RequestsFit
    BY <1>8, <2>1, <2>3, OneSent
  <2> QED
    BY <1>8, <1>t, <2>1, <2>2, <2>4, UserStep
<1> QED
  BY <1>1, <1>2, <1>3, <1>4, <1>5, <1>6, <1>7, <1>8

LEMMA OnboardingUnchanged == OnboardingInv /\ UNCHANGED onboardingVars => OnboardingInv'
<1> SUFFICES ASSUME OnboardingInv, UNCHANGED onboardingVars PROVE OnboardingInv'
  OBVIOUS
<1>1. /\ UNCHANGED <<row, calls, savedOver, mixed, completions, resetSince, updates>>
      /\ UNCHANGED <<signedIn, state, stateLoadAttempted, isChecklistVisible, waiting, pendingKeys, activeTour>>
  BY DEF onboardingVars, clientVars
<1>2. RequestsFit
  BY <1>1, NothingSent
<1> QED
  BY <1>1, <1>2, UserStep DEF OnboardingInv, OnboardingTyped

LEMMA OnboardingStep == OnboardingInv /\ [OnboardingNext]_onboardingVars => OnboardingInv'
BY RowFound, RowCreated, RowSavedWhole, AnswerTaken, CallLost, UserMoves, OnboardingUnchanged DEF OnboardingNext

\* Only the row's own steps change it.
LEMMA OnboardingMarks ==
  OnboardingInv /\ [OnboardingNext]_onboardingVars
    => row.marks \subseteq row'.marks \/ savedOver' \/ \E c \in calls : c.op = "reset" /\ c.st = "read"
<1> SUFFICES ASSUME OnboardingInv, [OnboardingNext]_onboardingVars
             PROVE  row.marks \subseteq row'.marks \/ savedOver' \/ \E c \in calls : c.op = "reset" /\ c.st = "read"
  OBVIOUS
<1>1. CASE \E c \in calls : CreateRow(c)
  BY <1>1, RowCreated
<1>2. CASE \E c \in calls : SaveRow(c)
  BY <1>2, RowSavedWhole
<1>3. \/ \E c \in calls : CreateRow(c)
      \/ \E c \in calls : SaveRow(c)
      \/ row' = row
  BY DEF OnboardingNext, onboardingVars, FindRow, CallAnswers, CallFails, SignIn, SignOut, VisitPage, RetryGuide,
         GuideOpens, StartTour, TourEnds, Update
<1> QED
  BY <1>1, <1>2, <1>3

LEMMA OnboardingInvShows == OnboardingInv => OnboardingTypeOK /\ StateIsServers /\ CompletedIsMarked
BY OnboardingTypes DEF OnboardingInv, OneRequest, MarkStands, StateIsServers, CompletedIsMarked

-----------------------------------------------------------------------------
(* Accounts.                                                               *)

\* What the proofs see of the users table and of the calls at it.
UserRows == [id : Ids, email : Emails, password : Passwords, isActive : BOOLEAN]
Creations == [id : Ids, op : {"register", "invite", "start"}, email : Emails, password : Passwords,
              st : {"find", "hash", "sync"}, seen : UserRows \cup {Nobody}]
Removals == [id : Ids, st : {"avatar", "storage", "find", "decide"}, seen : UserRows]

\* A row that somebody was told of, though it may have changed since.
Told(u) == \E v \in confirmed : v.id = u.id /\ v.email = u.email

\* An id is given once, and nobody was told of it before.
NewIds ==
    /\ \A c \in creating :
           /\ c.id <= accountCalls
           /\ \A d \in creating : d.id = c.id => d = c
           /\ \A v \in confirmed : v.id # c.id
    /\ \A v \in confirmed : v.id <= accountCalls

OneAddress == \A u, v \in users : u.email = v.email => u = v

\* Every row, and every row a start is about to save again, has been told,
\* under one address for each id.
RowsTold ==
    /\ \A u, v \in confirmed : u.id = v.id => u.email = v.email
    /\ \A u \in users : Told(u)
    /\ \A c \in creating :
           /\ c.op = "start" <=> c.email = Root
           /\ c.st = "sync" => c.op = "start" /\ c.seen.email = Root /\ Told(c.seen)

\* A deletion that is to decide still has its row to decide about.
RemovalStands(r) ==
    /\ r.id \in asked /\ r.seen.id = r.id
    /\ r.st = "decide" => \E u \in users : u.id = r.id /\ u.email = r.seen.email
    /\ r.st # "avatar" /\ <<r.id, "avatar">> \in belongings => r.id \in late
RemovalsStand ==
    /\ \A q, r \in removing : q.id = r.id => q = r
    /\ \A r \in removing : RemovalStands(r)

\* A row goes only when that was asked, and then what belongs to it.
RowsStay ==
    /\ \A u \in confirmed :
           u.id \notin asked => WithId(u.id) # {} /\ u.isActive /\ (u.email = Normal => u \in users)
    /\ \A id \in uploading : id \in asked \/ WithId(id) # {}
    /\ \A id \in Ids :
           WithId(id) = {} /\ id \notin late \cup uploading => \A t \in belongings : t[1] # id

\* The superadmin, unless two starts ran beside each other or that account
\* was to be deleted.
Disturbed == raced \/ \E u \in confirmed : u.email = Root /\ u.id \in asked
RootStays ==
    /\ \A c, d \in creating : c.op = "start" /\ d.op = "start" => c = d
    /\ \A u \in users : u.email = Root => u.isActive
    /\ \A c \in creating : c.op = "start" =>
           /\ c.password = envPassword
           /\ c.st = "hash" => \A u \in users : u.email # Root
           /\ c.st = "sync" => c.seen \in users
    /\ (\A c \in creating : c.op # "start") => \A u \in users : u.email = Root => u.password = envPassword

AccountsInv ==
    /\ AccountsTypeOK /\ NewIds /\ OneAddress /\ RowsTold /\ RemovalsStand /\ RowsStay
    /\ Disturbed \/ RootStays

AccountsTyped ==
    /\ users \subseteq UserRows /\ confirmed \subseteq UserRows
    /\ creating \subseteq Creations /\ removing \subseteq Removals
    /\ belongings \subseteq Ids \X {"avatar", "storage"}
    /\ uploading \subseteq Ids /\ asked \subseteq Ids /\ late \subseteq Ids
    /\ envPassword \in Passwords /\ raced \in BOOLEAN /\ accountCalls \in 0 .. AccountCalls

\* Both forms of the type invariant say the same.
LEMMA AccountTypes == (AccountsTypeOK <=> AccountsTyped) /\ (AccountsTypeOK' <=> AccountsTyped')
BY DEF AccountsTypeOK, AccountsTyped, UserRows, Creations, Removals

LEMMA AccountsInitial == AccountsInit => AccountsInv
<1> SUFFICES ASSUME AccountsInit PROVE AccountsInv
  OBVIOUS
<1>1. AccountsTypeOK
  <2>1. accountCalls \in 0 .. AccountCalls
    BY AccountAssumption DEF AccountsInit
  <2> QED
    BY <2>1, AccountTypes DEF AccountsInit, AccountsTyped
<1> QED
  BY <1>1 DEF AccountsInit, AccountsInv, NewIds, OneAddress, RowsTold, RemovalsStand, RemovalStands, RowsStay, RootStays

-----------------------------------------------------------------------------
\* A call begins, with an id of its own.
LEMMA BeginKeeps ==
  ASSUME AccountsInv, NEW op \in {"register", "invite", "start"}, NEW email \in Emails,
         NEW password \in Passwords, Begin(op, email, password),
         op = "start" <=> email = Root,
         envPassword' \in Passwords, raced' \in BOOLEAN, raced => raced',
         op = "start" => envPassword' = password /\ ((\E c \in creating : c.op = "start") => raced'),
         op # "start" => UNCHANGED <<envPassword, raced>>
  PROVE  AccountsInv'
<1> DEFINE c == [id |-> accountCalls', op |-> op, email |-> email, password |-> password,
                 st |-> "find", seen |-> Nobody]
<1>1. accountCalls' \in Ids /\ accountCalls' \in 0 .. AccountCalls /\ accountCalls' = accountCalls + 1
      /\ accountCalls \in Nat
  BY AccountTypes, AccountAssumption DEF AccountsInv, AccountsTyped, Begin, Ids
<1>2. c \in Creations /\ c.id = accountCalls' /\ c.op = op /\ c.email = email /\ c.password = password
      /\ c.st = "find"
  BY <1>1 DEF Creations
<1>3. creating' = creating \cup {c} /\ UNCHANGED <<users, removing, belongings, uploading, confirmed, asked, late>>
  BY DEF Begin
<1> HIDE DEF c
<1>4. AccountsTypeOK'
  BY <1>1, <1>2, <1>3, AccountTypes DEF AccountsInv, AccountsTyped
<1>5. \A d \in creating : d.id < c.id /\ d.id \in Nat
  BY <1>1, <1>2, AccountTypes DEF AccountsInv, AccountsTyped, NewIds, Creations, Ids
<1>6. \A v \in confirmed : v.id < c.id /\ v.id \in Nat
  BY <1>1, <1>2, AccountTypes DEF AccountsInv, AccountsTyped, NewIds, UserRows, Ids
<1>7. NewIds'
  BY <1>1, <1>2, <1>3, <1>5, <1>6 DEF AccountsInv, NewIds
<1>8. RowsTold'
  BY <1>2, <1>3 DEF AccountsInv, RowsTold, Told
<1>9. OneAddress' /\ RemovalsStand' /\ RowsStay'
  BY <1>3 DEF AccountsInv, OneAddress, RemovalsStand, RemovalStands, RowsStay, WithId
<1>10. Disturbed' \/ RootStays'
  <2>1. CASE Disturbed
    BY <2>1, <1>3 DEF Disturbed
  <2>2. CASE RootStays /\ op # "start"
    BY <2>2, <1>2, <1>3 DEF RootStays
  <2>3. CASE RootStays /\ op = "start"
    BY <2>3, <1>2, <1>3 DEF RootStays, Disturbed
  <2> QED
    BY <2>1, <2>2, <2>3 DEF AccountsInv
<1> QED
  BY <1>4, <1>7, <1>8, <1>9, <1>10 DEF AccountsInv
\* What the look at the table makes of a call: nothing, or one that is to
\* insert, or a start that has found the superadmin.
FoundFor(c, f) ==
    /\ f \in Creations /\ f.id = c.id /\ f.op = c.op /\ f.email = c.email /\ f.password = c.password
    /\ \/ f.st = "hash" /\ \A u \in users : u.email # c.email
       \/ f.st = "sync" /\ c.op = "start" /\ f.seen \in users /\ f.seen.email = c.email

LEMMA FindUserMakes ==
  ASSUME AccountsInv, NEW c \in creating, FindUser(c)
  PROVE  \/ creating' = creating \ {c} /\ c.op # "start"
         \/ \E f : creating' = (creating \ {c}) \cup {f} /\ FoundFor(c, f)
<1> DEFINE F(u) == [c EXCEPT !.st = IF WithEmail(c.email) = {} THEN "hash" ELSE "sync", !.seen = u]
<1>0. c \in Creations /\ users \subseteq UserRows
  BY AccountTypes DEF AccountsInv, AccountsTyped
<1>1. CASE WithEmail(c.email) = {}
  <2>1. PICK f : f = [c EXCEPT !.st = "hash", !.seen = Nobody]
    OBVIOUS
  <2>2. f \in Creations /\ f.id = c.id /\ f.op = c.op /\ f.email = c.email /\ f.password = c.password
        /\ f.st = "hash"
    BY ONLY <2>1, <1>0 DEF Creations
  <2>3. creating' = (creating \ {c}) \cup {f}
    BY <1>1, <2>1 DEF FindUser
  <2> QED
    BY <2>2, <2>3, <1>1 DEF FoundFor, WithEmail
<1>2. CASE WithEmail(c.email) # {} /\ c.op = "start"
  <2>1. PICK u \in users : u.email = c.email
    BY <1>2 DEF WithEmail
  <2>2. WithEmail(c.email) = {u}
    BY <2>1 DEF AccountsInv, OneAddress, WithEmail
  <2>3. PICK f : f = [c EXCEPT !.st = "sync", !.seen = u]
    OBVIOUS
  <2>4. f \in Creations /\ f.id = c.id /\ f.op = c.op /\ f.email = c.email /\ f.password = c.password
        /\ f.st = "sync" /\ f.seen = u
    BY ONLY <2>1, <2>3, <1>0 DEF Creations
  <2>5. creating' = (creating \ {c}) \cup {f}
    BY <1>2, <2>2, <2>3 DEF FindUser
  <2> QED
    BY <2>1, <2>4, <2>5, <1>2 DEF FoundFor
<1>3. CASE WithEmail(c.email) # {} /\ c.op # "start"
  BY <1>3 DEF FindUser
<1> QED
  BY <1>1, <1>2, <1>3

LEMMA FindUserKeeps ==
  ASSUME AccountsInv, NEW c \in creating, FindUser(c)
  PROVE  AccountsInv'
<1>1. UNCHANGED <<users, removing, belongings, uploading, envPassword, confirmed, asked, raced, late,
                  accountCalls>>
  BY DEF FindUser
<1>2. OneAddress' /\ RemovalsStand' /\ RowsStay' /\ Disturbed' = Disturbed
  BY <1>1 DEF AccountsInv, OneAddress, RemovalsStand, RemovalStands, RowsStay, WithId, Disturbed
<1>3. CASE creating' = creating \ {c} /\ c.op # "start"
  <2>1. AccountsTypeOK'
    BY <1>1, <1>3, AccountTypes DEF AccountsInv, AccountsTyped
  <2>2. NewIds' /\ RowsTold'
    BY <1>1, <1>3 DEF AccountsInv, NewIds, RowsTold, Told
  <2>3. RootStays => RootStays'
    BY <1>1, <1>3 DEF RootStays
  <2> QED
    BY <1>2, <2>1, <2>2, <2>3 DEF AccountsInv
<1>4. ASSUME NEW f, creating' = (creating \ {c}) \cup {f}, FoundFor(c, f)
      PROVE  AccountsInv'
  <2>1. AccountsTypeOK'
    BY <1>1, <1>4, AccountTypes DEF AccountsInv, AccountsTyped, FoundFor
  <2>2. NewIds'
    BY <1>1, <1>4 DEF AccountsInv, NewIds, FoundFor
  <2>3. RowsTold'
    BY <1>1, <1>4 DEF AccountsInv, RowsTold, Told, FoundFor
  <2>4. RootStays => RootStays'
    BY <1>1, <1>4 DEF AccountsInv, RootStays, FoundFor, RowsTold
  <2> QED
    BY <1>2, <2>1, <2>2, <2>3, <2>4 DEF AccountsInv
<1> QED
  BY <1>3, <1>4, FindUserMakes

\* A row that was inserted is one that its caller is told of.
LEMMA CreateUserKeeps ==
  ASSUME AccountsInv, NEW c \in creating, CreateUser(c)
  PROVE  AccountsInv'
<1> DEFINE u == [id |-> c.id, email |-> c.email, password |-> c.password, isActive |-> TRUE]
<1>0. c \in Creations
  BY AccountTypes DEF AccountsInv, AccountsTyped
<1>1. u \in UserRows /\ u.id = c.id /\ u.email = c.email /\ u.password = c.password /\ u.isActive
  BY <1>0 DEF Creations, UserRows
<1>2. /\ creating' = creating \ {c} /\ c.st = "hash"
      /\ UNCHANGED <<removing, belongings, uploading, envPassword, asked, raced, late, accountCalls>>
      /\ \/ (\A v \in users : v.email # c.email) /\ users' = users \cup {u} /\ confirmed' = confirmed \cup {u}
         \/ (\E v \in users : v.email = c.email) /\ UNCHANGED <<users, confirmed>>
  <2>1. WithEmail(c.email) = {} <=> \A v \in users : v.email # c.email
    BY DEF WithEmail
  <2> QED
    BY <2>1 DEF CreateUser, Insertable
<1> HIDE DEF u
<1>3. CASE UNCHANGED <<users, confirmed>> /\ \E v \in users : v.email = c.email
  <2>1. AccountsTypeOK'
    BY <1>2, <1>3, AccountTypes DEF AccountsInv, AccountsTyped
  <2>2. NewIds' /\ RowsTold'
    BY <1>2, <1>3 DEF AccountsInv, NewIds, RowsTold, Told
  <2>3. OneAddress' /\ RemovalsStand' /\ RowsStay' /\ Disturbed' = Disturbed
    BY <1>2, <1>3 DEF AccountsInv, OneAddress, RemovalsStand, RemovalStands, RowsStay, WithId, Disturbed
  <2>4. RootStays => RootStays'
    BY <1>2, <1>3 DEF AccountsInv, RootStays, RowsTold
  <2> QED
    BY <2>1, <2>2, <2>3, <2>4 DEF AccountsInv
<1>4. CASE users' = users \cup {u} /\ confirmed' = confirmed \cup {u} /\ \A v \in users : v.email # c.email
  <2>1. AccountsTypeOK'
    BY <1>1, <1>2, <1>4, AccountTypes DEF AccountsInv, AccountsTyped
  <2>2. NewIds'
    BY <1>1, <1>2, <1>4 DEF AccountsInv, NewIds
  <2>3. OneAddress'
    BY <1>1, <1>4 DEF AccountsInv, OneAddress
  <2>4. RowsTold'
    BY <1>1, <1>2, <1>4 DEF AccountsInv, RowsTold, Told, NewIds
  <2>5. RemovalsStand'
    BY <1>1, <1>2, <1>4 DEF AccountsInv, RemovalsStand, RemovalStands
  <2>6. RowsStay'
    BY <1>1, <1>2, <1>4 DEF AccountsInv, RowsStay, WithId
  <2>7. Disturbed => Disturbed'
    BY <1>2, <1>4 DEF Disturbed
  <2>8. RootStays => RootStays'
    BY <1>1, <1>2, <1>4 DEF AccountsInv, RootStays, RowsTold
  <2> QED
    BY <2>1, <2>2, <2>3, <2>4, <2>5, <2>6, <2>7, <2>8 DEF AccountsInv
<1> QED
  BY <1>2, <1>3, <1>4

\* The superadmin as an instance found it, with the password of its time.
LEMMA SyncPasswordKeeps ==
  ASSUME AccountsInv, NEW c \in creating, SyncPassword(c)
  PROVE  AccountsInv'
<1> DEFINE rest == users \ WithId(c.seen.id)
<1>0. /\ c \in Creations /\ c.st = "sync" /\ c.op = "start" /\ c.seen \in UserRows /\ c.seen.email = Root
      /\ Told(c.seen)
  <2>1. c \in Creations /\ c.st = "sync"
    BY AccountTypes DEF AccountsInv, AccountsTyped, SyncPassword
  <2>2. c.op = "start" /\ c.seen.email = Root /\ Told(c.seen)
    BY <2>1 DEF AccountsInv, RowsTold
  <2>3. c.seen # Nobody
    <3>1. Nobody.email = Normal /\ Normal # Root
      BY AccountAssumption, RootAssumption DEF Nobody
    <3> QED
      BY <2>2, <3>1
  <2> QED
    BY <2>1, <2>2, <2>3 DEF Creations
<1>1. PICK s : s = Synced(c)
  OBVIOUS
<1>2. s \in UserRows /\ s.id = c.seen.id /\ s.email = Root /\ s.password = c.password
      /\ s.isActive = c.seen.isActive
  <2>1. s = [c.seen EXCEPT !.password = c.password] /\ c.password \in Passwords
    BY <1>0, <1>1 DEF Synced, Creations
  <2> QED
    BY ONLY <2>1, <1>0 DEF UserRows
<1>3. /\ creating' = creating \ {c}
      /\ UNCHANGED <<removing, belongings, uploading, envPassword, confirmed, asked, raced, late,
                     accountCalls>>
      /\ \/ (\E u \in rest : u.email = Root) /\ users' = users
         \/ (\A u \in rest : u.email # Root) /\ users' = rest \cup {s}
  BY <1>0, <1>1 DEF SyncPassword
<1>4. \A u \in rest : u \in users /\ u.id # s.id
  BY <1>2 DEF WithId
<1>5. \A u \in users : u \in rest \/ u.id = s.id
  BY <1>2 DEF WithId
<1>6. \A v \in confirmed : v.id = s.id => v.email = Root
  BY <1>0, <1>2 DEF AccountsInv, RowsTold, Told
<1>7. Told(s)
  BY <1>0, <1>2 DEF Told
<1> HIDE DEF rest
<1>8. NewIds'
  BY <1>3 DEF AccountsInv, NewIds
<1>9. AccountsTypeOK'
  BY <1>2, <1>3, <1>4, AccountTypes DEF AccountsInv, AccountsTyped
<1>10. Disturbed' = Disturbed
  BY <1>3 DEF Disturbed
<1>11. \A id : (\E u \in users : u.id = id) => \E u \in users' : u.id = id
  BY <1>3, <1>5
<1>12. OneAddress'
  BY <1>2, <1>3, <1>4 DEF AccountsInv, OneAddress
<1>13. RowsTold'
  <2>1. \A u \in users' : u \in users \/ u = s
    BY <1>3, <1>4
  <2> QED
    BY <2>1, <1>3, <1>7 DEF AccountsInv, RowsTold, Told
<1>14. RemovalsStand'
  <2>1. \A u \in users : \E v \in users' : v.id = u.id /\ v.email = u.email
    <3>1. \A u \in users : u.id = s.id => u.email = Root
      BY <1>6 DEF AccountsInv, RowsTold, Told
    <3> QED
      BY <3>1, <1>2, <1>3, <1>5
  <2> QED
    BY <2>1, <1>3 DEF AccountsInv, RemovalsStand, RemovalStands
<1>15. RowsStay'
  <2>1. \A u \in users : u.email = Normal => u \in users'
    <3>1. Normal # Root
      BY AccountAssumption, RootAssumption
    <3>2. \A u \in users : u.id = s.id => u.email = Root
      BY <1>6 DEF AccountsInv, RowsTold, Told
    <3> QED
      BY <3>1, <3>2, <1>3, <1>5
  <2>2. \A id : WithId(id)' = {} => WithId(id) = {}
    BY <1>11 DEF WithId
  <2> QED
    BY <2>1, <2>2, <1>3 DEF AccountsInv, RowsStay
<1>16. RootStays => RootStays'
  <2> SUFFICES ASSUME RootStays PROVE RootStays'
    OBVIOUS
  <2>1. c.seen \in users /\ c.password = envPassword /\ c.seen.isActive
    BY <1>0 DEF RootStays
  <2>2. \A u \in rest : u.email # Root
    BY <2>1, <1>0, <1>2, <1>4 DEF AccountsInv, OneAddress
  <2>3. users' = rest \cup {s}
    BY <2>2, <1>3
  <2>4. \A d \in creating' : d.op # "start"
    BY <1>0, <1>3 DEF RootStays
  <2> QED
    BY <2>1, <2>2, <2>3, <2>4, <1>2, <1>3 DEF RootStays
<1> QED
  BY <1>8, <1>9, <1>10, <1>12, <1>13, <1>14, <1>15, <1>16 DEF AccountsInv

-----------------------------------------------------------------------------
(* Accounts deleted.                                                       *)
\* What leaves the rows and the calls that make them as they are.
LEMMA RowsUntouched ==
  ASSUME AccountsInv, UNCHANGED <<users, creating, envPassword, confirmed, raced, accountCalls>>,
         asked \subseteq asked'
  PROVE  /\ NewIds' /\ OneAddress' /\ RowsTold' /\ (Disturbed' \/ RootStays')
<1>1. NewIds' /\ OneAddress' /\ RowsTold'
  BY DEF AccountsInv, NewIds, OneAddress, RowsTold, Told
<1>2. (Disturbed => Disturbed') /\ (RootStays => RootStays')
  BY DEF Disturbed, RootStays
<1> QED
  BY <1>1, <1>2 DEF AccountsInv

LEMMA BelongingsKeep ==
  ASSUME AccountsInv,
         \/ \E u \in users : UploadAvatar(u) \/ UpdateStorage(u)
         \/ \E id \in uploading : AvatarStored(id)
  PROVE  AccountsInv'
<1>0. UNCHANGED <<users, creating, removing, envPassword, confirmed, raced, accountCalls, asked>>
  BY DEF UploadAvatar, UpdateStorage, AvatarStored
<1>1. users \subseteq UserRows
  BY AccountTypes DEF AccountsInv, AccountsTyped
<1>2. ASSUME NEW u \in users, UploadAvatar(u)
      PROVE  AccountsTypeOK' /\ RemovalsStand' /\ RowsStay'
  <2>1. u.id \in Ids /\ WithId(u.id) # {}
    BY <1>1 DEF UserRows, WithId
  <2>2. AccountsTypeOK'
    BY <1>2, <2>1, AccountTypes DEF AccountsInv, AccountsTyped, UploadAvatar
  <2>3. RemovalsStand' /\ RowsStay'
    BY <1>2, <2>1 DEF AccountsInv, RemovalsStand, RemovalStands, RowsStay, WithId, UploadAvatar
  <2> QED
    BY <2>2, <2>3
<1>3. ASSUME NEW u \in users, UpdateStorage(u)
      PROVE  AccountsTypeOK' /\ RemovalsStand' /\ RowsStay'
  <2>1. u.id \in Ids /\ WithId(u.id) # {}
    BY <1>1 DEF UserRows, WithId
  <2>2. AccountsTypeOK'
    BY <1>3, <2>1, AccountTypes DEF AccountsInv, AccountsTyped, UpdateStorage
  <2>3. RemovalsStand' /\ RowsStay'
    BY <1>3, <2>1 DEF AccountsInv, RemovalsStand, RemovalStands, RowsStay, WithId, UpdateStorage
  <2> QED
    BY <2>2, <2>3
<1>4. ASSUME NEW id \in uploading, AvatarStored(id)
      PROVE  AccountsTypeOK' /\ RemovalsStand' /\ RowsStay'
  <2>1. AccountsTypeOK'
    BY <1>4, AccountTypes DEF AccountsInv, AccountsTyped, AvatarStored
  <2>2. RemovalsStand'
    BY <1>4 DEF AccountsInv, RemovalsStand, RemovalStands, AvatarStored
  <2>3. RowsStay'
    BY <1>4 DEF AccountsInv, RowsStay, WithId, AvatarStored
  <2> QED
    BY <2>1, <2>2, <2>3
<1>5. NewIds' /\ OneAddress' /\ RowsTold' /\ (Disturbed' \/ RootStays')
  BY <1>0, RowsUntouched
<1> QED
  BY <1>2, <1>3, <1>4, <1>5 DEF AccountsInv

LEMMA DeleteAccountKeeps ==
  ASSUME AccountsInv, NEW u \in users, DeleteAccount(u)
  PROVE  AccountsInv'
<1> DEFINE r == [id |-> u.id, st |-> "avatar", seen |-> u]
<1>1. u \in UserRows
  BY AccountTypes DEF AccountsInv, AccountsTyped
<1>2. r \in Removals /\ r.id = u.id /\ r.st = "avatar" /\ r.seen = u /\ u.id \in Ids
  BY <1>1 DEF Removals, UserRows
<1>3. /\ removing' = removing \cup {r} /\ asked' = asked \cup {u.id}
      /\ \A q \in removing : q.id # u.id
      /\ UNCHANGED <<users, creating, belongings, uploading, envPassword, confirmed, raced, late,
                     accountCalls>>
  BY DEF DeleteAccount
<1> HIDE DEF r
<1>4. AccountsTypeOK'
  BY <1>2, <1>3, AccountTypes DEF AccountsInv, AccountsTyped
<1>5. RemovalsStand'
  BY <1>2, <1>3 DEF AccountsInv, RemovalsStand, RemovalStands
<1>6. RowsStay'
  BY <1>3 DEF AccountsInv, RowsStay, WithId
<1>7. NewIds' /\ OneAddress' /\ RowsTold' /\ (Disturbed' \/ RootStays')
  BY <1>3, RowsUntouched
<1> QED
  BY <1>4, <1>5, <1>6, <1>7 DEF AccountsInv

\* A deletion that goes on: what is deleted of the belongings is its own.
LEMMA DeleteBelongingKeeps ==
  ASSUME AccountsInv, NEW r \in removing, DeleteBelonging(r)
  PROVE  AccountsInv'
<1>0. r \in Removals
  BY AccountTypes DEF AccountsInv, AccountsTyped
<1>1. PICK st \in {"storage", "find"} : Goes(r, st) /\ (r.st = "avatar" \/ r.st = "storage")
  BY DEF DeleteBelonging
<1>2. PICK n : n = [r EXCEPT !.st = st]
  OBVIOUS
<1>3. n \in Removals /\ n.id = r.id /\ n.st = st /\ n.seen = r.seen
  BY ONLY <1>0, <1>2, st \in {"storage", "find"} DEF Removals
<1>4. /\ removing' = (removing \ {r}) \cup {n} /\ belongings' = belongings \ {<<r.id, r.st>>}
      /\ UNCHANGED <<users, creating, uploading, envPassword, confirmed, asked, raced, late, accountCalls>>
  BY <1>1, <1>2 DEF DeleteBelonging, Goes
<1>5. AccountsTypeOK'
  BY <1>3, <1>4, AccountTypes DEF AccountsInv, AccountsTyped
<1>6. RemovalsStand'
  BY <1>1, <1>3, <1>4 DEF AccountsInv, RemovalsStand, RemovalStands
<1>7. RowsStay'
  BY <1>4 DEF AccountsInv, RowsStay, WithId
<1>8. NewIds' /\ OneAddress' /\ RowsTold' /\ (Disturbed' \/ RootStays')
  BY <1>4, RowsUntouched
<1> QED
  BY <1>5, <1>6, <1>7, <1>8 DEF AccountsInv

LEMMA FindDeletedKeeps ==
  ASSUME AccountsInv, NEW r \in removing, FindDeleted(r)
  PROVE  AccountsInv'
<1>0. r \in Removals /\ users \subseteq UserRows
  BY AccountTypes DEF AccountsInv, AccountsTyped
<1>1. UNCHANGED <<users, creating, belongings, uploading, envPassword, confirmed, asked, raced, late,
                  accountCalls>>
  BY DEF FindDeleted
<1>2. RowsStay'
  BY <1>1 DEF AccountsInv, RowsStay, WithId
<1>3. NewIds' /\ OneAddress' /\ RowsTold' /\ (Disturbed' \/ RootStays')
  BY <1>1, RowsUntouched
<1>4. CASE WithId(r.id) = {}
  <2>1. removing' = removing \ {r}
    BY <1>4 DEF FindDeleted
  <2>2. AccountsTypeOK' /\ RemovalsStand'
    BY <1>1, <2>1, AccountTypes DEF AccountsInv, AccountsTyped, RemovalsStand, RemovalStands
  <2> QED
    BY <1>2, <1>3, <2>2 DEF AccountsInv
<1>5. ASSUME NEW u \in WithId(r.id) PROVE AccountsInv'
  <2>1. WithId(r.id) = {u}
    BY <1>5 DEF AccountsInv, OneAddress, RowsTold, Told, WithId
  <2>2. PICK n : n = [r EXCEPT !.st = "decide", !.seen = u]
    OBVIOUS
  <2>3. u \in users /\ u.id = r.id
    BY <1>5 DEF WithId
  <2>4. n \in Removals /\ n.id = r.id /\ n.st = "decide" /\ n.seen = u
    BY ONLY <1>0, <2>2, <2>3 DEF Removals
  <2>5. removing' = (removing \ {r}) \cup {n} /\ r.st = "find"
    BY <2>1, <2>2 DEF FindDeleted
  <2>6. AccountsTypeOK'
    BY <1>1, <2>4, <2>5, AccountTypes DEF AccountsInv, AccountsTyped
  <2>7. RemovalsStand'
    BY <1>1, <2>3, <2>4, <2>5 DEF AccountsInv, RemovalsStand, RemovalStands
  <2> QED
    BY <1>2, <1>3, <2>6, <2>7 DEF AccountsInv
<1> QED
  BY <1>4, <1>5

\* The row it decides about is still there, under its address.
LEMMA DecideKeeps ==
  ASSUME AccountsInv, NEW r \in removing, NEW onlyOwner \in BOOLEAN, Decide(r, onlyOwner)
  PROVE  AccountsInv'
<1> DEFINE rest == users \ WithId(r.id)
<1>0. r \in Removals /\ r.st = "decide" /\ r.id \in asked /\ r.seen.id = r.id
  BY AccountTypes DEF AccountsInv, AccountsTyped, RemovalsStand, RemovalStands, Decide
<1>1. PICK found \in users : found.id = r.id /\ found.email = r.seen.email
  BY <1>0 DEF AccountsInv, RemovalsStand, RemovalStands
<1>2. PICK s : s = [r.seen EXCEPT !.isActive = FALSE]
  OBVIOUS
<1>3. s \in UserRows /\ s.id = r.id /\ s.email = found.email
  <2>1. r.seen \in UserRows
    BY <1>0 DEF Removals
  <2> QED
    BY ONLY <2>1, <1>0, <1>1, <1>2 DEF UserRows
<1>4. /\ removing' = removing \ {r}
      /\ UNCHANGED <<creating, uploading, envPassword, confirmed, asked, raced, accountCalls>>
      /\ late' = IF r.id \in uploading THEN late \cup {r.id} ELSE late
      /\ \/ onlyOwner /\ users' = rest \cup {s} /\ belongings' = belongings
         \/ ~onlyOwner /\ users' = rest /\ belongings' = belongings \ {<<r.id, "storage">>}
  BY <1>2 DEF Decide
<1>5. \A u \in rest : u \in users /\ u.id # r.id
  BY DEF WithId
<1>6. \A u \in users : u \in rest \/ u.id = r.id
  BY DEF WithId
<1> HIDE DEF rest
<1>7. AccountsTypeOK'
  BY <1>3, <1>4, <1>5, AccountTypes DEF AccountsInv, AccountsTyped
<1>8. NewIds'
  BY <1>4 DEF AccountsInv, NewIds
<1>9. OneAddress'
  BY <1>1, <1>3, <1>4, <1>5 DEF AccountsInv, OneAddress
<1>10. RowsTold'
  <2>1. Told(s)
    BY <1>1, <1>3 DEF AccountsInv, RowsTold, Told
  <2>2. \A u \in users' : u \in users \/ u = s
    BY <1>4, <1>5
  <2> QED
    BY <2>1, <2>2, <1>4 DEF AccountsInv, RowsTold, Told
<1>11. RemovalsStand'
  <2>1. \A q \in removing' : q \in removing /\ q.id # r.id
    BY <1>4 DEF AccountsInv, RemovalsStand, RemovalStands
  <2>2. \A u \in users : u.id # r.id => u \in users'
    BY <1>4, <1>6
  <2>3. late \subseteq late' /\ belongings' \subseteq belongings /\ asked' = asked
    BY <1>4
  <2> QED
    BY <2>1, <2>2, <2>3 DEF AccountsInv, RemovalsStand, RemovalStands
<1>12. RowsStay'
  <2>1. \A u \in users : u.id # r.id => u \in users'
    BY <1>4, <1>6
  <2>2. \A id : id # r.id /\ WithId(id)' = {} => WithId(id) = {}
    BY <2>1 DEF WithId
  <2>3. \A u \in confirmed' : u.id \notin asked' => WithId(u.id)' # {} /\ u.isActive /\ (u.email = Normal => u \in users')
    BY <2>1, <2>2, <1>0, <1>4 DEF AccountsInv, RowsStay
  <2>4. \A id \in uploading' : id \in asked' \/ WithId(id)' # {}
    BY <2>2, <1>0, <1>4 DEF AccountsInv, RowsStay
  <2>5. ASSUME NEW id \in Ids, WithId(id)' = {}, id \notin late' \cup uploading', NEW t \in belongings'
        PROVE  t[1] # id
    <3>1. CASE id # r.id
      BY <3>1, <2>2, <2>5, <1>4 DEF AccountsInv, RowsStay
    <3>2. CASE id = r.id
      <4>1. ~onlyOwner /\ id \notin late
        BY <3>2, <2>5, <1>3, <1>4 DEF WithId
      <4>2. <<id, "avatar">> \notin belongings
        BY <4>1, <3>2, <1>0 DEF AccountsInv, RemovalsStand, RemovalStands
      <4>3. t \in belongings /\ t # <<id, "storage">> /\ t \in Ids \X {"avatar", "storage"}
        BY <4>1, <3>2, <1>4, AccountTypes DEF AccountsInv, AccountsTyped
      <4> QED
        BY <4>2, <4>3
    <3> QED
      BY <3>1, <3>2
  <2> QED
    BY <2>3, <2>4, <2>5 DEF RowsStay
<1>13. Disturbed => Disturbed'
  BY <1>4 DEF Disturbed
\* The superadmin's row is not the one, unless his deletion was asked.
<1>14. ~Disturbed => found.email # Root
  BY <1>0, <1>1 DEF Disturbed, AccountsInv, RowsTold, Told
<1>15. ~Disturbed => RootStays'
  <2> SUFFICES ASSUME ~Disturbed PROVE RootStays'
    OBVIOUS
  <2>1. RootStays /\ found.email # Root
    BY <1>14 DEF AccountsInv
  <2>2. \A u \in users : u.email = Root => u.id # r.id
    BY <2>1, <1>0 DEF Disturbed, AccountsInv, RowsTold, Told
  <2>3. \A u : u.email = Root => (u \in users <=> u \in users')
    BY <2>1, <2>2, <1>3, <1>4, <1>5, <1>6
  <2>4. \A d \in creating : d.op = "start" /\ d.st = "sync" => d.seen.email = Root
    BY DEF AccountsInv, RowsTold
  <2> QED
    BY <2>1, <2>3, <2>4, <1>4 DEF RootStays
<1> QED
  BY <1>7, <1>8, <1>9, <1>10, <1>11, <1>12, <1>13, <1>15 DEF AccountsInv

-----------------------------------------------------------------------------
LEMMA AccountsStepKeeps == AccountsInv /\ [AccountsNext]_accountVars => AccountsInv'
<1> SUFFICES ASSUME AccountsInv, [AccountsNext]_accountVars PROVE AccountsInv'
  OBVIOUS
<1>1. CASE UNCHANGED accountVars
  BY <1>1 DEF accountVars, AccountsInv, AccountsTypeOK, NewIds, OneAddress, RowsTold, Told, RemovalsStand,
      RemovalStands, RowsStay, WithId, Disturbed, RootStays
<1>2. envPassword \in Passwords /\ raced \in BOOLEAN
  BY AccountTypes DEF AccountsInv, AccountsTyped
<1>3. ASSUME NEW password \in Passwords, NEW email \in Spellings, Register(email, password)
      PROVE  AccountsInv'
  <2>1. email \in Emails /\ email # Root
    BY RootAssumption DEF Emails
  <2> QED
    BY <1>2, <1>3, <2>1, BeginKeeps DEF Register
<1>4. ASSUME NEW password \in Passwords, CreateUserOnly(password) PROVE AccountsInv'
  <2>1. Normal \in Emails /\ Normal # Root
    BY AccountAssumption, RootAssumption DEF Emails
  <2> QED
    BY <1>2, <1>4, <2>1, BeginKeeps DEF CreateUserOnly
<1>5. ASSUME NEW password \in Passwords, OnModuleInit(password) PROVE AccountsInv'
  <2>1. Root \in Emails
    BY DEF Emails
  <2>2. raced' \in BOOLEAN /\ (raced => raced') /\ ((\E c \in creating : c.op = "start") => raced')
        /\ envPassword' = password
    BY <1>2, <1>5 DEF OnModuleInit
  <2>3. Begin("start", Root, password)
    BY <1>5 DEF OnModuleInit
  <2> QED
    BY <2>1, <2>2, <2>3, BeginKeeps
<1> QED
  BY <1>1, <1>3, <1>4, <1>5, FindUserKeeps, CreateUserKeeps, SyncPasswordKeeps, BelongingsKeep,
     DeleteAccountKeeps, DeleteBelongingKeeps, FindDeletedKeeps, DecideKeeps DEF AccountsNext
LEMMA AccountsInvKeeps == AccountsInv => AccountsAreKept
<1> SUFFICES ASSUME AccountsInv PROVE AccountsAreKept
  OBVIOUS
<1>0. confirmed \subseteq UserRows
  BY AccountTypes DEF AccountsInv, AccountsTyped
<1>1. RegisteredStays
  <2> SUFFICES ASSUME NEW u \in confirmed, u.email = Normal, u.id \notin asked
               PROVE  LogsIn(u.email, u.password)
    BY DEF RegisteredStays
  <2>1. u \in users /\ u.isActive
    BY DEF AccountsInv, RowsStay
  <2>2. Normalized(u.email) = u.email
    BY AccountAssumption DEF Normalized
  <2>3. WithEmail(u.email) = {u}
    BY <2>1 DEF AccountsInv, OneAddress, WithEmail
  <2> QED
    BY <2>1, <2>2, <2>3 DEF LogsIn
<1>2. RestartSetsPassword
  <2> SUFFICES ASSUME \E u \in users : u.email = Root, ~Disturbed, \A c \in creating : c.op # "start"
               PROVE  LogsIn(Root, envPassword)
    BY DEF RestartSetsPassword, Disturbed
  <2>1. Normalized(Root) = Root
    BY RootAssumption DEF Normalized
  <2>2. WithEmail(Root) # {} /\ \A u \in WithEmail(Root) : u.isActive /\ u.password = envPassword
    BY DEF AccountsInv, RootStays, WithEmail
  <2> QED
    BY <2>1, <2>2 DEF LogsIn
<1>3. GoneLeavesNothing
  <2>1. \A u \in confirmed : u.id \in Ids
    BY <1>0 DEF UserRows
  <2> QED
    BY <2>1 DEF GoneLeavesNothing, AccountsInv, RowsStay
<1> QED
  BY <1>1, <1>2, <1>3 DEF AccountsAreKept

-----------------------------------------------------------------------------
(* All of them.  Whatever is shown, each takes its own steps or none.      *)
LEMMA ScenesBegin ==
  ScenesInit =>
    /\ SpeechInit /\ VoiceInit /\ PreviewInit /\ PdfInit /\ FileListInit /\ UploadInit /\ PageInit /\ HeadInit
    /\ OnboardingInit /\ AccountsInit /\ ClientAccountInit /\ WorksInit /\ MembersInit /\ SettingsInit /\ EditorInit
BY DEF ScenesInit

LEMMA ScenesMove ==
  [ScenesNext]_AllVars =>
    /\ [SpeechNext]_speechVars
    /\ [VoiceNext]_voiceVars
    /\ [PreviewNext]_previewVars
    /\ [PdfNext]_pdfVars
    /\ [FileListNext]_fileListVars
    /\ [UploadNext]_uploadVars
    /\ [PageNext]_pageVars
    /\ [HeadNext \/ ReviewTabNext]_onePageVars
    /\ [OnboardingNext]_onboardingVars
    /\ [AccountsNext]_accountVars
    /\ [ClientAccountNext]_clientAccountVars
    /\ [WorksNext]_workVars
    /\ [MembersNext]_membersVars
    /\ [SettingsNext]_settingsVars
    /\ [EditorNext]_editorVars
<1> SUFFICES ASSUME [ScenesNext]_AllVars
             PROVE  /\ [SpeechNext]_speechVars
                    /\ [VoiceNext]_voiceVars
                    /\ [PreviewNext]_previewVars
                    /\ [PdfNext]_pdfVars
                    /\ [FileListNext]_fileListVars
                    /\ [UploadNext]_uploadVars
                    /\ [PageNext]_pageVars
                    /\ [HeadNext \/ ReviewTabNext]_onePageVars
                    /\ [OnboardingNext]_onboardingVars
                    /\ [AccountsNext]_accountVars
                    /\ [ClientAccountNext]_clientAccountVars
                    /\ [WorksNext]_workVars
                    /\ [MembersNext]_membersVars
                    /\ [SettingsNext]_settingsVars
                    /\ [EditorNext]_editorVars
  OBVIOUS
<1>1. [SpeechNext]_speechVars
  BY DEF ScenesNext, AllVars, BesideSpeech, BesideVoice, BesidePreview, BesidePdf, BesideFiles,
      BesideUpload, BesideDocuments, BesideHead, BesideOnboarding, BesideAccounts, BesideTab,
      BesideWorkspaces, BesideMembers, BesideSettings, BesidePrompts
<1>2. [VoiceNext]_voiceVars
  BY DEF ScenesNext, AllVars, BesideSpeech, BesideVoice, BesidePreview, BesidePdf, BesideFiles,
      BesideUpload, BesideDocuments, BesideHead, BesideOnboarding, BesideAccounts, BesideTab,
      BesideWorkspaces, BesideMembers, BesideSettings, BesidePrompts
<1>3. [PreviewNext]_previewVars
  BY DEF ScenesNext, AllVars, BesideSpeech, BesideVoice, BesidePreview, BesidePdf, BesideFiles,
      BesideUpload, BesideDocuments, BesideHead, BesideOnboarding, BesideAccounts, BesideTab,
      BesideWorkspaces, BesideMembers, BesideSettings, BesidePrompts
<1>4. [PdfNext]_pdfVars
  BY DEF ScenesNext, AllVars, BesideSpeech, BesideVoice, BesidePreview, BesidePdf, BesideFiles,
      BesideUpload, BesideDocuments, BesideHead, BesideOnboarding, BesideAccounts, BesideTab,
      BesideWorkspaces, BesideMembers, BesideSettings, BesidePrompts
<1>5. [FileListNext]_fileListVars
  BY DEF ScenesNext, AllVars, BesideSpeech, BesideVoice, BesidePreview, BesidePdf, BesideFiles,
      BesideUpload, BesideDocuments, BesideHead, BesideOnboarding, BesideAccounts, BesideTab,
      BesideWorkspaces, BesideMembers, BesideSettings, BesidePrompts
<1>6. [UploadNext]_uploadVars
  BY DEF ScenesNext, AllVars, BesideSpeech, BesideVoice, BesidePreview, BesidePdf, BesideFiles,
      BesideUpload, BesideDocuments, BesideHead, BesideOnboarding, BesideAccounts, BesideTab,
      BesideWorkspaces, BesideMembers, BesideSettings, BesidePrompts
<1>7. [PageNext]_pageVars
  BY DEF ScenesNext, AllVars, BesideSpeech, BesideVoice, BesidePreview, BesidePdf, BesideFiles,
      BesideUpload, BesideDocuments, BesideHead, BesideOnboarding, BesideAccounts, BesideTab,
      BesideWorkspaces, BesideMembers, BesideSettings, BesidePrompts
<1>8. [HeadNext \/ ReviewTabNext]_onePageVars
  BY DEF ScenesNext, AllVars, BesideSpeech, BesideVoice, BesidePreview, BesidePdf, BesideFiles,
      BesideUpload, BesideDocuments, BesideHead, BesideOnboarding, BesideAccounts, BesideTab,
      BesideWorkspaces, BesideMembers, BesideSettings, BesidePrompts
<1>9. [OnboardingNext]_onboardingVars
  BY DEF ScenesNext, AllVars, BesideSpeech, BesideVoice, BesidePreview, BesidePdf, BesideFiles,
      BesideUpload, BesideDocuments, BesideHead, BesideOnboarding, BesideAccounts, BesideTab,
      BesideWorkspaces, BesideMembers, BesideSettings, BesidePrompts
<1>10. [AccountsNext]_accountVars
  BY DEF ScenesNext, AllVars, BesideSpeech, BesideVoice, BesidePreview, BesidePdf, BesideFiles,
      BesideUpload, BesideDocuments, BesideHead, BesideOnboarding, BesideAccounts, BesideTab,
      BesideWorkspaces, BesideMembers, BesideSettings, BesidePrompts
<1>11. [ClientAccountNext]_clientAccountVars
  BY DEF ScenesNext, AllVars, BesideSpeech, BesideVoice, BesidePreview, BesidePdf, BesideFiles,
      BesideUpload, BesideDocuments, BesideHead, BesideOnboarding, BesideAccounts, BesideTab,
      BesideWorkspaces, BesideMembers, BesideSettings, BesidePrompts
<1>12. [WorksNext]_workVars
  BY DEF ScenesNext, AllVars, BesideSpeech, BesideVoice, BesidePreview, BesidePdf, BesideFiles,
      BesideUpload, BesideDocuments, BesideHead, BesideOnboarding, BesideAccounts, BesideTab,
      BesideWorkspaces, BesideMembers, BesideSettings, BesidePrompts
<1>13. [MembersNext]_membersVars
  BY DEF ScenesNext, AllVars, BesideSpeech, BesideVoice, BesidePreview, BesidePdf, BesideFiles,
      BesideUpload, BesideDocuments, BesideHead, BesideOnboarding, BesideAccounts, BesideTab,
      BesideWorkspaces, BesideMembers, BesideSettings, BesidePrompts
<1>14. [SettingsNext]_settingsVars
  BY DEF ScenesNext, AllVars, BesideSpeech, BesideVoice, BesidePreview, BesidePdf, BesideFiles,
      BesideUpload, BesideDocuments, BesideHead, BesideOnboarding, BesideAccounts, BesideTab,
      BesideWorkspaces, BesideMembers, BesideSettings, BesidePrompts
<1>15. [EditorNext]_editorVars
  BY DEF ScenesNext, AllVars, BesideSpeech, BesideVoice, BesidePreview, BesidePdf, BesideFiles,
      BesideUpload, BesideDocuments, BesideHead, BesideOnboarding, BesideAccounts, BesideTab,
      BesideWorkspaces, BesideMembers, BesideSettings, BesidePrompts
<1> QED
  BY <1>1, <1>2, <1>3, <1>4, <1>5, <1>6, <1>7, <1>8, <1>9, <1>10, <1>11, <1>12, <1>13, <1>14, <1>15

\* The inductive invariant: each component's own.
ScenesInv ==
    /\ SpeechInv /\ VoiceInv /\ ViewerInv /\ PdfInv /\ FilesInv /\ UploadInv /\ SelectedInv /\ PageInv /\ OneInv
    /\ OnboardingInv /\ AccountsInv /\ TabInv /\ WorksInv /\ MembersInv /\ SettingsInv /\ EditorInv

LEMMA ScenesInitial == ScenesInit => ScenesInv
BY ScenesBegin, SpeechInitial, VoiceInitial, ViewerInitial, PdfInitial, FilesInitial, UploadInitial, SelectedInitial,
   PageInitial, OneInitial, OnboardingInitial, AccountsInitial, TabInitial, WorksInitial, MembersInitial,
   SettingsInitial, EditorInitial DEF ScenesInv

LEMMA ScenesStep == ScenesInv /\ [ScenesNext]_AllVars => ScenesInv'
BY ScenesMove, SpeechStep, VoiceStep, ViewerStep, PdfStep, FilesStep, UploadStep, SelectedStep, PageStep, OneStep,
   OnboardingStep, AccountsStepKeeps, TabStep, WorksStep, MembersStep, SettingsStep, EditorChanges DEF ScenesInv

LEMMA ScenesKept == ScenesSpec => []ScenesInv
BY ScenesInitial, ScenesStep, PTL DEF ScenesSpec

(* Every page, dialog and tab, and the accounts, keep the types of their   *)
(* state, whatever of the users' presses, answers and failures meet.       *)
THEOREM PagesTyped == ScenesSpec => []PagesTypeOK
<1>1. ScenesInv => PagesTypeOK
  BY VoiceTypes, ViewerTypes, PdfInvShows, FilesInvShows, UploadTypesHold, PageInvShows, OneInvShows, OnboardingInvShows,
     TabTypes, WorksTypes, MembersInvShows, SettingsInvShows, EditorInvShows
     DEF ScenesInv, PagesTypeOK, SpeechInv, VoiceInv, ViewerInv, AccountsInv, TabInv, WorksInv
<1> QED
  BY <1>1, ScenesKept, PTL

(* With nothing under way the table of files, the cards, a document's head *)
(* and review, the members, settings and prompts, the user and his choice  *)
(* are what the server holds, for any number of calls that overlap but     *)
(* those PagesShowTheServer names.                                         *)
THEOREM PagesShow == ScenesSpec => []PagesShowTheServer
<1>1. ScenesInv => PagesShowTheServer
  BY FilesInvShows, PageInvShows, OneInvShows, MembersInvShows, SettingsInvShows, EditorInvShows
     DEF ScenesInv, PagesShowTheServer, WorksInv, TabInv, TabParts
<1> QED
  BY <1>1, ScenesKept, PTL

(* The sound that plays, the microphone and the URLs of avatars and logos  *)
(* that a page holds are alive and within its reach: none is revoked,      *)
(* ended or left playing behind the page's back.                           *)
THEOREM HandlesAlive == ScenesSpec => []HandlesAreAlive
<1>1. ScenesInv => HandlesAreAlive
  BY DEF ScenesInv, HandlesAreAlive, SpeechInv, VoiceInv, TabInv, TabParts, WorksInv
<1> QED
  BY <1>1, ScenesKept, PTL

(* A late answer, be it the text of a file, a page of a PDF, a generated   *)
(* prompt, a member or an upload, is shown for what was asked, however     *)
(* many others were asked since.                                           *)
THEOREM AnswersFit == ScenesSpec => []LateAnswersFit
<1>1. ScenesInv => LateAnswersFit
  BY PdfInvShows, PageInvShows, MembersInvShows
     DEF ScenesInv, LateAnswersFit, ViewerInv, ViewerParts, UploadInv, UploadParts
<1> QED
  BY <1>1, ScenesKept, PTL

(* However registrations, invitations, starts of instances and deletions   *)
(* are interleaved, who registered under the normal spelling logs in until *)
(* he asks to be deleted, a start leaves the superadmin the password of    *)
(* its environment, and who is gone has left nothing, as far as no         *)
(* overlap that AccountsAreKept names came in between.                     *)
THEOREM AccountsKept == ScenesSpec => []AccountsAreKept
<1>1. ScenesInv => AccountsAreKept
  BY AccountsInvKeeps DEF ScenesInv
<1> QED
  BY <1>1, ScenesKept, PTL

(* The row of what a user was shown forgets a mark only by a reset or by a *)
(* save over another's; one request at a time leaves the browser what the  *)
(* row holds; and who was told that the tour is complete finds it marked.  *)
THEOREM OnboardingKept == ScenesSpec => OnboardingIsKept
<1>1. ScenesInv => StateIsServers /\ CompletedIsMarked
  BY OnboardingInvShows DEF ScenesInv
<1>2. ScenesInv /\ [ScenesNext]_AllVars
        => [row.marks \subseteq row'.marks \/ savedOver'
            \/ \E c \in calls : c.op = "reset" /\ c.st = "read"]_onboardingVars
  BY ScenesMove, OnboardingMarks DEF ScenesInv
<1> QED
  BY <1>1, <1>2, ScenesKept, PTL DEF ScenesSpec, OnboardingIsKept, MarksAreKept
=============================================================================
