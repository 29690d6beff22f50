----------------------------- MODULE SpokenChat ------------------------------
(***************************************************************************)
(* What is heard and spoken on a document's page.  Answers read aloud:     *)
(* one synthesis at a time, one audio element per press of play, and the   *)
(* state each message shows; the element's own events (started, ended, a   *)
(* rejected play()) come late.  And a question spoken: the browser's prompt *)
(* for the microphone, the recorder, the transcription, and the user who   *)
(* presses the button again or leaves meanwhile.                           *)
(***************************************************************************)
EXTENDS Naturals, FiniteSets

(***************************************************************************)
(* Answers read aloud.                                                     *)
(***************************************************************************)
CONSTANTS Slots,     \* positions in the list of messages
          Sounds,    \* bound: audio elements made in one behaviour
          Switches   \* bound: threads opened in one behaviour

ASSUME SpeechAssumption == Switches \in Nat

VARIABLES spoken,       \* chatMessages: audioState and audioUrl of each position
          synthesis,    \* the position whose speech is awaited
          sound,        \* the audio elements
          currentAudio, playingMessageIndex,
          interrupted,  \* history: a play() was rejected because another began
          switches

speechVars == <<spoken, synthesis, sound, currentAudio, playingMessageIndex, interrupted, switches>>

Nothing == 0
ASSUME SlotsAssumption == Nothing \notin Slots /\ Nothing \notin Sounds

Silent == [audioState |-> "none", audioUrl |-> FALSE]
Unmade == [at |-> Nothing, st |-> "unmade"]

SpeechInit ==
    /\ spoken \in [Slots -> {Silent, [Silent EXCEPT !.audioState = "ready", !.audioUrl = TRUE]}]
    /\ synthesis = Nothing
    /\ sound = [a \in Sounds |-> Unmade]
    /\ currentAudio = Nothing /\ playingMessageIndex = Nothing
    /\ interrupted = FALSE /\ switches = 0

Shows(index, audio) == [spoken EXCEPT ![index].audioState = audio]

\* Mutant: the element that sounds is not stopped.
MutantWithoutCurrent == sound

\* stopCurrentAudio: pause() rejects a play() that has not begun to sound.
Stopped(a) == [sound[a] EXCEPT !.st = IF @ = "starting" THEN "rejected" ELSE "over"]
WithoutCurrent ==
    IF currentAudio = Nothing THEN sound ELSE [sound EXCEPT ![currentAudio] = Stopped(currentAudio)]

\* playMessageAudio, of a position that has its audio.
Plays(index, messages) ==
    \E a \in Sounds :
        /\ sound[a].st = "unmade"
        /\ sound' = [WithoutCurrent EXCEPT ![a] = [at |-> index, st |-> "starting"]]
        /\ currentAudio' = a /\ playingMessageIndex' = index
        /\ spoken' = [messages EXCEPT ![index].audioState = "playing"]

PlayMessageAudio(index) ==
    /\ spoken[index].audioUrl /\ Plays(index, spoken)
    /\ UNCHANGED <<synthesis, interrupted, switches>>

PauseMessageAudio(index) ==
    /\ playingMessageIndex = index
    /\ sound' = WithoutCurrent
    /\ currentAudio' = Nothing /\ playingMessageIndex' = Nothing
    /\ spoken' = Shows(index, "ready")
    /\ UNCHANGED <<synthesis, interrupted, switches>>

\* An answer is done in an audio mode; the synthesis before it is aborted,
\* and its message shows no audio again.
Synthesize(index) ==
    /\ synthesis # index
    /\ synthesis' = index
    /\ spoken' = IF synthesis = Nothing THEN Shows(index, "synthesizing")
                 ELSE [Shows(index, "synthesizing") EXCEPT ![synthesis].audioState = "none"]
    /\ UNCHANGED <<sound, currentAudio, playingMessageIndex, interrupted, switches>>

Synthesized ==
    /\ synthesis # Nothing
    /\ Plays(synthesis, [spoken EXCEPT ![synthesis] = [audioState |-> "ready", audioUrl |-> TRUE]])
    /\ synthesis' = Nothing
    /\ UNCHANGED <<interrupted, switches>>

SynthesisFails ==
    /\ synthesis # Nothing
    /\ spoken' = Shows(synthesis, "none") /\ synthesis' = Nothing
    /\ UNCHANGED <<sound, currentAudio, playingMessageIndex, interrupted, switches>>

-----------------------------------------------------------------------------
\* The handler shared by ended, error and a rejected play(): it forgets the
\* current element, whichever that is by now.
ResetState(a) ==
    /\ sound' = [sound EXCEPT ![a].st = "over"]
    /\ currentAudio' = Nothing /\ playingMessageIndex' = Nothing
    /\ spoken' = Shows(sound[a].at, "ready")
    /\ UNCHANGED <<synthesis, switches>>

Starts(a) ==
    /\ sound[a].st = "starting"
    /\ sound' = [sound EXCEPT ![a].st = "sounding"]
    /\ UNCHANGED <<spoken, synthesis, currentAudio, playingMessageIndex, interrupted, switches>>

\* It ends, cannot be decoded, or the browser does not let it play.
Ends(a) ==
    /\ sound[a].st \in {"starting", "sounding"}
    /\ ResetState(a) /\ UNCHANGED interrupted

PlayRejected(a) ==
    /\ sound[a].st = "rejected"
    /\ ResetState(a)
    /\ interrupted' = (interrupted \/ currentAudio \notin {a, Nothing})

\* Another thread's messages take the positions; what sounds goes on.
SelectOtherThread ==
    /\ switches < Switches
    /\ switches' = switches + 1
    /\ spoken' = [index \in Slots |-> Silent]
    /\ UNCHANGED <<synthesis, sound, currentAudio, playingMessageIndex, interrupted>>

SpeechNext ==
    \/ \E index \in Slots :
           PlayMessageAudio(index) \/ PauseMessageAudio(index) \/ Synthesize(index)
    \/ Synthesized \/ SynthesisFails
    \/ \E a \in Sounds : Starts(a) \/ Ends(a) \/ PlayRejected(a)
    \/ SelectOtherThread

SpeechSpec == SpeechInit /\ [][SpeechNext]_speechVars

-----------------------------------------------------------------------------
Audible == {a \in Sounds : sound[a].st \in {"starting", "sounding"}}

SpeechTypeOK ==
    /\ spoken \in [Slots -> [audioState : {"none", "synthesizing", "ready", "playing"},
                             audioUrl : BOOLEAN]]
    /\ synthesis \in Slots \cup {Nothing} /\ playingMessageIndex \in Slots \cup {Nothing}
    /\ sound \in [Sounds -> [at : Slots \cup {Nothing},
                             st : {"unmade", "starting", "sounding", "rejected", "over"}]]
    /\ currentAudio \in Sounds \cup {Nothing}
    /\ interrupted \in BOOLEAN /\ switches \in 0 .. Switches

(* Whatever can be heard is the element the page remembers, so that pause, *)
(* the next play and leaving the page reach it: however presses, syntheses *)
(* and the element's events interleave, until a play() was rejected after  *)
(* another had begun.                                                      *)
HeardIsReachable == ~interrupted => Audible \subseteq {currentAudio}

-----------------------------------------------------------------------------
(***************************************************************************)
(* A question spoken.                                                      *)
(***************************************************************************)
CONSTANT MicRequests   \* bound: times the browser is asked for the microphone

VARIABLES mic,            \* each getUserMedia call: its stream
          mediaStream, mediaRecorder, \* of the service
          stopping,       \* a recorder's stop event is to come
          voiceRecording, voiceTranscribing,
          sent,           \* audio on its way to the server
          question,       \* what the question box holds
          autoSend,       \* voiceAutoSend of the workspace
          voicePage,      \* the page is open
          overlapped      \* history: a stream was taken that nothing will give back

voiceVars == <<mic, mediaStream, mediaRecorder, stopping, voiceRecording, voiceTranscribing,
               sent, question, autoSend, voicePage, overlapped>>

NoStream == "no stream"
ASSUME StreamAssumption == NoStream \notin MicRequests

VoiceInit ==
    /\ mic = [p \in MicRequests |-> "unasked"]
    /\ mediaStream = NoStream /\ mediaRecorder = "none" /\ stopping = FALSE
    /\ voiceRecording = FALSE /\ voiceTranscribing = FALSE
    /\ sent = "none" /\ question = "empty" /\ autoSend \in BOOLEAN
    /\ voicePage = TRUE /\ overlapped = FALSE

Live == {p \in MicRequests : mic[p] = "live"}

\* cleanup
Cleanup ==
    /\ mic' = [p \in MicRequests |-> IF p = mediaStream THEN "ended" ELSE mic[p]]
    /\ mediaStream' = NoStream /\ mediaRecorder' = "none"

-----------------------------------------------------------------------------
\* toggleVoiceRecording, nothing being recorded: nothing tells that the
\* browser has been asked already.
StartRecording(p) ==
    /\ voicePage /\ ~voiceTranscribing /\ ~voiceRecording
    /\ mic[p] = "unasked"
    /\ mic' = [mic EXCEPT ![p] = "asking"]
    /\ UNCHANGED <<mediaStream, mediaRecorder, stopping, voiceRecording, voiceTranscribing,
                   sent, question, autoSend, voicePage, overlapped>>

\* The stream is kept in the service, over one that was there.
MicrophoneGranted(p) ==
    /\ mic[p] = "asking"
    /\ mic' = [mic EXCEPT ![p] = "live"]
    /\ mediaStream' = p
    /\ overlapped' = (overlapped \/ mediaStream # NoStream \/ ~voicePage)
    /\ \/ mediaRecorder' = "recording" /\ voiceRecording' = TRUE
       \* none of the formats: the constructor throws, with the stream taken
       \/ /\ UNCHANGED <<mediaRecorder, voiceRecording>>
    /\ UNCHANGED <<stopping, voiceTranscribing, sent, question, autoSend, voicePage>>

MicrophoneDenied(p) ==
    /\ mic[p] = "asking"
    /\ mic' = [mic EXCEPT ![p] = "ended"]
    /\ UNCHANGED <<mediaStream, mediaRecorder, stopping, voiceRecording, voiceTranscribing,
                   sent, question, autoSend, voicePage, overlapped>>

\* toggleVoiceRecording while recording.
StopRecording ==
    /\ voicePage /\ ~voiceTranscribing /\ voiceRecording
    /\ voiceRecording' = FALSE
    /\ IF mediaRecorder = "recording"
       THEN mediaRecorder' = "inactive" /\ stopping' = TRUE /\ voiceTranscribing' = TRUE
       ELSE UNCHANGED <<mediaRecorder, stopping, voiceTranscribing>>
    /\ UNCHANGED <<mic, mediaStream, sent, question, autoSend, voicePage, overlapped>>

\* onstop
RecorderStopped ==
    /\ stopping
    /\ stopping' = FALSE /\ Cleanup
    /\ sent' = "sent"
    /\ UNCHANGED <<voiceRecording, voiceTranscribing, question, autoSend, voicePage, overlapped>>

\* onerror, after which nothing is sent.
RecorderFails ==
    /\ stopping
    /\ stopping' = FALSE /\ Cleanup /\ voiceTranscribing' = FALSE
    /\ UNCHANGED <<voiceRecording, sent, question, autoSend, voicePage, overlapped>>

\* The text is asked at once, or added to what was typed.
Transcribed ==
    /\ sent = "sent" /\ voicePage
    /\ sent' = "answered" /\ voiceTranscribing' = FALSE
    /\ question' = IF autoSend THEN question ELSE "spoken"
    /\ UNCHANGED <<mic, mediaStream, mediaRecorder, stopping, voiceRecording, autoSend,
                   voicePage, overlapped>>

TranscriptionFails ==
    /\ sent = "sent" /\ voicePage
    /\ sent' = "none" /\ voiceTranscribing' = FALSE
    /\ UNCHANGED <<mic, mediaStream, mediaRecorder, stopping, voiceRecording, question,
                   autoSend, voicePage, overlapped>>

\* ngOnDestroy: the request is aborted, a recording cancelled.
LeavePage ==
    /\ voicePage
    /\ voicePage' = FALSE
    /\ sent' = IF sent = "sent" THEN "none" ELSE sent
    /\ IF voiceRecording THEN Cleanup /\ voiceRecording' = FALSE
       ELSE UNCHANGED <<mic, mediaStream, mediaRecorder, voiceRecording>>
    /\ overlapped' = (overlapped \/ (mediaStream # NoStream /\ mediaRecorder = "none"))
    /\ UNCHANGED <<stopping, voiceTranscribing, question, autoSend>>

VoiceNext ==
    \/ \E p \in MicRequests : StartRecording(p) \/ MicrophoneGranted(p) \/ MicrophoneDenied(p)
    \/ StopRecording \/ RecorderStopped \/ RecorderFails
    \/ Transcribed \/ TranscriptionFails
    \/ LeavePage

VoiceSpec == VoiceInit /\ [][VoiceNext]_voiceVars

-----------------------------------------------------------------------------
VoiceTypeOK ==
    /\ mic \in [MicRequests -> {"unasked", "asking", "live", "ended"}]
    /\ mediaStream \in MicRequests \cup {NoStream} /\ mediaRecorder \in {"none", "recording", "inactive"}
    /\ {stopping, voiceRecording, voiceTranscribing, autoSend, voicePage,
        overlapped} \subseteq BOOLEAN
    /\ question \in {"empty", "spoken"}
    /\ sent \in {"none", "sent", "answered"}

(* The microphone is on only through the stream the service holds, and     *)
(* with the page gone only until the recorder has stopped: unless the user *)
(* pressed again before the browser answered, left before it did, or the   *)
(* recorder could not be made.                                             *)
MicrophoneIsHeld ==
    ~overlapped => /\ Live \subseteq {mediaStream}
                   /\ ~voicePage => Live = {} \/ stopping
=============================================================================
