------------------------------ MODULE Dictation ------------------------------
(***************************************************************************)
(* Dictation: the client's provider (SpeechProvider.tsx), the recorder of  *)
(* a browser (usePcmRecorder.ts), and the server's SpeechService.          *)
(*                                                                         *)
(* A dictation is numbered by its start and makes at most one request.     *)
(* The user's answer to the permission prompt, and the audio context, take *)
(* their time: the user may have cancelled and started again meanwhile,    *)
(* and more than one start waits.  `current' is the dictation whose number *)
(* generationRef still has; None once it is cancelled.                     *)
(*                                                                         *)
(* The fetch of a cancelled request rejects in the same turn, and its      *)
(* continuation, finding another generation, changes nothing: cancel() and *)
(* that rejection are one step.                                            *)
(***************************************************************************)
EXTENDS SpeechService

CONSTANTS
  Clients,
  MaxDictations   \* bound: dictations of a client

ASSUME DictationAssumption ==
  /\ IsFiniteSet(Clients) /\ MaxDictations \in Nat
  /\ Requests = Clients \X (1..MaxDictations)

Phases == {"idle", "requestingPermission", "recording", "transcribing", "error"}

VARIABLES
  phase,        \* phaseRef
  started,      \* dictations started so far
  current,      \* the dictation of the present generation
  start,        \* how far recorder.start() is
  capture,      \* activeRef: the capture the recorder would stop
  microphones   \* captures whose microphone is on

client == <<phase, started, current, start, capture, microphones>>
vars   == <<client, service>>

TypeOK ==
  /\ phase \in [Clients -> Phases]
  /\ started \in [Clients -> 0..MaxDictations]
  /\ current \in [Clients -> Requests \cup {None}]
  /\ start \in [Requests -> {"none", "permission", "resuming", "done"}]
  /\ capture \in [Clients -> Requests \cup {None}]
  /\ microphones \subseteq Requests

Init ==
  /\ ServiceInit
  /\ phase = [c \in Clients |-> "idle"] /\ started = [c \in Clients |-> 0]
  /\ current = [c \in Clients |-> None]
  /\ start = [r \in Requests |-> "none"]
  /\ capture = [c \in Clients |-> None] /\ microphones = {}

Client(r) == r[1]

\* recorder.cancel(), and the end of the given captures
CancelRecorder(c, ended) ==
  /\ microphones' = microphones \ ({capture[c]} \cup ended)
  /\ capture' = [capture EXCEPT ![c] = None]

\* fail.  Mutant: whatever generation it is of.
FailAnyway(r) == phase' = [phase EXCEPT ![Client(r)] = "error"]
Fail(r) ==
  phase' = [phase EXCEPT ![Client(r)] = IF current[Client(r)] = r THEN "error" ELSE @]

-----------------------------------------------------------------------------
(* Starting.                                                               *)

\* startRecording, up to the prompt.  The recorder refuses while it holds a capture.
StartRecording(c) ==
  /\ phase[c] \in {"idle", "error"} /\ started[c] < MaxDictations
  /\ LET r == <<c, started[c] + 1>> IN
     /\ started' = [started EXCEPT ![c] = @ + 1]
     /\ current' = [current EXCEPT ![c] = r]
     /\ \/ /\ capture[c] = None
           /\ start' = [start EXCEPT ![r] = "permission"]
           /\ phase' = [phase EXCEPT ![c] = "requestingPermission"]
           /\ UNCHANGED <<capture, microphones>>
        \/ /\ capture[c] # None
           /\ start' = [start EXCEPT ![r] = "done"]
           /\ phase' = [phase EXCEPT ![c] = "error"]
           /\ CancelRecorder(c, {})
  /\ UNCHANGED service

\* getUserMedia delivers a stream; the capture becomes the recorder's, whichever it had.
StreamOpened(r) ==
  /\ start[r] = "permission" /\ start' = [start EXCEPT ![r] = "resuming"]
  /\ capture' = [capture EXCEPT ![Client(r)] = r]
  /\ microphones' = microphones \cup {r}
  /\ UNCHANGED <<phase, started, current, service>>

\* recorder.start() returns.  Mutant: a start that was cancelled meanwhile keeps its capture.
StartReturnsKeeping(r) ==
  /\ start[r] = "resuming" /\ start' = [start EXCEPT ![r] = "done"]
  /\ phase' = IF current[Client(r)] = r THEN [phase EXCEPT ![Client(r)] = "recording"] ELSE phase
  /\ UNCHANGED <<capture, microphones, started, current, service>>
StartReturns(r) ==
  /\ start[r] = "resuming" /\ start' = [start EXCEPT ![r] = "done"]
  /\ \/ /\ current[Client(r)] = r
        /\ phase' = [phase EXCEPT ![Client(r)] = "recording"]
        /\ UNCHANGED <<capture, microphones>>
     \/ /\ current[Client(r)] # r
        /\ CancelRecorder(Client(r), {})
        /\ UNCHANGED phase
  /\ UNCHANGED <<started, current, service>>

\* The user refuses the microphone, or the audio context cannot be made or resumed.
StartFails(r) ==
  /\ start[r] \in {"permission", "resuming"} /\ start' = [start EXCEPT ![r] = "done"]
  /\ CancelRecorder(Client(r), {r})
  /\ Fail(r)
  /\ UNCHANGED <<started, current, service>>

-----------------------------------------------------------------------------
(* Ending.                                                                 *)

\* stopRecording, by the user or by the timer: the recording is uploaded, or there is none.
StopRecording(c) ==
  /\ phase[c] = "recording"
  /\ \/ /\ capture[c] # None
        /\ CancelRecorder(c, {})
        /\ phase' = [phase EXCEPT ![c] = "transcribing"]
        /\ handler' = [handler EXCEPT ![current[c]] = "arriving"]
        /\ \E bytes \in Sizes : size' = [size EXCEPT ![current[c]] = bytes]
     \/ /\ capture[c] = None
        /\ Fail(current[c])
        /\ UNCHANGED <<capture, microphones, handler, size>>
  /\ UNCHANGED <<started, current, start, answer, dropped, aborted, reservations, reservedBytes,
                 queue, queuedBytes, active, controller, closed>>

\* The connection of the request under way, if any, is closed or breaks.
Abandon(c) ==
  dropped' = dropped \cup {r \in {current[c]} : phase[c] = "transcribing" /\ handler[r] # "ended"}

\* cancel: by the user, a field that goes away, a lost host or an app in the background.
Cancel(c) ==
  /\ phase[c] # "idle"
  /\ current' = [current EXCEPT ![c] = None]
  /\ phase' = [phase EXCEPT ![c] = "idle"]
  /\ CancelRecorder(c, {})
  /\ Abandon(c)
  /\ UNCHANGED <<started, start, handler, answer, size, aborted, reservations, reservedBytes,
                 queue, queuedBytes, active, controller, closed>>

\* The connection of a request whose answer is still to come breaks.
ConnectionLost(c) ==
  /\ phase[c] = "transcribing"
  /\ Abandon(c)
  /\ Fail(current[c])
  /\ UNCHANGED <<started, current, start, capture, microphones, handler, answer, size, aborted,
                 reservations, reservedBytes, queue, queuedBytes, active, controller, closed>>

\* The answer arrives.  Its text is inserted unless it is in a language the field does not take.
\* Mutant: an answer that is not a text is passed over.
ReceiveText(c) ==
  /\ phase[c] = "transcribing" /\ answer[current[c]] = "text"
  /\ phase' = [phase EXCEPT ![c] = "idle"]
  /\ UNCHANGED <<started, current, start, capture, microphones, service>>
Receive(c) ==
  /\ phase[c] = "transcribing" /\ handler[current[c]] = "ended"
  /\ \/ answer[current[c]] = "text" /\ phase' = [phase EXCEPT ![c] = "idle"]
     \/ Fail(current[c])
  /\ UNCHANGED <<started, current, start, capture, microphones, service>>

\* errorTimer
ErrorFades(c) ==
  /\ phase[c] = "error" /\ phase' = [phase EXCEPT ![c] = "idle"]
  /\ UNCHANGED <<started, current, start, capture, microphones, service>>

Next ==
  \/ ServiceNext /\ UNCHANGED client
  \/ \E r \in Requests : StreamOpened(r) \/ StartReturns(r) \/ StartFails(r)
  \/ \E c \in Clients : \/ StartRecording(c) \/ StopRecording(c) \/ Cancel(c)
                        \/ ConnectionLost(c) \/ Receive(c) \/ ErrorFades(c)

Spec == Init /\ [][Next]_vars

\* Recordings are stopped by a timer, answers are received, and an error fades.  Nobody need
\* answer a permission prompt.
FairSpec ==
  /\ Spec /\ ServiceFairness
  /\ \A c \in Clients : WF_vars(StopRecording(c)) /\ WF_vars(Receive(c)) /\ WF_vars(ErrorFades(c))

-----------------------------------------------------------------------------
(* Properties.                                                             *)

\* No step moves a dictation in a way transitionSpeechPhase throws on: a start or an answer that
\* comes late never disturbs the dictation that followed the one it is of (stateMachine.ts).
Transitions ==
  { <<"idle", "requestingPermission">>, <<"requestingPermission", "recording">>,
    <<"requestingPermission", "idle">>, <<"requestingPermission", "error">>,
    <<"recording", "transcribing">>, <<"recording", "idle">>, <<"recording", "error">>,
    <<"transcribing", "idle">>, <<"transcribing", "error">>,
    <<"error", "idle">>, <<"error", "requestingPermission">> }
\* A start the recorder refuses passes through requestingPermission to error in one step.
Refused(c) == started'[c] # started[c] /\ phase'[c] = "error"

MovesLegal ==
  [][\A c \in Clients : \/ phase'[c] = phase[c] \/ Refused(c)
                        \/ <<phase[c], phase'[c]>> \in Transitions]_vars

\* Beside the types: while no more than one start waits at a time, a recording has the microphone, and nothing
\* else keeps it on: a start that was cancelled gives it back (startRecording, cancel).
Waiting(c) == {r \in Requests : Client(r) = c /\ start[r] \in {"permission", "resuming"}}

MicrophoneHeld ==
  \A c \in Clients :
    /\ phase[c] = "recording" => capture[c] = current[c] /\ current[c] \in microphones
    /\ {r \in microphones : Client(r) = c} \subseteq {capture[c]}
    /\ phase[c] # "recording" /\ Waiting(c) = {} => capture[c] = None

OneStartHoldsTheMicrophone ==
  /\ []TypeOK
  /\ []( \A c \in Clients : Cardinality(Waiting(c)) <= 1 ) => []MicrophoneHeld

\* A dictation that got the microphone ends, whatever becomes of its request and of the service:
\* the recording is stopped, and its text or an error arrives (SpeechProvider, SpeechService).
DictationsEnd ==
  \A c \in Clients :
    phase[c] \in {"recording", "transcribing", "error"} ~> phase[c] \in {"idle", "requestingPermission"}
=============================================================================
