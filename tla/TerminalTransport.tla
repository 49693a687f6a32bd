-------------------------- MODULE TerminalTransport --------------------------
(***************************************************************************)
(* One attachment of a browser to a terminal: the server's half            *)
(* (TerminalAttachmentManager) and the browser's (useTerminalAttachment    *)
(* with TerminalWebRtcUpgrade).  The two begin on a WebSocket, may move    *)
(* the terminal's bytes to a WebRTC data channel, fall back when the       *)
(* direct path does not come about, and part when an active one fails.     *)
(*                                                                         *)
(* Each connection delivers in order; the two are not ordered with each    *)
(* other, and either end may lose either one at any moment.  Output and    *)
(* input are pieces numbered in the order they were written and typed.     *)
(***************************************************************************)
EXTENDS Frames, Naturals, Sequences, FiniteSets

CONSTANTS
  Capacity,     \* pieces that fit a buffer (MAX_TERMINAL_TRANSPORT_BUFFER_BYTES, MAX_BUFFERED_BYTES)
  MaxAttempts,  \* bound: negotiations the browser starts, the automatic one and retries
  MaxOutput,    \* bound: pieces of output
  MaxInput      \* bound: pieces of input

ASSUME TransportAssumption ==
  /\ Capacity \in Nat \ {0} /\ MaxAttempts \in Nat \ {0}
  /\ MaxOutput \in Nat /\ MaxInput \in Nat

Attempts == 1..MaxAttempts

\* Output and Input carry a piece, Offer and Answer their attempt, the others nothing.
Kinds   == {"output", "input", "offer", "answer", "unavailable", "switch", "activate", "ready"}
Message == [kind : Kinds, n : Nat]

VARIABLES
  \* the server's attachment
  attached,      \* it is the repository's attachment
  transport,     \* websocket, switching or webrtc
  negotiation,   \* the attempt of attachment.webRtc, 0 for null
  answering,     \* the attempts whose answer is being created
  outputBuffer,  \* output held back while switching
  lease,         \* none, fresh, or due when its time has passed since the last renewal
  \* the browser
  connected,     \* its WebSocket is open
  phase,         \* of TerminalWebRtcUpgrade
  attempt,       \* the latest negotiation it started, 0 before the first
  offered,       \* the latest it sent an offer for
  answered,      \* the latest whose answer it applied
  directActive,
  inputBuffer,   \* input held back while switching
  \* the connections
  toClient, toServer,  \* the WebSocket
  channel,       \* the data channel of each attempt: both ends and what is under way
  \* the terminal and its user
  written, shown, typed, entered

server  == <<attached, transport, negotiation, answering, outputBuffer, lease>>
browser == <<connected, phase, attempt, offered, answered, directActive, inputBuffer>>
user    == <<written, shown, typed, entered>>
vars    == <<server, browser, toClient, toServer, channel, user>>

Ends == {"new", "open", "closed"}

TypeOK ==
  /\ attached \in BOOLEAN /\ connected \in BOOLEAN /\ directActive \in BOOLEAN
  /\ transport \in {"websocket", "switching", "webrtc"}
  /\ negotiation \in 0..MaxAttempts /\ answering \subseteq Attempts
  /\ lease \in {"none", "fresh", "due"}
  /\ phase \in {"idle", "finding", "switching", "active", "closed"}
  /\ attempt \in 0..MaxAttempts /\ offered \in 0..attempt /\ answered \in 0..offered
  /\ toClient \in Seq(Message) /\ toServer \in Seq(Message)
  /\ channel \in [Attempts -> [near : Ends, far : Ends, down : Seq(Message), up : Seq(Message)]]
  /\ written \in 0..MaxOutput /\ shown \in Seq(1..written)
  /\ typed \in 0..MaxInput /\ entered \in Seq(1..typed)
  /\ outputBuffer \in Seq(1..written) /\ Len(outputBuffer) <= Capacity
  /\ inputBuffer \in Seq(1..typed) /\ Len(inputBuffer) <= Capacity
  /\ transport # "websocket" => attached /\ negotiation # 0
  /\ (lease = "none") = (transport # "webrtc")
  /\ outputBuffer # <<>> => transport = "switching"
  /\ inputBuffer # <<>> => phase = "switching"
  /\ phase \in {"finding", "switching", "active"} => connected /\ attempt # 0
  /\ directActive = (phase = "active")

Init ==
  /\ attached = TRUE /\ transport = "websocket" /\ negotiation = 0 /\ answering = {}
  /\ outputBuffer = <<>> /\ lease = "none"
  /\ connected = TRUE /\ phase = "idle" /\ attempt = 0 /\ offered = 0 /\ answered = 0
  /\ directActive = FALSE /\ inputBuffer = <<>>
  /\ toClient = <<>> /\ toServer = <<>>
  /\ channel = [a \in Attempts |-> [near |-> "new", far |-> "new", down |-> <<>>, up |-> <<>>]]
  /\ written = 0 /\ shown = <<>> /\ typed = 0 /\ entered = <<>>

-----------------------------------------------------------------------------
(* The server.                                                             *)

\* The channel it accepted is closed; a peer that has none yet may still present one.
Hangup(a) == [channel EXCEPT ![a].far = IF @ = "open" THEN "closed" ELSE @]
Disposed  == IF negotiation = 0 THEN channel ELSE Hangup(negotiation)

disposeWebRtc ==
  /\ negotiation' = 0 /\ outputBuffer' = <<>>
  /\ transport' = "websocket" /\ lease' = "none"
  /\ channel' = Disposed

\* failActiveP2p, and every other end of an attachment
destroyAttachment == attached' = FALSE /\ disposeWebRtc /\ UNCHANGED <<answering, toClient>>

\* Mutant: the output held back is forgotten.
fallbackForgets ==
  /\ disposeWebRtc
  /\ toClient' = Append(toClient, Say("unavailable"))
  /\ UNCHANGED <<attached, answering>>

fallbackNegotiation ==
  /\ disposeWebRtc
  /\ toClient' = toClient \o <<Say("unavailable")>> \o Pieces("output", outputBuffer)
  /\ UNCHANGED <<attached, answering>>

\* Mutant: an active path falls back as a negotiation does.
pathFallsBack == fallbackNegotiation

\* The channel of the negotiation failed or closed.
pathLost == IF transport = "webrtc" THEN destroyAttachment ELSE fallbackNegotiation

\* The program writes: routeTerminalOutput.  A full channel or a failing send ends the attachment.
routeTerminalOutput ==
  /\ attached /\ written < MaxOutput
  /\ written' = written + 1
  /\ CASE transport = "websocket" ->
            /\ toClient' = toClient \o Pieces("output", <<written'>>)
            /\ UNCHANGED <<server, channel>>
       [] transport = "switching" /\ Len(outputBuffer) < Capacity ->
            /\ outputBuffer' = Append(outputBuffer, written')
            /\ UNCHANGED <<attached, transport, negotiation, answering, lease, toClient, channel>>
       [] transport = "switching" /\ Len(outputBuffer) >= Capacity ->
            fallbackNegotiation
       [] transport = "webrtc" ->
            \/ /\ channel' = [channel EXCEPT ![negotiation].down = @ \o Pieces("output", <<written'>>)]
               /\ UNCHANGED <<server, toClient>>
            \/ destroyAttachment
  /\ UNCHANGED <<browser, toServer, shown, typed, entered>>

\* negotiateWebRtc up to its first await.  An offer or a peer may turn out unusable.
Offered(a) ==
  \/ /\ toClient' = Append(toClient, Say("unavailable"))
     /\ UNCHANGED <<server, channel>>
  \/ /\ negotiation = 0
     /\ negotiation' = a /\ answering' = answering \cup {a}
     /\ UNCHANGED <<attached, transport, outputBuffer, lease, toClient, channel>>

\* The rest of negotiateWebRtc: the answer, unless the negotiation is over by now.
createAnswer(a) ==
  /\ a \in answering
  /\ IF attached /\ negotiation = a
     THEN \/ /\ toClient' = Append(toClient, [kind |-> "answer", n |-> a])
             /\ answering' = answering \ {a}
             /\ UNCHANGED <<attached, transport, negotiation, outputBuffer, lease, channel>>
          \/ /\ disposeWebRtc
             /\ toClient' = toClient \o <<Say("unavailable")>> \o Pieces("output", outputBuffer)
             /\ answering' = answering \ {a} /\ UNCHANGED attached
     ELSE /\ answering' = answering \ {a}
          /\ UNCHANGED <<attached, transport, negotiation, outputBuffer, lease, toClient, channel>>
  /\ UNCHANGED <<browser, toServer, user>>

\* The ten seconds of a negotiation are over.
negotiationTimer ==
  /\ negotiation # 0 /\ transport # "webrtc"
  /\ fallbackNegotiation
  /\ UNCHANGED <<browser, toServer, user>>

\* acceptDataChannel: the browser's channel, always of the required protocol, reaches the peer.
acceptDataChannel(a) ==
  /\ channel[a].far = "new" /\ answered >= a /\ channel[a].near # "closed"
  /\ IF attached /\ negotiation = a
     THEN /\ channel' = [channel EXCEPT ![a].far = "open"]
          /\ transport' = "switching"
          /\ toClient' = Append(toClient, Say("switch"))
     ELSE /\ channel' = [channel EXCEPT ![a].far = "closed"]
          /\ UNCHANGED <<transport, toClient>>
  /\ UNCHANGED <<attached, negotiation, answering, outputBuffer, lease, browser, toServer, user>>

\* The peer of attempt a sees its connection or its channel fail or close.
farCloses(a) ==
  /\ channel[a].far # "closed"
  /\ a <= offered
  /\ IF negotiation = a
     THEN IF channel[a].far = "open" THEN pathLost
          ELSE /\ attached' = attached /\ answering' = answering
               /\ negotiation' = 0 /\ outputBuffer' = <<>>
               /\ transport' = "websocket" /\ lease' = "none"
               /\ channel' = [channel EXCEPT ![a].far = "closed"]
               /\ toClient' = Append(toClient, Say("unavailable"))
     ELSE channel' = [channel EXCEPT ![a].far = "closed"] /\ UNCHANGED <<server, toClient>>
  /\ UNCHANGED <<browser, toServer, user>>

\* activateWebRtc.  Sending on the channel may fail half way.
Activated ==
  IF transport = "switching"
  THEN \/ /\ transport' = "webrtc" /\ lease' = "fresh"
          /\ channel' = [channel EXCEPT ![negotiation].down =
                           @ \o <<Say("ready")>> \o Pieces("output", outputBuffer)]
          /\ outputBuffer' = <<>>
          /\ UNCHANGED <<attached, negotiation, answering, toClient>>
       \/ destroyAttachment
  ELSE fallbackNegotiation

\* message: the next frame of the WebSocket.  One of a replaced attachment is ignored.
message ==
  /\ toServer # <<>>
  /\ toServer' = Tail(toServer)
  /\ LET m == Head(toServer)
     IN IF ~attached THEN UNCHANGED <<server, toClient, channel, entered>>
        ELSE CASE m.kind = "input" ->
                    /\ entered' = IF transport = "webrtc" THEN entered ELSE Append(entered, m.n)
                    /\ UNCHANGED <<server, toClient, channel>>
               [] m.kind = "offer"    -> Offered(m.n) /\ UNCHANGED entered
               [] m.kind = "activate" -> Activated /\ UNCHANGED entered
  /\ UNCHANGED <<browser, written, shown, typed>>

handleDataChannelMessage(a) ==
  /\ channel[a].up # <<>> /\ channel[a].far = "open"
  /\ channel' = [channel EXCEPT ![a].up = Tail(@)]
  /\ entered' = IF attached /\ negotiation = a /\ transport = "webrtc"
                THEN Append(entered, Head(channel[a].up).n) ELSE entered
  /\ UNCHANGED <<server, browser, toClient, toServer, written, shown, typed>>

\* The socket closes or sends too slowly, the program exits, the attachment is taken over, the
\* session ends, the device is revoked or the server stops.
AttachmentEnds ==
  /\ attached
  /\ destroyAttachment
  /\ UNCHANGED <<browser, toServer, user>>

\* leaseExpiresAt passes without a renewal, and its timer fires.
LeaseElapses ==
  /\ lease = "fresh"
  /\ lease' = "due"
  /\ UNCHANGED <<attached, transport, negotiation, answering, outputBuffer, browser, toClient,
                 toServer, channel, user>>
LeaseExpires ==
  /\ lease = "due"
  /\ destroyAttachment
  /\ UNCHANGED <<browser, toServer, user>>

\* Mutant: renewals go on after the browser gave the direct path up.
renewForEver ==
  /\ connected
  /\ lease # "none"
  /\ lease' = "fresh"
  /\ UNCHANGED <<attached, transport, negotiation, answering, outputBuffer, browser, toClient,
                 toServer, channel, user>>

\* scheduleLeaseRenewal: the browser asks over HTTP, and the request may fail.
renewLease ==
  /\ directActive
  /\ lease # "none"
  /\ lease' = "fresh"
  /\ UNCHANGED <<attached, transport, negotiation, answering, outputBuffer, browser, toClient,
                 toServer, channel, user>>

-----------------------------------------------------------------------------
(* The browser.                                                            *)

\* Mutant: input held back for a failed switch is kept for the next one.
failKeepsInput(activeFailure) ==
  IF phase = "closed" THEN UNCHANGED <<phase, channel, inputBuffer, directActive, connected>>
  ELSE /\ phase' = "idle"
       /\ channel' = IF attempt = 0 THEN channel ELSE [channel EXCEPT ![attempt].near = "closed"]
       /\ UNCHANGED inputBuffer
       /\ directActive' = (directActive /\ ~activeFailure)
       /\ connected' = (connected /\ ~activeFailure)

\* fail.  A direct path that was active takes the WebSocket with it.
fail(activeFailure) ==
  IF phase = "closed" THEN UNCHANGED <<phase, channel, inputBuffer, directActive, connected>>
  ELSE /\ phase' = "idle"
       /\ channel' = IF attempt = 0 THEN channel ELSE [channel EXCEPT ![attempt].near = "closed"]
       /\ inputBuffer' = <<>>
       /\ directActive' = (directActive /\ ~activeFailure)
       /\ connected' = (connected /\ ~activeFailure)

\* start: the automatic attempt or a retry, in two steps around the gathering of candidates.
start ==
  /\ connected /\ phase = "idle" /\ attempt < MaxAttempts
  /\ phase' = "finding"
  /\ attempt' = attempt + 1
  /\ UNCHANGED <<server, connected, offered, answered, directActive, inputBuffer, toClient, toServer,
                 channel, user>>

sendOffer ==
  /\ phase = "finding" /\ offered < attempt
  /\ \/ /\ offered' = attempt
        /\ toServer' = Append(toServer, [kind |-> "offer", n |-> attempt])
        /\ UNCHANGED <<phase, channel, inputBuffer, directActive, connected>>
     \/ fail(FALSE) /\ UNCHANGED <<offered, toServer>>
  /\ UNCHANGED <<server, attempt, answered, toClient, user>>

\* handleSignal and the socket's message listener
Ignored == UNCHANGED <<phase, channel, inputBuffer, directActive, connected, answered, toServer>>

onAnswer(a) ==
  /\ UNCHANGED toServer
  /\ IF phase = "finding" /\ a = attempt
     THEN answered' = a /\ UNCHANGED <<phase, channel, inputBuffer, directActive, connected>>
     ELSE /\ UNCHANGED answered
          /\ \/ UNCHANGED <<phase, channel, inputBuffer, directActive, connected>>
             \/ phase = "finding" /\ fail(FALSE)

onSwitch ==
  /\ UNCHANGED answered
  /\ IF phase = "finding" /\ channel[attempt].near = "open"
     THEN /\ phase' = "switching"
          /\ toServer' = Append(toServer, Say("activate"))
          /\ UNCHANGED <<channel, inputBuffer, directActive, connected>>
     ELSE fail(FALSE) /\ UNCHANGED toServer

socketMessage ==
  /\ connected /\ toClient # <<>>
  /\ toClient' = Tail(toClient)
  /\ LET m == Head(toClient)
     IN CASE m.kind = "output" ->
               /\ shown' = IF directActive THEN shown ELSE Append(shown, m.n)
               /\ Ignored
          [] m.kind = "unavailable" ->
               /\ UNCHANGED shown
               /\ IF phase \in {"finding", "switching"}
                  THEN fail(FALSE) /\ UNCHANGED <<answered, toServer>>
                  ELSE Ignored
          [] m.kind = "answer" -> onAnswer(m.n) /\ UNCHANGED shown
          [] m.kind = "switch" -> onSwitch /\ UNCHANGED shown
  /\ UNCHANGED <<server, attempt, offered, written, typed, entered>>

\* The browser's channel opens once the answer is applied, before or after the server's end.
nearOpens(a) ==
  /\ channel[a].near = "new" /\ answered = a
  /\ channel' = [channel EXCEPT ![a].near = "open"]
  /\ UNCHANGED <<server, browser, toClient, toServer, user>>

\* The current attempt sees its connection or its channel fail or close.
nearCloses ==
  /\ phase \in {"finding", "switching", "active"}
  /\ fail(phase = "active")
  /\ UNCHANGED <<server, attempt, offered, answered, toClient, toServer, user>>

\* handleChannelMessage
becomesActive(a, rest) ==
  \/ /\ phase' = "active" /\ directActive' = TRUE
     /\ channel' = [channel EXCEPT ![a].down = rest, ![a].up = @ \o Pieces("input", inputBuffer)]
     /\ inputBuffer' = <<>>
     /\ UNCHANGED connected
  \/ fail(TRUE)

handleChannelMessage ==
  /\ attempt # 0 /\ channel[attempt].near = "open" /\ channel[attempt].down # <<>>
  /\ LET m    == Head(channel[attempt].down)
         rest == Tail(channel[attempt].down)
     IN IF phase = "active"
        THEN /\ shown' = IF m.kind = "output" THEN Append(shown, m.n) ELSE shown
             /\ channel' = [channel EXCEPT ![attempt].down = rest]
             /\ UNCHANGED <<phase, inputBuffer, directActive, connected>>
        ELSE /\ phase = "switching"
             /\ IF m.kind = "ready" THEN becomesActive(attempt, rest) ELSE fail(FALSE)
             /\ UNCHANGED shown
  /\ UNCHANGED <<server, attempt, offered, answered, toClient, toServer, written, typed, entered>>

\* sendTerminalData.  A full buffer or channel gives the direct path up.
sendTerminalData ==
  /\ connected /\ typed < MaxInput
  /\ typed' = typed + 1
  /\ CASE phase = "switching" /\ Len(inputBuffer) < Capacity ->
            /\ inputBuffer' = Append(inputBuffer, typed')
            /\ UNCHANGED <<phase, channel, directActive, connected, toServer>>
       [] phase = "switching" /\ Len(inputBuffer) >= Capacity ->
            fail(TRUE) /\ UNCHANGED toServer
       [] phase = "active" ->
            /\ \/ /\ channel' = [channel EXCEPT ![attempt].up = @ \o Pieces("input", <<typed'>>)]
                  /\ UNCHANGED <<phase, inputBuffer, directActive, connected>>
               \/ fail(TRUE)
            /\ UNCHANGED toServer
       [] OTHER ->
            /\ toServer' = toServer \o Pieces("input", <<typed'>>)
            /\ UNCHANGED <<phase, channel, inputBuffer, directActive, connected>>
  /\ UNCHANGED <<server, attempt, offered, answered, toClient, written, shown, entered>>

\* The close event of the WebSocket: the attachment is gone, or its connection.
socketCloses ==
  /\ phase # "closed"
  /\ connected' = FALSE /\ directActive' = FALSE
  /\ phase' = "closed" /\ inputBuffer' = <<>>
  /\ channel' = IF attempt = 0 THEN channel ELSE [channel EXCEPT ![attempt].near = "closed"]
  /\ UNCHANGED <<server, attempt, offered, answered, toClient, toServer, user>>

-----------------------------------------------------------------------------
ServerStep ==
  \/ message \/ negotiationTimer \/ LeaseElapses \/ LeaseExpires \/ AttachmentEnds
  \/ routeTerminalOutput \/ renewLease
  \/ \E a \in Attempts :
       createAnswer(a) \/ acceptDataChannel(a) \/ farCloses(a) \/ handleDataChannelMessage(a)
BrowserStep ==
  \/ start \/ sendOffer \/ socketMessage \/ handleChannelMessage \/ sendTerminalData
  \/ nearCloses \/ socketCloses \/ \E a \in Attempts : nearOpens(a)

Next == ServerStep \/ BrowserStep
Spec == Init /\ [][Next]_vars

\* Timers fire, an open connection delivers, a lost one is noticed (pings, idleTimeout).
\* Nothing makes a peer answer or a channel open.
FairSpec ==
  /\ Spec
  /\ WF_vars(message) /\ WF_vars(socketMessage)
  /\ WF_vars(handleChannelMessage) /\ \A a \in Attempts : WF_vars(handleDataChannelMessage(a))
  /\ WF_vars(sendOffer) /\ WF_vars(negotiationTimer)
  /\ WF_vars(LeaseElapses) /\ WF_vars(LeaseExpires)
  /\ WF_vars(~connected /\ AttachmentEnds) /\ WF_vars(~attached /\ socketCloses)

-----------------------------------------------------------------------------
(* Properties.                                                             *)

\* The two halves belong together: the browser has not given up the path the server sends on.
Joined == /\ attached /\ connected
          /\ transport = "webrtc" => /\ attempt = negotiation /\ phase \in {"switching", "active"}
                                     /\ channel[attempt].near = "open"

\* Output on its way to a screen that is still there: what the WebSocket carries, what the switch
\* holds back, what the channel carries.
Direct == IF attempt # 0 /\ channel[attempt].near = "open" THEN channel[attempt].down ELSE <<>>
OnItsWay == IF connected THEN Carried("output", toClient) \o outputBuffer \o Carried("output", Direct)
            ELSE <<>>

\* Output is shown in order, once, and, as long as the attachment holds, all of it, before, during
\* and after a switch or a fallback, but for the piece that meets a full buffer of a switch: the
\* server drops it and falls back.
BufferFull  == transport = "switching" /\ Len(outputBuffer) >= Capacity
Pipe        == INSTANCE BytePipe WITH queue <- OnItsWay, open <- Joined, full <- BufferFull
OutputPiped == Pipe!Spec

\* Input reaches the program in the order it was typed and never twice, though it may travel over
\* both connections and a failed switch discards what it held back.
InputInOrder == \A i, j \in DOMAIN entered : i < j => entered[i] < entered[j]

\* Beside the types: a browser that sends on the direct path has a server that listens on it, or
\* none at all.
PathsAgree ==
  /\ TypeOK
  /\ directActive => ~attached \/ (transport = "webrtc" /\ negotiation = attempt)

\* No half waits for ever for the other.  A server that sends on a direct path the browser has given
\* up stops: the channel closes, or the lease nobody renews expires.  A browser that is finding
\* a direct path has one in the end, or falls back.
HandoversEnd ==
  /\ attached /\ transport = "webrtc" /\ ~directActive ~> ~attached \/ directActive
  /\ phase = "finding" ~> phase # "finding"
=============================================================================
