----------------------------- MODULE RemoteBridge -----------------------------
(***************************************************************************)
(* One connection of the native SSH bridge: the proxy command that ssh     *)
(* runs on the user's machine (runRemoteBridgeProxy) and the attachment of *)
(* the Couchview server (RemoteBridgeService), which holds a TCP           *)
(* connection to the host's sshd.  Between them the SSH byte stream starts *)
(* on a WebSocket and may be handed over to a WebRTC data channel, once    *)
(* per connection.                                                         *)
(*                                                                         *)
(* Each connection delivers in order, the two are not ordered with each    *)
(* other, and either end may lose one at any moment.  output goes from     *)
(* sshd to ssh, input the other way, in pieces numbered as written.        *)
(***************************************************************************)
EXTENDS Frames, Naturals, Sequences

CONSTANTS
  Capacity,   \* pieces that fit a buffer (BRIDGE_LIMITS.bufferedBytes)
  MaxOutput,  \* bound: pieces of output
  MaxInput    \* bound: pieces of input

ASSUME BridgeAssumption == Capacity \in Nat \ {0} /\ MaxOutput \in Nat /\ MaxInput \in Nat

Kinds   == {"ready", "output", "input", "offer", "answer", "unavailable", "switch", "activate", "error"}
Message == [kind : Kinds, n : Nat]

VARIABLES
  \* the server
  attached,     \* the connection's attachment and its TCP socket exist
  reached,      \* attachment.ready: sshd accepted the TCP connection
  transport,    \* websocket, switching or webrtc
  negotiating,  \* attachment.webRtc is set
  answering,    \* negotiateWebRtc awaits the peer
  outputBuffer, \* output held back while switching
  lease,        \* fresh, or due when its time has passed since the last renewal
  \* the proxy
  connected,    \* its WebSocket is open
  finished,     \* it was closed, and the command ends
  ready,
  phase,        \* websocket, switching or webrtc
  peer,         \* its peer connection: none, gathering, offered or gone
  timer,        \* negotiationTimer is armed
  inputBuffer,  \* input held back while switching
  failure,      \* why it closed the connection (lastError): direct, full, target, timeout,
                \* or unexpected, of a message it could not place
  \* the connections
  toClient, toServer,
  answered,     \* the proxy applied the answer
  near, far,    \* the ends of the data channel
  down, up,
  \* the two programs
  written, shown, typed, entered

server  == <<attached, reached, transport, negotiating, answering, outputBuffer, lease>>
proxy   == <<connected, finished, ready, phase, peer, timer, inputBuffer, failure>>
channel == <<answered, near, far, down, up>>
streams == <<written, shown, typed, entered>>
vars    == <<server, proxy, toClient, toServer, channel, streams>>

Ends == {"new", "open", "closed"}

TypeOK ==
  /\ {attached, reached, negotiating, answering, connected, finished, ready, timer, answered} \subseteq BOOLEAN
  /\ {transport, phase} \subseteq {"websocket", "switching", "webrtc"}
  /\ peer \in {"none", "gathering", "offered", "gone"}
  /\ failure \in {"none", "direct", "full", "target", "timeout", "unexpected"}
  /\ lease \in {"fresh", "due"} /\ {near, far} \subseteq Ends
  /\ {toClient, toServer, down, up} \subseteq Seq(Message)
  /\ written \in 0..MaxOutput /\ shown \in Seq(1..written)
  /\ typed \in 0..MaxInput /\ entered \in Seq(1..typed)
  /\ Len(outputBuffer) <= Capacity /\ Len(inputBuffer) <= Capacity
  /\ transport # "websocket" => attached /\ negotiating
  /\ outputBuffer # <<>> => transport = "switching"
  /\ inputBuffer # <<>> => phase = "switching"
  /\ ready => reached
  /\ phase # "websocket" => peer = "offered" \/ finished
  /\ timer => peer = "offered" /\ phase = "websocket"

Init ==
  /\ attached = TRUE /\ reached = FALSE /\ transport = "websocket" /\ negotiating = FALSE
  /\ answering = FALSE /\ outputBuffer = <<>> /\ lease = "fresh"
  /\ connected = TRUE /\ finished = FALSE /\ ready = FALSE /\ phase = "websocket"
  /\ peer = "none" /\ timer = FALSE /\ inputBuffer = <<>> /\ failure = "none"
  /\ toClient = <<>> /\ toServer = <<>>
  /\ answered = FALSE /\ near = "new" /\ far = "new" /\ down = <<>> /\ up = <<>>
  /\ written = 0 /\ shown = <<>> /\ typed = 0 /\ entered = <<>>

-----------------------------------------------------------------------------
(* The server.                                                             *)

disposeWebRtc ==
  /\ negotiating' = FALSE /\ outputBuffer' = <<>> /\ transport' = "websocket"
  /\ far' = IF far = "open" THEN "closed" ELSE far
  /\ UNCHANGED <<answered, near, down, up>>

destroyAttachment ==
  /\ attached' = FALSE
  /\ disposeWebRtc
  /\ UNCHANGED <<reached, answering, lease, toClient>>

\* Mutant: what was held back is forgotten.
fallbackForgets ==
  /\ disposeWebRtc
  /\ toClient' = Append(toClient, Say("unavailable"))
  /\ UNCHANGED <<attached, reached, lease>>
fallbackNegotiation ==
  /\ disposeWebRtc
  /\ toClient' = toClient \o <<Say("unavailable")>> \o Pieces("output", outputBuffer)
  /\ UNCHANGED <<attached, reached, lease>>

\* tcp.onOpen
TargetOpens ==
  /\ attached /\ ~reached
  /\ reached' = TRUE
  /\ toClient' = Append(toClient, Say("ready"))
  /\ UNCHANGED <<attached, transport, negotiating, answering, outputBuffer, lease, proxy, toServer,
                 channel, streams>>

\* routeTcpOutput.  A full channel or a failing send ends the attachment.
routeTcpOutput ==
  /\ attached /\ reached /\ written < MaxOutput
  /\ written' = written + 1
  /\ CASE transport = "websocket" ->
            /\ toClient' = toClient \o Pieces("output", <<written'>>)
            /\ UNCHANGED <<server, channel>>
       [] transport = "switching" /\ Len(outputBuffer) < Capacity ->
            /\ outputBuffer' = Append(outputBuffer, written')
            /\ UNCHANGED <<attached, reached, transport, negotiating, answering, lease, toClient, channel>>
       [] transport = "switching" /\ Len(outputBuffer) >= Capacity ->
            fallbackNegotiation /\ UNCHANGED answering
       [] transport = "webrtc" ->
            \/ /\ down' = down \o Pieces("output", <<written'>>)
               /\ UNCHANGED <<server, toClient, answered, near, far, up>>
            \/ destroyAttachment
  /\ UNCHANGED <<proxy, toServer, shown, typed, entered>>

\* negotiateWebRtc, up to its first await.  The peer may turn out unusable.
Offered ==
  \/ /\ toClient' = Append(toClient, Say("unavailable"))
     /\ UNCHANGED <<server, channel>>
  \/ /\ negotiating' = TRUE /\ answering' = TRUE
     /\ UNCHANGED <<attached, reached, transport, outputBuffer, lease, toClient, channel>>

\* The rest of it: the answer, unless the negotiation is over by now.
createAnswer ==
  /\ answering
  /\ answering' = FALSE
  /\ IF attached /\ negotiating
     THEN \/ /\ toClient' = Append(toClient, Say("answer"))
             /\ UNCHANGED <<attached, reached, transport, negotiating, outputBuffer, lease, channel>>
          \/ fallbackNegotiation
     ELSE UNCHANGED <<attached, reached, transport, negotiating, outputBuffer, lease, toClient, channel>>
  /\ UNCHANGED <<proxy, toServer, streams>>

negotiationTimer ==
  /\ negotiating /\ transport # "webrtc"
  /\ fallbackNegotiation
  /\ UNCHANGED <<answering, proxy, toServer, streams>>

\* The proxy's channel, always of the required protocol, reaches the peer.
acceptDataChannel ==
  /\ answered /\ far = "new" /\ near # "closed"
  /\ IF attached /\ negotiating
     THEN /\ far' = "open" /\ transport' = "switching"
          /\ toClient' = Append(toClient, Say("switch"))
     ELSE far' = "closed" /\ UNCHANGED <<transport, toClient>>
  /\ UNCHANGED <<attached, reached, negotiating, answering, outputBuffer, lease, proxy, toServer,
                 answered, near, down, up, streams>>

\* The server's peer sees its connection or its channel fail or close.
farCloses ==
  /\ far # "closed" /\ negotiating
  /\ IF transport = "webrtc" THEN destroyAttachment
     ELSE fallbackNegotiation /\ UNCHANGED answering
  /\ UNCHANGED <<proxy, toServer, streams>>

Activated ==
  IF transport = "switching"
  THEN \/ /\ transport' = "webrtc"
          /\ down' = down \o <<Say("ready")>> \o Pieces("output", outputBuffer)
          /\ outputBuffer' = <<>>
          /\ UNCHANGED <<attached, reached, negotiating, answering, lease, toClient, answered, near, far, up>>
       \/ destroyAttachment
  ELSE fallbackNegotiation /\ UNCHANGED answering

\* message.  A piece of input that follows the handover closes the connection.
message ==
  /\ toServer # <<>>
  /\ toServer' = Tail(toServer)
  /\ LET m == Head(toServer)
     IN IF ~attached THEN UNCHANGED <<server, toClient, channel, entered>>
        ELSE CASE m.kind = "input" /\ transport = "webrtc" -> destroyAttachment /\ UNCHANGED entered
               [] m.kind = "input" /\ transport # "webrtc" ->
                    entered' = Append(entered, m.n) /\ UNCHANGED <<server, toClient, channel>>
               [] m.kind = "offer"    -> Offered /\ UNCHANGED entered
               [] m.kind = "activate" -> Activated /\ UNCHANGED entered
  /\ UNCHANGED <<proxy, written, shown, typed>>

channelInput ==
  /\ far = "open" /\ up # <<>>
  /\ up' = Tail(up)
  /\ entered' = IF attached /\ transport = "webrtc" THEN Append(entered, Head(up).n) ELSE entered
  /\ UNCHANGED <<server, proxy, toClient, toServer, answered, near, far, down, written, shown, typed>>

\* sshd refuses or closes, the socket closes or is too slow, the server stops; sshd's errors
\* are told.
AttachmentEnds ==
  /\ attached
  /\ attached' = FALSE /\ disposeWebRtc
  /\ toClient' \in {toClient, Append(toClient, Say("error"))}
  /\ UNCHANGED <<reached, answering, lease, proxy, toServer, streams>>

LeaseElapses ==
  /\ attached /\ lease = "fresh"
  /\ lease' = "due"
  /\ UNCHANGED <<attached, reached, transport, negotiating, answering, outputBuffer, proxy, toClient,
                 toServer, channel, streams>>
LeaseExpires ==
  /\ attached /\ lease = "due"
  /\ destroyAttachment
  /\ UNCHANGED <<proxy, toServer, streams>>

-----------------------------------------------------------------------------
(* The proxy.                                                              *)

\* The socket begins to close; the direct path stays as it is until the close event.
closeWithError(why) ==
  /\ failure' = IF failure = "none" THEN why ELSE failure
  /\ connected' = FALSE

stopPeer == peer' = "gone" /\ near' = "closed" /\ timer' = FALSE

\* A full WebSocket drops the piece and closes.
sendWebSocketBytes(s) ==
  IF ~connected THEN closeWithError("direct") /\ UNCHANGED toServer
  ELSE \/ toServer' = toServer \o Pieces("input", s) /\ UNCHANGED <<failure, connected>>
       \/ closeWithError("full") /\ UNCHANGED toServer

\* Mutant: what was held back is forgotten.
fallBackForgetsInput ==
  IF phase = "webrtc"
  THEN closeWithError("direct") /\ UNCHANGED <<phase, peer, near, timer, inputBuffer, toServer>>
  ELSE /\ stopPeer
       /\ phase' = "websocket" /\ inputBuffer' = <<>>
       /\ UNCHANGED <<failure, connected, toServer>>
fallBackFromNegotiation ==
  IF phase = "webrtc"
  THEN closeWithError("direct") /\ UNCHANGED <<phase, peer, near, timer, inputBuffer, toServer>>
  ELSE /\ stopPeer
       /\ phase' = "websocket"
       /\ inputBuffer' = <<>>
       /\ IF inputBuffer # <<>> THEN sendWebSocketBytes(inputBuffer)
          ELSE UNCHANGED <<failure, connected, toServer>>

\* renewLease of the proxy's interval, over HTTP; a failing one closes the connection.
\* Mutant: the interval goes on after the command ended.
renewForEver ==
  /\ ready
  /\ attached /\ lease' = "fresh"
  /\ UNCHANGED <<attached, reached, transport, negotiating, answering, outputBuffer, proxy, toClient,
                 toServer, channel, streams>>
renewLease ==
  /\ ready /\ ~finished
  /\ \/ attached /\ lease' = "fresh" /\ UNCHANGED <<connected, failure>>
     \/ closeWithError("direct") /\ UNCHANGED lease
  /\ UNCHANGED <<attached, reached, transport, negotiating, answering, outputBuffer, finished, ready,
                 phase, peer, timer, inputBuffer, toClient, toServer, channel, streams>>

\* startWebRtc from its first await on: the offer, and its timer.
sendOffer ==
  /\ peer = "gathering" /\ ~finished
  /\ \/ /\ connected
        /\ peer' = "offered" /\ timer' = TRUE
        /\ toServer' = Append(toServer, Say("offer"))
        /\ UNCHANGED <<connected, phase, inputBuffer, failure, near>>
     \/ fallBackFromNegotiation
  /\ UNCHANGED <<server, finished, ready, toClient, answered, far, down, up, streams>>

clientTimer ==
  /\ timer
  /\ fallBackFromNegotiation
  /\ UNCHANGED <<server, finished, ready, toClient, answered, far, down, up, streams>>

\* The first ready starts the stream and the negotiation.
onReady ==
  /\ IF ready THEN UNCHANGED <<ready, peer>> ELSE ready' = TRUE /\ peer' = "gathering"
  /\ UNCHANGED <<phase, near, timer, inputBuffer, failure, connected, toServer, answered, shown>>

onAnswer ==
  /\ UNCHANGED <<ready, shown>>
  /\ IF peer = "gone"
     THEN /\ closeWithError("unexpected")
          /\ UNCHANGED <<phase, peer, near, timer, inputBuffer, toServer, answered>>
     ELSE \/ /\ answered' = TRUE
             /\ UNCHANGED <<phase, peer, near, timer, inputBuffer, failure, connected, toServer>>
          \/ fallBackFromNegotiation /\ UNCHANGED answered

onSwitch ==
  /\ UNCHANGED <<ready, shown, answered, peer, near, inputBuffer>>
  /\ IF near = "open"
     THEN /\ phase' = "switching" /\ timer' = FALSE
          /\ toServer' = Append(toServer, Say("activate"))
          /\ UNCHANGED <<failure, connected>>
     ELSE closeWithError("unexpected") /\ UNCHANGED <<phase, timer, toServer>>

\* Output the reader of stdout does not take closes the connection.
onOutput(n) ==
  /\ UNCHANGED <<ready, answered, phase, peer, near, timer, inputBuffer, toServer>>
  /\ IF phase = "webrtc" THEN UNCHANGED <<shown, failure, connected>>
     ELSE \/ shown' = Append(shown, n) /\ UNCHANGED <<failure, connected>>
          \/ closeWithError("full") /\ UNCHANGED shown

socketMessage ==
  /\ connected /\ toClient # <<>>
  /\ toClient' = Tail(toClient)
  /\ LET m == Head(toClient)
     IN \/ m.kind = "ready"  /\ onReady
        \/ m.kind = "answer" /\ onAnswer
        \/ m.kind = "switch" /\ onSwitch
        \/ m.kind = "output" /\ onOutput(m.n)
        \/ m.kind = "unavailable" /\ fallBackFromNegotiation /\ UNCHANGED <<ready, shown, answered>>
        \/ /\ m.kind = "error" /\ closeWithError("target")
           /\ UNCHANGED <<ready, shown, answered, phase, peer, near, timer, inputBuffer, toServer>>
  /\ UNCHANGED <<server, finished, far, down, up, written, typed, entered>>

nearOpens ==
  /\ near = "new" /\ answered
  /\ near' = "open"
  /\ UNCHANGED <<server, proxy, toClient, toServer, answered, far, down, up, streams>>

\* The proxy's peer sees its connection or its channel fail or close.
nearCloses ==
  /\ peer = "offered" /\ near # "closed" /\ ~finished
  /\ fallBackFromNegotiation
  /\ UNCHANGED <<server, finished, ready, toClient, answered, far, down, up, streams>>

sendWebRtcBytes(s) ==
  \/ up' = up \o Pieces("input", s) /\ UNCHANGED <<failure, connected>>
  \/ closeWithError("full") /\ UNCHANGED up

channelMessage ==
  /\ near = "open" /\ down # <<>>
  /\ down' = Tail(down)
  /\ LET m == Head(down)
     IN IF m.kind = "output"
        THEN /\ shown' = IF phase = "webrtc" THEN Append(shown, m.n) ELSE shown
             /\ UNCHANGED <<phase, inputBuffer, failure, connected, up>>
        ELSE /\ UNCHANGED shown
             /\ IF phase = "switching"
                THEN /\ phase' = "webrtc" /\ inputBuffer' = <<>>
                     /\ IF inputBuffer # <<>> THEN sendWebRtcBytes(inputBuffer)
                        ELSE UNCHANGED <<failure, connected, up>>
                ELSE closeWithError("unexpected") /\ UNCHANGED <<phase, inputBuffer, up>>
  /\ UNCHANGED <<server, finished, ready, peer, timer, toClient, toServer, answered, near, far, written,
                 typed, entered>>

\* ssh writes to stdin.
onInput ==
  /\ ready /\ ~finished /\ typed < MaxInput
  /\ typed' = typed + 1
  /\ CASE phase = "switching" /\ Len(inputBuffer) < Capacity ->
            /\ inputBuffer' = Append(inputBuffer, typed')
            /\ UNCHANGED <<failure, connected, toServer, up>>
       [] phase = "switching" /\ Len(inputBuffer) >= Capacity ->
            closeWithError("full") /\ UNCHANGED <<inputBuffer, toServer, up>>
       [] phase = "webrtc" ->
            sendWebRtcBytes(<<typed'>>) /\ UNCHANGED <<inputBuffer, toServer>>
       [] phase = "websocket" ->
            sendWebSocketBytes(<<typed'>>) /\ UNCHANGED <<inputBuffer, up>>
  /\ UNCHANGED <<server, finished, ready, phase, peer, timer, toClient, answered, near, far, down,
                 written, shown, entered>>

\* readyTimer
readyTimer ==
  /\ ~ready /\ connected
  /\ closeWithError("timeout")
  /\ UNCHANGED <<server, finished, ready, phase, peer, timer, inputBuffer, toClient, toServer, channel, streams>>

\* The close event: the command ends.
socketCloses ==
  /\ ~finished
  /\ finished' = TRUE /\ connected' = FALSE
  /\ stopPeer
  /\ inputBuffer' = <<>>
  /\ UNCHANGED <<server, ready, phase, failure, toClient, toServer, answered, far, down, up, streams>>

-----------------------------------------------------------------------------
ServerStep ==
  \/ TargetOpens \/ routeTcpOutput \/ createAnswer \/ negotiationTimer \/ acceptDataChannel \/ farCloses
  \/ message \/ channelInput \/ AttachmentEnds \/ LeaseElapses \/ LeaseExpires
ProxyStep ==
  \/ renewLease \/ sendOffer \/ clientTimer \/ socketMessage \/ nearOpens \/ nearCloses
  \/ channelMessage \/ onInput \/ readyTimer \/ socketCloses

Next == ServerStep \/ ProxyStep
Spec == Init /\ [][Next]_vars

\* Timers fire, an open connection delivers, a closed peer is noticed (ICE consent expires), a
\* socket that is closing closes.  Nothing makes a path come about or a lease be renewed.
FairSpec ==
  /\ Spec
  /\ WF_vars(message) /\ WF_vars(socketMessage) /\ WF_vars(channelMessage)
  /\ WF_vars(negotiationTimer) /\ WF_vars(clientTimer)
  /\ WF_vars(near = "closed" /\ farCloses)
  /\ WF_vars(LeaseElapses) /\ WF_vars(LeaseExpires)
  /\ WF_vars((~connected \/ ~attached) /\ socketCloses)

-----------------------------------------------------------------------------
(* Properties.                                                             *)

\* The proxy takes part in the handover: its end of the channel outlives a socket it is closing.
HandingOver == near = "open" /\ phase \in {"switching", "webrtc"}

\* The two halves belong together: the proxy still takes what the server sends on.
Joined == attached /\ CASE transport = "websocket" -> connected
                       [] transport = "switching" -> connected \/ HandingOver
                       [] transport = "webrtc"    -> HandingOver

\* Output on its way to ssh: on the WebSocket, held back for the switch, on the channel.
OnItsWay ==
  (IF connected THEN Carried("output", toClient) ELSE <<>>) \o
  (IF connected \/ HandingOver THEN outputBuffer ELSE <<>>) \o
  (IF HandingOver THEN Carried("output", down) ELSE <<>>)

\* ssh reads what sshd wrote, in order, once and without a gap while the connection holds, however
\* the handover ends, but for the piece that meets a full buffer of the switch: the server drops it
\* and falls back (see OutputComplete).
BufferFull  == transport = "switching" /\ Len(outputBuffer) >= Capacity
OutputPipe  == INSTANCE BytePipe WITH queue <- OnItsWay, open <- Joined, full <- BufferFull
OutputPiped == OutputPipe!Spec

\* "Couchview carries the complete SSH byte stream" (docs/guides/remote-bridge.md): while the
\* connection holds and nothing is on its way, ssh has read every piece sshd wrote.  The code breaks
\* it: the dropped piece of routeTcpOutput never comes.
OutputComplete == Joined /\ OnItsWay = <<>> => shown = [i \in 1..written |-> i]

\* Beside the types: sshd reads what ssh wrote from its beginning, in order, once and without a
\* gap; after the proxy gave up, still in order and once.
InputIntact ==
  /\ TypeOK
  /\ failure = "none" => \A i \in DOMAIN entered : entered[i] = i
  /\ \A i, j \in DOMAIN entered : i < j => entered[i] < entered[j]

\* A connection whose proxy is gone leaves no TCP connection to sshd behind, even where the server
\* does not see the WebSocket close: nobody renews the lease.
TargetReleased == finished ~> ~attached
=============================================================================
