-------------------------- MODULE RemoteBridgeProofs --------------------------
(***************************************************************************)
(* Proofs about one connection of the SSH bridge: sshd reads what ssh      *)
(* wrote, in order, once and without a gap, through the handover, its      *)
(* failures and the loss of either connection (InputIntact), and ssh reads *)
(* what sshd wrote in the same way: each step is one of BytePipe or none   *)
(* (OutputPiped, but for its fairness).                                    *)
(***************************************************************************)
EXTENDS RemoteBridge, ProofLemmas

Takes(q, r)  == q # <<>> /\ r = Tail(q)

\* Every input on its way is followed by the activation.
Followed(q) == FollowedBy(q, "input", "activate")

\* What the buffers and the connections carry.
Content ==
  /\ outputBuffer \in Seq(1..written) /\ inputBuffer \in Seq(1..typed)
  /\ \A m \in Range(toServer) : /\ m.kind \in {"input", "offer", "activate"}
                                /\ m.kind = "input" => m.n \in 1..typed
  /\ \A m \in Range(toClient) : /\ m.kind = "output" => m.n \in 1..written
                                /\ m.kind = "ready" => reached
  /\ \A m \in Range(down) : m.kind = "output" => m.n \in 1..written
  /\ \A m \in Range(up) : m.kind = "input" /\ m.n \in 1..typed

\* Before the first ready nothing is asked of the server.
NotReady ==
  /\ finished => ~connected
  /\ ~ready => /\ toServer = <<>> /\ ~negotiating /\ ~answering /\ ~answered
               /\ phase = "websocket"
               /\ peer = "none" \/ (peer = "gone" /\ finished)
               /\ \A m \in Range(toClient) : m.kind \in {"ready", "output", "error"}

\* One offer is made and answered once: it waits, is being answered, its answer waits or was applied.
OneOffer ==
  /\ Single(toServer, "offer")
  /\ peer \in {"none", "gathering"} \/ Has(toServer, "offer") =>
       ~answering /\ ~Has(toClient, "answer") /\ ~answered
  /\ peer \in {"none", "gathering"} => ~Has(toServer, "offer")
  /\ answering => ~Has(toClient, "answer") /\ ~answered
  /\ far # "new" \/ near = "open" => answered \/ far = "closed"
  /\ near = "open" => answered /\ peer = "offered"
  /\ near = "new" => peer # "gone"
  /\ transport # "websocket" => far = "open"

\* The server handed the stream over to the channel.
Handed == transport = "webrtc" \/ down # <<>> \/ phase = "webrtc"

\* One switch is announced and activated once, and all input on the WebSocket precedes it.
OneSwitch ==
  /\ Single(toClient, "switch") /\ Single(toServer, "activate")
  /\ Has(toClient, "switch") => ~Has(toServer, "activate") /\ phase = "websocket"
  /\ far = "new" \/ Handed => ~Has(toClient, "switch") /\ ~Has(toServer, "activate")
  /\ far = "new" => ~Handed /\ phase = "websocket"
  /\ Handed /\ attached => transport = "webrtc"
  /\ phase = "switching" => Followed(toServer)
  /\ phase = "webrtc" => ~Has(toServer, "input")
  /\ up # <<>> => phase = "webrtc"

\* What was read comes before what is under way, and that is in order, wherever it is.
Order ==
  /\ Ascends(entered) /\ Rising(toServer) /\ Ascends(inputBuffer) /\ Rising(up)
  /\ Before(Range(entered), Numbers(toServer) \cup Range(inputBuffer) \cup Numbers(up))
  /\ Before(Numbers(toServer), Range(inputBuffer))

\* No piece is missing: it was read or is under way, except the last ones of a command that ended.
Known == Range(entered) \cup Numbers(toServer) \cup Range(inputBuffer) \cup Numbers(up)
Whole ==
  failure = "none" =>
    /\ \A i \in DOMAIN entered : entered[i] = i
    /\ attached => \A m \in 1..typed : m \in Known \/ (finished /\ \A n \in Known : n < m)

\* The type invariant: flags and phases of the server
ServerFlags ==
  /\ attached \in BOOLEAN /\ reached \in BOOLEAN /\ negotiating \in BOOLEAN /\ answering \in BOOLEAN
  /\ transport \in {"websocket", "switching", "webrtc"}
  /\ lease \in {"fresh", "due"} /\ far \in Ends

\* and of the proxy,
ProxyFlags ==
  /\ connected \in BOOLEAN /\ finished \in BOOLEAN /\ ready \in BOOLEAN /\ timer \in BOOLEAN
  /\ answered \in BOOLEAN
  /\ phase \in {"websocket", "switching", "webrtc"}
  /\ peer \in {"none", "gathering", "offered", "gone"}
  /\ failure \in {"none", "direct", "full", "target", "timeout", "unexpected"}
  /\ near \in Ends

\* the connections and the buffers,
Buffers ==
  /\ toClient \in Seq(Message) /\ toServer \in Seq(Message)
  /\ down \in Seq(Message) /\ up \in Seq(Message)
  /\ written \in 0..MaxOutput /\ shown \in Seq(1..written)
  /\ typed \in 0..MaxInput /\ entered \in Seq(1..typed)
  /\ Len(outputBuffer) <= Capacity /\ Len(inputBuffer) <= Capacity

\* and what they say of each other.
Rules ==
  /\ transport # "websocket" => attached /\ negotiating
  /\ outputBuffer # <<>> => transport = "switching"
  /\ inputBuffer # <<>> => phase = "switching"
  /\ ready => reached
  /\ phase # "websocket" => peer = "offered" \/ finished
  /\ timer => peer = "offered" /\ phase = "websocket"

Types == ServerFlags /\ ProxyFlags /\ Buffers /\ Rules

IInv == Types /\ Content /\ NotReady /\ OneOffer /\ OneSwitch /\ Order /\ Whole

-----------------------------------------------------------------------------
(* Messages and buffers.                                                   *)

\* It is the type invariant of the model.
LEMMA TypesAre ==
  Types <=> TypeOK
BY Zenon DEF Types, ServerFlags, ProxyFlags, Buffers, Rules, TypeOK

\* Messages of a kind are messages,
LEMMA Messages ==
  \A k \in Kinds : Say(k) \in Message /\ Say(k).kind = k
BY DEF Say, Message

\* and so are the pieces of a buffer, of which an input keeps the order.
LEMMA PiecesParts ==
  ASSUME NEW k \in Kinds, NEW N \in SUBSET Nat, NEW s \in Seq(N)
  PROVE  /\ Pieces(k, s) \in Seq(Message)
         /\ \A m \in Range(Pieces(k, s)) : m.kind = k /\ m.n \in Range(s) /\ m.n \in N
         /\ \A j : Has(Pieces(k, s), j) <=> (j = k /\ s # <<>>)
         /\ k = "input" => /\ Numbers(Pieces(k, s)) = Range(s)
                           /\ Rising(Pieces(k, s)) <=> Ascends(s)
         /\ k # "input" => Numbers(Pieces(k, s)) = {} /\ Rising(Pieces(k, s))
<1>1. DOMAIN s = 1..Len(s) /\ Len(s) \in Nat /\ \A i \in DOMAIN s : s[i] \in Nat
  <2>1. DOMAIN s = 1..Len(s) /\ Len(s) \in Nat /\ \A i \in DOMAIN s : s[i] \in N
    OBVIOUS
  <2>2. QED BY <2>1
<1>2. Packs(Pieces(k, s), k, s)
  BY DEF Packs, Pieces
<1>3. Pieces(k, s) \in Seq(Message)
  <2>1. Pieces(k, s) = [i \in 1..Len(s) |-> [kind |-> k, n |-> s[i]]]
    BY <1>1 DEF Pieces
  <2>2. \A i \in 1..Len(s) : [kind |-> k, n |-> s[i]] \in Message
    BY <1>1 DEF Message
  <2>3. QED BY <1>1, <2>1, <2>2
<1> DEFINE r == Pieces(k, s)
<1>4. Packs(r, k, s)
  BY <1>2
<1> HIDE DEF r
<1>5. /\ \A m \in Range(r) : m.kind = k /\ m.n \in Range(s) /\ m.n \in N
      /\ \A j : Has(r, j) <=> (j = k /\ s # <<>>)
      /\ k = "input" => Numbers(r) = Range(s) /\ (Rising(r) <=> Ascends(s))
      /\ k # "input" => Numbers(r) = {} /\ Rising(r)
  BY <1>4, Packed, Zenon
<1>6. QED BY <1>3, <1>5 DEF r

\* An empty stream has nothing, and takes no room.
LEMMA Nothing ==
  Range(<<>>) = {} /\ Numbers(<<>>) = {} /\ (\A k : ~Has(<<>>, k)) /\ Len(<<>>) <= Capacity
BY BridgeAssumption DEF Range, Numbers, Has

\* What follows an activation, and what is left when a message is taken.
LEMMA Following ==
  ASSUME NEW S, NEW q \in Seq(S)
  PROVE  /\ \A m \in S : m.kind = "activate" => Followed(Append(q, m))
         /\ q # <<>> /\ Followed(q) => Followed(Tail(q))
         /\ Followed(q) /\ ~Has(q, "activate") => ~Has(q, "input")
BY FollowedParts DEF Followed

\* A fallback adds to what is sent that the direct path is unavailable, and the output held back.
FellBack(q, b) == q \o <<Say("unavailable")>> \o Pieces("output", b)

\* What is sent then.
LEMMA FallbackSent ==
  ASSUME NEW q \in Seq(Message), NEW N \in SUBSET Nat, NEW b \in Seq(N)
  PROVE  /\ FellBack(q, b) \in Seq(Message)
         /\ \A m \in Range(FellBack(q, b)) : \/ m \in Range(q) \/ m.kind = "unavailable"
                                             \/ (m.kind = "output" /\ m.n \in N)
         /\ \A k \in {"answer", "switch"} : /\ Has(FellBack(q, b), k) <=> Has(q, k)
                                            /\ Single(FellBack(q, b), k) <=> Single(q, k)
<1> DEFINE one == <<Say("unavailable")>>
           s   == q \o one
           p   == Pieces("output", b)
           r   == FellBack(q, b)
<1>1. one \in Seq(Message)
  BY Messages DEF Kinds
<1>2. s \in Seq(Message)
  BY <1>1
<1>3. /\ p \in Seq(Message) /\ \A m \in Range(p) : m.kind = "output" /\ m.n \in N
      /\ \A j : Has(p, j) <=> (j = "output" /\ b # <<>>)
  <2>1. "output" \in Kinds
    BY DEF Kinds
  <2>2. QED BY <2>1, PiecesParts
<1>5. /\ Range(one) = {Say("unavailable")}
      /\ \A k : Single(one, k) /\ (Has(one, k) <=> Say("unavailable").kind = k)
  BY OneMessage
<1>6. \A k \in {"answer", "switch"} : Single(p, k)
  BY <1>3 DEF Has, Single, Range
<1> HIDE DEF one, p
<1>7. /\ Range(s) = Range(q) \cup Range(one)
      /\ \A k : /\ Has(s, k) <=> (Has(q, k) \/ Has(one, k))
                /\ Single(s, k) <=> (Single(q, k) /\ Single(one, k) /\ ~(Has(q, k) /\ Has(one, k)))
  BY <1>1, JoinedRange, JoinedHas
<1> HIDE DEF s
<1>8. r = s \o p
  BY Zenon DEF s, one, p, r, FellBack
<1> HIDE DEF r
<1>9. /\ Range(s \o p) = Range(s) \cup Range(p)
      /\ \A k : /\ Has(s \o p, k) <=> (Has(s, k) \/ Has(p, k))
                /\ Single(s \o p, k) <=> (Single(s, k) /\ Single(p, k) /\ ~(Has(s, k) /\ Has(p, k)))
  BY <1>2, <1>3, JoinedRange, JoinedHas
<1>10. r \in Seq(Message)
  BY <1>2, <1>3, <1>8, ConcatProperties
<1>11. ASSUME NEW m \in Range(r)
       PROVE  \/ m \in Range(q) \/ m.kind = "unavailable" \/ (m.kind = "output" /\ m.n \in N)
  <2>1. m \in Range(q) \/ m = Say("unavailable") \/ m \in Range(p)
    BY <1>5, <1>7, <1>8, <1>9
  <2>2. QED BY <1>3, <2>1 DEF Say
<1>12. Say("unavailable").kind = "unavailable"
  BY DEF Say
<1>13. QED BY <1>3, <1>5, <1>6, <1>7, <1>8, <1>9, <1>10, <1>11, <1>12 DEF r
\* A stream of which at most the first message was taken has no more than before.
LEMMA LessLeft ==
  ASSUME NEW q \in Seq(Message), NEW r, r = q \/ Takes(q, r)
  PROVE  /\ r \in Seq(Message) /\ Range(r) \subseteq Range(q)
         /\ \A k : (Has(r, k) => Has(q, k)) /\ (Single(q, k) => Single(r, k))
         /\ Followed(q) => Followed(r)
         /\ Rising(q) => Rising(r)
         /\ Numbers(r) \subseteq Numbers(q)
         /\ q = <<>> => r = <<>>
<1>1. CASE r = q
  BY <1>1
<1>2. CASE Takes(q, r)
  <2>1. q # <<>> /\ r = Tail(q)
    BY <1>2 DEF Takes
  <2>2. /\ Tail(q) \in Seq(Message) /\ Range(q) = {Head(q)} \cup Range(Tail(q))
        /\ \A k : /\ Has(q, k) <=> (Head(q).kind = k \/ Has(Tail(q), k))
                  /\ Single(q, k) => /\ Single(Tail(q), k)
                                     /\ ~(Head(q).kind = k /\ Has(Tail(q), k))
        /\ Numbers(q) = {x \in {Head(q).n} : Head(q).kind = "input"} \cup Numbers(Tail(q))
        /\ Rising(q) => Rising(Tail(q))
    BY <2>1, Taken
  <2>3. Followed(q) => Followed(Tail(q))
    BY <2>1, Following
  <2>4. QED BY <2>1, <2>2, <2>3
<1>3. QED BY <1>1, <1>2

\* The streams are in order and whole while nothing is read but the messages that carry nothing;
\* and when the attachment is gone.
LEMMA StreamsStay ==
  ASSUME IInv,
         \/ toServer' = toServer
         \/ Takes(toServer, toServer') /\ (Head(toServer).kind # "input" \/ ~attached'),
         attached' => attached,
         UNCHANGED <<entered, inputBuffer, up, typed, finished, failure>>
  PROVE  Order' /\ Whole'
<1>1. toServer \in Seq(Message)
  BY DEF IInv, Types, Buffers
<1>2. /\ Numbers(toServer') \subseteq Numbers(toServer) /\ Rising(toServer')
      /\ attached' => Numbers(toServer') = Numbers(toServer)
  <2>1. Rising(toServer)
    BY DEF IInv, Order
  <2>2. CASE toServer' = toServer
    BY <2>1, <2>2
  <2>3. CASE Takes(toServer, toServer') /\ (Head(toServer).kind # "input" \/ ~attached')
    <3>1. toServer # <<>> /\ toServer' = Tail(toServer)
      BY <2>3 DEF Takes
    <3>2. /\ Numbers(toServer) = {x \in {Head(toServer).n} : Head(toServer).kind = "input"}
                                   \cup Numbers(Tail(toServer))
          /\ Rising(Tail(toServer))
      BY <1>1, <2>1, <3>1, Taken
    <3>3. QED BY <2>3, <3>1, <3>2
  <2>4. QED BY <2>2, <2>3
<1>3. Order'
  BY <1>2 DEF IInv, Order, Before
<1>4. Whole'
  <2> SUFFICES ASSUME failure' = "none"
               PROVE  /\ \A i \in DOMAIN entered' : entered'[i] = i
                      /\ attached' => \A m \in 1..typed' :
                           m \in Known' \/ (finished' /\ \A n \in Known' : n < m)
    BY DEF Whole
  <2>1. /\ \A i \in DOMAIN entered : entered[i] = i
        /\ attached => \A m \in 1..typed : m \in Known \/ (finished /\ \A n \in Known : n < m)
    BY DEF IInv, Whole
  <2>2. attached' => Known' = Known
    BY <1>2 DEF Known
  <2>3. QED BY <2>1, <2>2
<1>5. QED BY <1>3, <1>4

\* The negotiation falls back on the server, which may have read the message that made it do so.
LEMMA FallsBack ==
  ASSUME IInv, fallbackNegotiation, transport # "webrtc", ready, answering' \in BOOLEAN, answering' => answering,
         UNCHANGED <<proxy, shown, typed, entered>>,
         written' \in 0..MaxOutput, written <= written',
         \/ toServer' = toServer
         \/ Takes(toServer, toServer') /\ Head(toServer).kind # "input"
  PROVE  IInv'
<1>1. /\ toServer \in Seq(Message) /\ toClient \in Seq(Message) /\ outputBuffer \in Seq(1..written)
      /\ written \in Nat /\ written' \in Nat
  BY DEF IInv, Types, Buffers, Content
<1>2. /\ toServer' \in Seq(Message) /\ Range(toServer') \subseteq Range(toServer)
      /\ \A k : (Has(toServer', k) => Has(toServer, k)) /\ (Single(toServer, k) => Single(toServer', k))
      /\ Followed(toServer) => Followed(toServer')
  BY <1>1, LessLeft
<1>3. /\ toClient' \in Seq(Message)
      /\ \A m \in Range(toClient') : \/ m \in Range(toClient) \/ m.kind = "unavailable"
                                     \/ (m.kind = "output" /\ m.n \in 1..written)
      /\ \A k \in {"answer", "switch"} : /\ Has(toClient', k) <=> Has(toClient, k)
                                         /\ Single(toClient', k) <=> Single(toClient, k)
  <2>1. 1..written \in SUBSET Nat
    BY <1>1
  <2>2. toClient' = FellBack(toClient, outputBuffer)
    BY DEF fallbackNegotiation, FellBack
  <2>3. QED BY <1>1, <2>1, <2>2, FallbackSent
<1>4. /\ negotiating' = FALSE /\ outputBuffer' = <<>> /\ transport' = "websocket"
      /\ far' = IF far = "open" THEN "closed" ELSE far
      /\ UNCHANGED <<answered, near, down, up, attached, reached, lease, connected, finished, ready, phase,
                     peer, timer, inputBuffer, failure, shown, typed, entered>>
  BY DEF fallbackNegotiation, disposeWebRtc, proxy
<1>5. Types'
  <2>1. ServerFlags' /\ ProxyFlags'
    <3>1. ServerFlags /\ ProxyFlags
      BY DEF IInv, Types
    <3>2. far' \in Ends
      BY <1>4, <3>1 DEF ServerFlags, Ends
    <3>3. negotiating' \in BOOLEAN
      BY <1>4
    <3>4. QED BY <1>4, <3>1, <3>2, <3>3 DEF ServerFlags, ProxyFlags
  <2>2. Buffers'
    BY <1>1, <1>2, <1>3, <1>4, Nothing DEF IInv, Types, Buffers
  <2>3. Rules'
    BY <1>4 DEF IInv, Types, Rules
  <2>4. QED BY <2>1, <2>2, <2>3 DEF Types
<1>6. Content'
  BY <1>1, <1>2, <1>3, <1>4 DEF IInv, Content
<1>7. NotReady'
  BY <1>4 DEF IInv, NotReady
<1>8. OneOffer'
  BY <1>2, <1>3, <1>4 DEF IInv, OneOffer
<1>9. OneSwitch'
  <2>1. Handed' => Handed
    BY <1>4 DEF Handed
  <2>2. ~(Handed /\ attached)
    BY DEF IInv, OneSwitch
  <2>3. QED BY <1>2, <1>3, <1>4, <2>1, <2>2 DEF IInv, OneSwitch
<1>10. Order' /\ Whole'
  BY <1>4, StreamsStay
<1>11. QED BY <1>5, <1>6, <1>7, <1>8, <1>9, <1>10 DEF IInv
\* The attachment ends, whatever message it had just read.
LEMMA Destroyed ==
  ASSUME IInv, ~attached', disposeWebRtc, answering' = answering, lease' \in {"fresh", "due"},
         toClient' \in {toClient, Append(toClient, Say("error"))},
         UNCHANGED <<reached, proxy, shown, typed, entered>>, attached' \in BOOLEAN,
         written' \in 0..MaxOutput, written <= written',
         toServer' = toServer \/ Takes(toServer, toServer')
  PROVE  IInv'
<1>1. /\ toServer \in Seq(Message) /\ toClient \in Seq(Message) /\ outputBuffer \in Seq(1..written)
      /\ written \in Nat /\ written' \in Nat
  BY DEF IInv, Types, Buffers, Content
<1>2. /\ toServer' \in Seq(Message) /\ Range(toServer') \subseteq Range(toServer)
      /\ \A k : (Has(toServer', k) => Has(toServer, k)) /\ (Single(toServer, k) => Single(toServer', k))
      /\ Followed(toServer) => Followed(toServer')
      /\ toServer = <<>> => toServer' = <<>>
  BY <1>1, LessLeft
<1>3. /\ toClient' \in Seq(Message)
      /\ \A m \in Range(toClient') : m \in Range(toClient) \/ m.kind = "error"
      /\ \A k \in {"answer", "switch"} : /\ Has(toClient', k) <=> Has(toClient, k)
                                         /\ Single(toClient', k) <=> Single(toClient, k)
  <2>1. Say("error") \in Message /\ Say("error").kind = "error"
    BY Messages DEF Kinds
  <2>2. /\ Append(toClient, Say("error")) \in Seq(Message)
        /\ Range(Append(toClient, Say("error"))) = Range(toClient) \cup {Say("error")}
        /\ \A k : /\ Has(Append(toClient, Say("error")), k) <=> (Has(toClient, k) \/ Say("error").kind = k)
                  /\ Single(Append(toClient, Say("error")), k)
                       <=> (Single(toClient, k) /\ ~(Has(toClient, k) /\ Say("error").kind = k))
    BY <1>1, <2>1, Sent
  <2>3. CASE toClient' = toClient
    BY <1>1, <2>3
  <2>4. CASE toClient' = Append(toClient, Say("error"))
    BY <2>1, <2>2, <2>4
  <2>5. QED BY <2>3, <2>4
<1>4. /\ negotiating' = FALSE /\ outputBuffer' = <<>> /\ transport' = "websocket"
      /\ far' = IF far = "open" THEN "closed" ELSE far
      /\ UNCHANGED <<answered, near, down, up, reached, connected, finished, ready, phase,
                     peer, timer, inputBuffer, failure, shown, typed, entered>>
  BY DEF disposeWebRtc, proxy
<1>5. Types'
  <2>1. ServerFlags' /\ ProxyFlags'
    <3>1. ServerFlags /\ ProxyFlags
      BY DEF IInv, Types
    <3>2. far' \in Ends
      BY <1>4, <3>1 DEF ServerFlags, Ends
    <3>3. negotiating' \in BOOLEAN
      BY <1>4
    <3>4. QED BY <1>4, <3>1, <3>2, <3>3 DEF ServerFlags, ProxyFlags
  <2>2. Buffers'
    BY <1>1, <1>2, <1>3, <1>4, Nothing DEF IInv, Types, Buffers
  <2>3. Rules'
    BY <1>4 DEF IInv, Types, Rules
  <2>4. QED BY <2>1, <2>2, <2>3 DEF Types
<1>6. Content'
  BY <1>1, <1>2, <1>3, <1>4 DEF IInv, Content
<1>7. NotReady'
  BY <1>2, <1>3, <1>4 DEF IInv, NotReady
<1>8. OneOffer'
  BY <1>2, <1>3, <1>4 DEF IInv, OneOffer
<1>9. OneSwitch'
  <2>1. Handed' => Handed
    BY <1>4 DEF Handed
  <2>2. QED BY <1>2, <1>3, <1>4, <2>1 DEF IInv, OneSwitch
<1>10. Order' /\ Whole'
  BY <1>4, StreamsStay
<1>11. QED BY <1>5, <1>6, <1>7, <1>8, <1>9, <1>10 DEF IInv

\* Pieces of a buffer are sent.
LEMMA PiecesSent ==
  ASSUME NEW q \in Seq(Message), NEW k \in Kinds, NEW N \in SUBSET Nat, NEW s \in Seq(N)
  PROVE  /\ q \o Pieces(k, s) \in Seq(Message)
         /\ \A m \in Range(q \o Pieces(k, s)) :
              \/ m \in Range(q) \/ (m.kind = k /\ m.n \in Range(s) /\ m.n \in N)
         /\ \A j : j # k => /\ Has(q \o Pieces(k, s), j) <=> Has(q, j)
                            /\ Single(q, j) => Single(q \o Pieces(k, s), j)
         /\ k = "input" =>
              /\ Numbers(q \o Pieces(k, s)) = Numbers(q) \cup Range(s)
              /\ Rising(q) /\ Ascends(s) /\ Before(Numbers(q), Range(s)) => Rising(q \o Pieces(k, s))
<1> DEFINE p == Pieces(k, s)
<1>1. /\ p \in Seq(Message) /\ \A m \in Range(p) : m.kind = k /\ m.n \in Range(s) /\ m.n \in N
      /\ \A j : Has(p, j) <=> (j = k /\ s # <<>>)
      /\ k = "input" => Numbers(p) = Range(s) /\ (Rising(p) <=> Ascends(s))
  BY PiecesParts
<1> HIDE DEF p
<1>2. q \o p \in Seq(Message) /\ Range(q \o p) = Range(q) \cup Range(p)
  BY <1>1, JoinedRange
<1>3. ASSUME NEW j, j # k
      PROVE  (Has(q \o p, j) <=> Has(q, j)) /\ (Single(q, j) => Single(q \o p, j))
  <2>1. ~Has(p, j)
    BY <1>1, <1>3
  <2>2. Single(p, j)
    BY <2>1 DEF Has, Single, Range
  <2>3. /\ Has(q \o p, j) <=> (Has(q, j) \/ Has(p, j))
        /\ Single(q \o p, j) <=> (Single(q, j) /\ Single(p, j) /\ ~(Has(q, j) /\ Has(p, j)))
    BY <1>1, JoinedHas
  <2>4. QED BY <2>1, <2>2, <2>3
<1>4. /\ Numbers(q \o p) = Numbers(q) \cup Numbers(p)
      /\ Rising(q \o p) <=> (Rising(q) /\ Rising(p) /\ Before(Numbers(q), Numbers(p)))
  <2>1. Numbers(q \o p) = Numbers(q) \cup Numbers(p)
    BY <1>1, JoinedRising
  <2>2. Rising(q \o p) <=> (Rising(q) /\ Rising(p) /\ Before(Numbers(q), Numbers(p)))
    BY <1>1, JoinedRising
  <2>3. QED BY <2>1, <2>2
<1>5. \A m \in Range(q \o p) : m \in Range(q) \/ (m.kind = k /\ m.n \in Range(s) /\ m.n \in N)
  BY <1>1, <1>2
<1>6. ASSUME k = "input"
      PROVE  /\ Numbers(q \o p) = Numbers(q) \cup Range(s)
             /\ Rising(q) /\ Ascends(s) /\ Before(Numbers(q), Range(s)) => Rising(q \o p)
  <2>1. Numbers(p) = Range(s) /\ (Rising(p) <=> Ascends(s))
    BY <1>1, <1>6
  <2>2. QED BY <1>4, <2>1
<1>7. QED BY <1>2, <1>3, <1>5, <1>6 DEF p

\* One piece is sent.
LEMMA PieceSent ==
  ASSUME NEW q \in Seq(Message), NEW k \in Kinds, NEW n \in Nat
  PROVE  /\ q \o Pieces(k, <<n>>) \in Seq(Message)
         /\ \A m \in Range(q \o Pieces(k, <<n>>)) : m \in Range(q) \/ (m.kind = k /\ m.n = n)
         /\ \A j : j # k => /\ Has(q \o Pieces(k, <<n>>), j) <=> Has(q, j)
                            /\ Single(q, j) => Single(q \o Pieces(k, <<n>>), j)
         /\ k = "input" =>
              /\ Numbers(q \o Pieces(k, <<n>>)) = Numbers(q) \cup {n}
              /\ Rising(q) /\ Before(Numbers(q), {n}) => Rising(q \o Pieces(k, <<n>>))
<1> DEFINE s == <<n>>
<1>1. s \in Seq(Nat) /\ Range(s) = {n} /\ Ascends(s)
  <2>1. DOMAIN s = {1} /\ s[1] = n /\ s \in Seq(Nat)
    OBVIOUS
  <2>2. QED BY <2>1 DEF Range, Ascends
<1> HIDE DEF s
<1> DEFINE r == q \o Pieces(k, s)
<1>2. /\ r \in Seq(Message)
      /\ \A m \in Range(r) : m \in Range(q) \/ (m.kind = k /\ m.n \in Range(s) /\ m.n \in Nat)
      /\ \A j : j # k => /\ Has(r, j) <=> Has(q, j)
                         /\ Single(q, j) => Single(r, j)
      /\ k = "input" =>
           /\ Numbers(r) = Numbers(q) \cup Range(s)
           /\ Rising(q) /\ Ascends(s) /\ Before(Numbers(q), Range(s)) => Rising(r)
  BY <1>1, PiecesSent, Zenon
<1> HIDE DEF r
<1>3. /\ r \in Seq(Message)
      /\ \A m \in Range(r) : m \in Range(q) \/ (m.kind = k /\ m.n = n)
      /\ \A j : j # k => /\ Has(r, j) <=> Has(q, j)
                         /\ Single(q, j) => Single(r, j)
      /\ k = "input" =>
           /\ Numbers(r) = Numbers(q) \cup {n}
           /\ Rising(q) /\ Before(Numbers(q), {n}) => Rising(r)
  BY <1>1, <1>2
<1>4. QED BY <1>3 DEF r, s

-----------------------------------------------------------------------------
(* The steps of the server.                                                *)

\* Steps that touch neither end of a stream, and at most send one message that starts nothing.
LEMMA TargetOpensKeeps ==
  ASSUME IInv, TargetOpens
  PROVE  IInv'
<1>1. /\ reached' = TRUE /\ toClient' = Append(toClient, Say("ready"))
      /\ UNCHANGED <<attached, transport, negotiating, answering, outputBuffer, lease, proxy, toServer,
                     channel, streams>>
  BY DEF TargetOpens
<1>2. /\ toClient \in Seq(Message) /\ Say("ready") \in Message /\ Say("ready").kind = "ready"
  BY Messages DEF IInv, Types, Buffers, Kinds
<1>3. /\ toClient' \in Seq(Message) /\ Range(toClient') = Range(toClient) \cup {Say("ready")}
      /\ \A k : /\ Has(toClient', k) <=> (Has(toClient, k) \/ k = "ready")
                /\ Single(toClient', k) <=> (Single(toClient, k) /\ ~(Has(toClient, k) /\ k = "ready"))
  BY <1>1, <1>2, Sent
<1>4. UNCHANGED <<attached, transport, negotiating, answering, outputBuffer, lease, connected, finished,
                  ready, phase, peer, timer, inputBuffer, failure, toServer, answered, near, far, down,
                  up, written, shown, typed, entered>>
  BY <1>1 DEF proxy, channel, streams
<1>5. Types'
  <2>1. ServerFlags' /\ ProxyFlags'
    BY <1>1, <1>4 DEF IInv, Types, ServerFlags, ProxyFlags
  <2>2. Buffers'
    BY <1>3, <1>4 DEF IInv, Types, Buffers
  <2>3. Rules'
    BY <1>1, <1>4 DEF IInv, Types, Rules
  <2>4. QED BY <2>1, <2>2, <2>3 DEF Types
<1>6. Content'
  BY <1>1, <1>2, <1>3, <1>4 DEF IInv, Content
<1>7. NotReady'
  BY <1>2, <1>3, <1>4 DEF IInv, NotReady
<1>8. OneOffer'
  BY <1>3, <1>4 DEF IInv, OneOffer
<1>9. OneSwitch'
  BY <1>3, <1>4 DEF IInv, OneSwitch, Handed
<1>10. Order' /\ Whole'
  BY <1>4, StreamsStay
<1>11. QED BY <1>5, <1>6, <1>7, <1>8, <1>9, <1>10 DEF IInv
\* Output of sshd, wherever the stream is.
LEMMA RouteTcpOutputKeeps ==
  ASSUME IInv, routeTcpOutput
  PROVE  IInv'
<1>1. /\ attached /\ reached /\ written' = written + 1 /\ written < MaxOutput
      /\ UNCHANGED <<proxy, toServer, shown, typed, entered>>
  BY DEF routeTcpOutput
<1>2. /\ written \in Nat /\ written' \in Nat /\ written' \in 0..MaxOutput /\ written <= written'
      /\ written' \in 1..written' /\ Len(outputBuffer) \in Nat /\ Capacity \in Nat
      /\ outputBuffer \in Seq(1..written) /\ toClient \in Seq(Message) /\ down \in Seq(Message)
      /\ toServer \in Seq(Message)
      /\ transport \in {"websocket", "switching", "webrtc"}
  BY <1>1, BridgeAssumption DEF IInv, Types, ServerFlags, Buffers, Content
<1>3. CASE transport = "switching" /\ Len(outputBuffer) >= Capacity
  <2>1. fallbackNegotiation /\ answering' = answering
    BY <1>2, <1>3 DEF routeTcpOutput
  <2>2. ready /\ answering' \in BOOLEAN
    BY <1>3, <2>1 DEF IInv, Types, ServerFlags, Rules, NotReady
  <2>3. QED BY <1>1, <1>2, <1>3, <2>1, <2>2, FallsBack
<1>4. ASSUME transport = "webrtc", destroyAttachment
      PROVE  IInv'
  <2>1. /\ ~attached' /\ attached' \in BOOLEAN /\ disposeWebRtc /\ answering' = answering
        /\ lease' = lease /\ toClient' = toClient /\ reached' = reached
    BY <1>4 DEF destroyAttachment
  <2>2. lease' \in {"fresh", "due"}
    BY <2>1 DEF IInv, Types, ServerFlags
  <2>3. QED BY <1>1, <1>2, <2>1, <2>2, Destroyed
<1> DEFINE r == toClient \o Pieces("output", <<written'>>)
           d == down \o Pieces("output", <<written'>>)
<1>5. /\ r \in Seq(Message)
      /\ \A m \in Range(r) : m \in Range(toClient) \/ (m.kind = "output" /\ m.n = written')
      /\ \A j : j # "output" => /\ Has(r, j) <=> Has(toClient, j)
                                /\ Single(toClient, j) => Single(r, j)
  <2>1. "output" \in Kinds
    BY DEF Kinds
  <2>2. r \in Seq(Message) /\ \A m \in Range(r) : m \in Range(toClient) \/ (m.kind = "output" /\ m.n = written')
    BY <1>2, <2>1, PieceSent
  <2>3. \A j : j # "output" => /\ Has(r, j) <=> Has(toClient, j)
                               /\ Single(toClient, j) => Single(r, j)
    BY <1>2, <2>1, PieceSent
  <2>4. QED BY <2>2, <2>3
<1>6. d \in Seq(Message) /\ \A m \in Range(d) : m \in Range(down) \/ (m.kind = "output" /\ m.n = written')
  BY <1>2, PieceSent DEF Kinds
<1>7. ASSUME \/ transport = "websocket" /\ toClient' = r /\ UNCHANGED <<outputBuffer, down>>
             \/ /\ transport = "switching" /\ Len(outputBuffer) < Capacity
                /\ outputBuffer' = Append(outputBuffer, written') /\ UNCHANGED <<toClient, down>>
             \/ transport = "webrtc" /\ down' = d /\ UNCHANGED <<outputBuffer, toClient>>,
             UNCHANGED <<attached, reached, transport, negotiating, answering, lease, answered, near, far, up>>
      PROVE  IInv'
  <2> HIDE DEF r, d
  <2>1. UNCHANGED <<connected, finished, ready, phase, peer, timer, inputBuffer, failure>>
    BY <1>1 DEF proxy
  <2>2. /\ toClient' \in Seq(Message)
        /\ \A m \in Range(toClient') : m \in Range(toClient) \/ (m.kind = "output" /\ m.n = written')
        /\ \A j : j # "output" => /\ Has(toClient', j) <=> Has(toClient, j)
                                  /\ Single(toClient, j) => Single(toClient', j)
    BY <1>2, <1>5, <1>7
  <2>3. /\ down' \in Seq(Message)
        /\ \A m \in Range(down') : m \in Range(down) \/ (m.kind = "output" /\ m.n = written')
        /\ down' = down \/ transport = "webrtc"
    BY <1>2, <1>6, <1>7
  <2>4. /\ outputBuffer' \in Seq(1..written') /\ Len(outputBuffer') <= Capacity
        /\ outputBuffer' # <<>> => transport = "switching"
    <3>1. outputBuffer \in Seq(1..written') /\ Len(outputBuffer) <= Capacity
      BY <1>2 DEF IInv, Types, Buffers
    <3>2. CASE outputBuffer' = outputBuffer
      BY <3>1, <3>2 DEF IInv, Types, Rules
    <3>3. CASE /\ transport = "switching" /\ Len(outputBuffer) < Capacity
               /\ outputBuffer' = Append(outputBuffer, written')
      BY <1>2, <3>1, <3>3
    <3>4. QED BY <1>7, <3>2, <3>3
  <2>5. Types'
    <3>1. ServerFlags' /\ ProxyFlags'
      BY <1>7, <2>1 DEF IInv, Types, ServerFlags, ProxyFlags
    <3>2. Buffers'
      BY <1>1, <1>2, <1>7, <2>1, <2>2, <2>3, <2>4 DEF IInv, Types, Buffers
    <3>3. Rules'
      BY <1>7, <2>1, <2>4 DEF IInv, Types, Rules
    <3>4. QED BY <3>1, <3>2, <3>3 DEF Types
  <2>6. Content'
    BY <1>1, <1>2, <1>7, <2>1, <2>2, <2>3, <2>4 DEF IInv, Content
  <2>7. NotReady'
    BY <1>1, <1>7, <2>1, <2>2 DEF IInv, NotReady
  <2>8. OneOffer'
    BY <1>1, <1>7, <2>1, <2>2 DEF IInv, OneOffer
  <2>9. OneSwitch'
    <3>1. Handed' <=> Handed
      BY <1>7, <2>1, <2>3 DEF Handed
    <3>2. QED BY <1>1, <1>7, <2>1, <2>2, <3>1 DEF IInv, OneSwitch
  <2>10. Order' /\ Whole'
    BY <1>1, <1>7, <2>1, StreamsStay
  <2>11. QED BY <2>5, <2>6, <2>7, <2>8, <2>9, <2>10 DEF IInv
<1>8. CASE transport = "websocket"
  BY <1>7, <1>8 DEF routeTcpOutput, server, channel
<1>9. CASE transport = "switching" /\ Len(outputBuffer) < Capacity
  <2> HIDE DEF r, d
  <2>1. /\ transport # "websocket" /\ transport # "webrtc" /\ ~(Len(outputBuffer) >= Capacity)
    BY <1>2, <1>9
  <2>2. /\ outputBuffer' = Append(outputBuffer, written')
        /\ UNCHANGED <<attached, reached, transport, negotiating, answering, lease, toClient, channel>>
    BY <1>9, <2>1, Zenon DEF routeTcpOutput
  <2>3. UNCHANGED <<attached, reached, transport, negotiating, answering, lease, toClient, answered, near,
                    far, down, up>>
    BY <2>2 DEF channel
  <2>4. QED BY <1>7, <1>9, <2>2, <2>3
<1>10. CASE transport = "webrtc"
  BY <1>4, <1>7, <1>10 DEF routeTcpOutput, server
<1>11. QED BY <1>2, <1>3, <1>8, <1>9, <1>10

\* The negotiation timer of the server.
LEMMA NegotiationTimerKeeps ==
  ASSUME IInv, negotiationTimer
  PROVE  IInv'
<1>1. /\ negotiating /\ transport # "webrtc" /\ fallbackNegotiation
      /\ UNCHANGED <<answering, proxy, toServer, streams>>
  BY DEF negotiationTimer
<1>2. ready /\ answering' \in BOOLEAN /\ written \in 0..MaxOutput /\ written <= written
  BY <1>1, BridgeAssumption DEF IInv, Types, ServerFlags, Buffers, NotReady
<1>3. QED BY <1>1, <1>2, FallsBack DEF streams

\* The attachment is destroyed, and nothing else happens.
LEMMA AttachmentGoes ==
  ASSUME IInv, destroyAttachment, UNCHANGED <<proxy, shown, typed, entered, written>>,
         toServer' = toServer \/ Takes(toServer, toServer')
  PROVE  IInv'
<1>1. /\ ~attached' /\ attached' \in BOOLEAN /\ disposeWebRtc /\ answering' = answering
      /\ lease' = lease /\ toClient' = toClient /\ reached' = reached
  BY DEF destroyAttachment
<1>2. lease' \in {"fresh", "due"} /\ written \in 0..MaxOutput /\ written <= written
  BY <1>1, BridgeAssumption DEF IInv, Types, ServerFlags, Buffers
<1>3. QED BY <1>1, <1>2, Destroyed

\* The server's peer or channel closes.
LEMMA FarClosesKeeps ==
  ASSUME IInv, farCloses
  PROVE  IInv'
<1>1. negotiating /\ UNCHANGED <<proxy, toServer, shown, typed, entered, written>>
  BY DEF farCloses, streams
<1>2. CASE transport = "webrtc"
  BY <1>1, <1>2, AttachmentGoes DEF farCloses
<1>3. CASE transport # "webrtc"
  <2>1. fallbackNegotiation /\ answering' = answering
    BY <1>3 DEF farCloses
  <2>2. ready /\ answering' \in BOOLEAN /\ written \in 0..MaxOutput /\ written <= written
    BY <1>1, <2>1, BridgeAssumption DEF IInv, Types, ServerFlags, Buffers, NotReady
  <2>3. QED BY <1>1, <1>3, <2>1, <2>2, FallsBack
<1>4. QED BY <1>2, <1>3

\* The attachment ends, or its lease does.
LEMMA EndsKeep ==
  ASSUME IInv, AttachmentEnds \/ LeaseElapses \/ LeaseExpires
  PROVE  IInv'
<1>1. CASE AttachmentEnds
  <2>1. /\ ~attached' /\ attached' \in BOOLEAN /\ disposeWebRtc
        /\ toClient' \in {toClient, Append(toClient, Say("error"))}
        /\ UNCHANGED <<reached, answering, lease, proxy, toServer, written, shown, typed, entered>>
    BY <1>1 DEF AttachmentEnds, streams
  <2>2. lease' \in {"fresh", "due"} /\ written \in 0..MaxOutput /\ written <= written
    BY <2>1, BridgeAssumption DEF IInv, Types, ServerFlags, Buffers
  <2>3. QED BY <2>1, <2>2, Destroyed
<1>2. CASE LeaseExpires
  BY <1>2, AttachmentGoes DEF LeaseExpires, streams
<1>3. CASE LeaseElapses
  <2>1. /\ lease' = "due"
        /\ UNCHANGED <<attached, reached, transport, negotiating, answering, outputBuffer, connected, finished,
                       ready, phase, peer, timer, inputBuffer, failure, toClient, toServer, answered, near,
                       far, down, up, written, shown, typed, entered>>
    BY <1>3 DEF LeaseElapses, proxy, channel, streams
  <2>2. Types'
    BY <2>1 DEF IInv, Types, ServerFlags, ProxyFlags, Buffers, Rules
  <2>3. Content' /\ NotReady' /\ OneOffer' /\ OneSwitch'
    BY <2>1 DEF IInv, Content, NotReady, OneOffer, OneSwitch, Handed
  <2>4. QED BY <2>1, <2>2, <2>3, StreamsStay DEF IInv
<1>4. QED BY <1>1, <1>2, <1>3
\* The rest of the negotiation: the answer is sent, or it falls back, or is over.
LEMMA CreateAnswerKeeps ==
  ASSUME IInv, createAnswer
  PROVE  IInv'
<1>1. answering /\ answering' = FALSE /\ UNCHANGED <<proxy, toServer, written, shown, typed, entered>>
  BY DEF createAnswer, streams
<1>2. /\ ready /\ answered = FALSE /\ transport # "webrtc" /\ written \in 0..MaxOutput /\ written <= written
      /\ ~Has(toServer, "offer") /\ peer \notin {"none", "gathering"} /\ toClient \in Seq(Message)
  <2>1. ready /\ written \in 0..MaxOutput /\ toClient \in Seq(Message)
    BY <1>1 DEF IInv, Types, Buffers, NotReady
  <2>2. answered = FALSE /\ ~Has(toServer, "offer") /\ peer \notin {"none", "gathering"}
    BY <1>1 DEF IInv, OneOffer, Types, ProxyFlags
  <2>3. transport # "webrtc"
    BY <2>2 DEF IInv, OneOffer
  <2>4. written <= written
    BY <2>1, BridgeAssumption
  <2>5. QED BY <2>1, <2>2, <2>3, <2>4
<1>3. CASE fallbackNegotiation
  <2>1. answering' \in BOOLEAN /\ (answering' => answering)
    BY <1>1
  <2>2. QED BY <1>1, <1>2, <1>3, <2>1, FallsBack
<1>4. CASE /\ toClient' \in {toClient, Append(toClient, Say("answer"))}
           /\ UNCHANGED <<attached, reached, transport, negotiating, outputBuffer, lease, channel>>
  <2>1. UNCHANGED <<attached, reached, transport, negotiating, outputBuffer, lease, connected, finished,
                    ready, phase, peer, timer, inputBuffer, failure, toServer, answered, near, far, down,
                    up, written, shown, typed, entered>>
    BY <1>1, <1>4 DEF proxy, channel
  <2>2. /\ toClient' \in Seq(Message) /\ \A m \in Range(toClient') : m \in Range(toClient) \/ m.kind = "answer"
        /\ \A k : k # "answer" => /\ Has(toClient', k) <=> Has(toClient, k)
                                  /\ Single(toClient', k) <=> Single(toClient, k)
    <3>1. Say("answer") \in Message /\ Say("answer").kind = "answer"
      BY Messages DEF Kinds
    <3>2. /\ Append(toClient, Say("answer")) \in Seq(Message)
          /\ Range(Append(toClient, Say("answer"))) = Range(toClient) \cup {Say("answer")}
          /\ \A k : /\ Has(Append(toClient, Say("answer")), k) <=> (Has(toClient, k) \/ Say("answer").kind = k)
                    /\ Single(Append(toClient, Say("answer")), k)
                         <=> (Single(toClient, k) /\ ~(Has(toClient, k) /\ Say("answer").kind = k))
      BY <1>2, <3>1, Sent
    <3>3. CASE toClient' = toClient
      BY <1>2, <3>3
    <3>4. CASE toClient' = Append(toClient, Say("answer"))
      BY <3>1, <3>2, <3>4
    <3>5. QED BY <1>4, <3>3, <3>4
  <2>3. Types'
    <3>1. ServerFlags' /\ ProxyFlags'
      <4>1. answering' \in BOOLEAN
        BY <1>1
      <4>2. QED BY <2>1, <4>1 DEF IInv, Types, ServerFlags, ProxyFlags
    <3>2. Buffers'
      BY <2>1, <2>2 DEF IInv, Types, Buffers
    <3>3. Rules'
      BY <2>1 DEF IInv, Types, Rules
    <3>4. QED BY <3>1, <3>2, <3>3 DEF Types
  <2>4. Content'
    BY <2>1, <2>2 DEF IInv, Content
  <2>5. NotReady'
    BY <1>2, <2>1 DEF IInv, NotReady
  <2>6. OneOffer'
    BY <1>1, <1>2, <2>1 DEF IInv, OneOffer
  <2>7. OneSwitch'
    <3>1. Handed' <=> Handed
      BY <2>1 DEF Handed
    <3>2. QED BY <2>1, <2>2, <3>1 DEF IInv, OneSwitch
  <2>8. Order' /\ Whole'
    BY <2>1, StreamsStay
  <2>9. QED BY <2>3, <2>4, <2>5, <2>6, <2>7, <2>8 DEF IInv
<1>5. QED BY <1>3, <1>4 DEF createAnswer

\* The proxy's channel reaches the peer: the switch is announced, or the channel is closed.
LEMMA AcceptDataChannelKeeps ==
  ASSUME IInv, acceptDataChannel
  PROVE  IInv'
<1>1. /\ answered /\ far = "new" /\ near # "closed"
      /\ UNCHANGED <<attached, reached, negotiating, answering, outputBuffer, lease, connected, finished,
                     ready, phase, peer, timer, inputBuffer, failure, toServer, answered, near, down, up,
                     written, shown, typed, entered>>
  BY DEF acceptDataChannel, proxy, streams
<1>2. /\ ready /\ transport = "websocket" /\ outputBuffer = <<>> /\ ~Handed /\ phase = "websocket"
      /\ ~Has(toClient, "switch") /\ ~Has(toServer, "activate") /\ toClient \in Seq(Message)
      /\ down = <<>> /\ answering = FALSE
  <2>1. ready /\ transport = "websocket" /\ toClient \in Seq(Message) /\ answering = FALSE
    BY <1>1 DEF IInv, Types, ServerFlags, Buffers, NotReady, OneOffer
  <2>2. ~Handed /\ phase = "websocket" /\ ~Has(toClient, "switch") /\ ~Has(toServer, "activate")
    BY <1>1 DEF IInv, OneSwitch
  <2>3. QED BY <2>1, <2>2 DEF IInv, Types, Rules, Handed
<1>3. Say("switch") \in Message /\ Say("switch").kind = "switch"
  BY Messages DEF Kinds
<1>4. \/ /\ attached /\ negotiating /\ far' = "open" /\ transport' = "switching"
         /\ toClient' = Append(toClient, Say("switch"))
      \/ far' = "closed" /\ transport' = "websocket" /\ toClient' = toClient
  BY <1>2 DEF acceptDataChannel
<1>5. /\ toClient' \in Seq(Message) /\ \A m \in Range(toClient') : m \in Range(toClient) \/ m.kind = "switch"
      /\ \A k : k # "switch" => /\ Has(toClient', k) <=> Has(toClient, k)
                                /\ Single(toClient', k) <=> Single(toClient, k)
      /\ Single(toClient', "switch")
  <2>1. /\ Append(toClient, Say("switch")) \in Seq(Message)
        /\ Range(Append(toClient, Say("switch"))) = Range(toClient) \cup {Say("switch")}
        /\ \A k : /\ Has(Append(toClient, Say("switch")), k) <=> (Has(toClient, k) \/ Say("switch").kind = k)
                  /\ Single(Append(toClient, Say("switch")), k)
                       <=> (Single(toClient, k) /\ ~(Has(toClient, k) /\ Say("switch").kind = k))
    BY <1>2, <1>3, Sent
  <2>2. Single(toClient, "switch")
    BY DEF IInv, OneSwitch
  <2>3. CASE toClient' = toClient
    BY <1>2, <2>2, <2>3
  <2>4. CASE toClient' = Append(toClient, Say("switch"))
    BY <1>2, <1>3, <2>1, <2>2, <2>4
  <2>5. QED BY <1>4, <2>3, <2>4
<1>6. Types'
  <2>1. ServerFlags' /\ ProxyFlags'
    BY <1>1, <1>4 DEF IInv, Types, ServerFlags, ProxyFlags, Ends
  <2>2. Buffers'
    BY <1>1, <1>5 DEF IInv, Types, Buffers
  <2>3. Rules'
    BY <1>1, <1>2, <1>4 DEF IInv, Types, Rules
  <2>4. QED BY <2>1, <2>2, <2>3 DEF Types
<1>7. Content'
  BY <1>1, <1>5 DEF IInv, Content
<1>8. NotReady'
  BY <1>1, <1>2 DEF IInv, NotReady
<1>9. OneOffer'
  BY <1>1, <1>2, <1>4, <1>5 DEF IInv, OneOffer
<1>10. OneSwitch'
  <2>1. ~Handed'
    BY <1>1, <1>2, <1>4 DEF Handed
  <2>2. far' # "new" /\ Has(toServer', "activate") = Has(toServer, "activate")
    BY <1>1, <1>4
  <2>3. QED BY <1>1, <1>2, <1>5, <2>1, <2>2 DEF IInv, OneSwitch
<1>11. Order' /\ Whole'
  BY <1>1, StreamsStay
<1>12. QED BY <1>6, <1>7, <1>8, <1>9, <1>10, <1>11 DEF IInv
\* The server reads the least piece on its way, which is the next one while nothing failed.
LEMMA Reads ==
  ASSUME IInv, attached,
         NEW n \in 1..typed, NEW Rest,
         entered' = Append(entered, n),
         Numbers(toServer) \cup Range(inputBuffer) \cup Numbers(up) = {n} \cup Rest,
         Numbers(toServer') \cup Range(inputBuffer') \cup Numbers(up') = Rest,
         \A x \in Rest : n < x,
         Rising(toServer'), Rising(up'), Before(Numbers(toServer'), Range(inputBuffer')),
         UNCHANGED <<inputBuffer, typed, finished, failure>>
  PROVE  /\ Order' /\ Whole'
         /\ entered' \in Seq(1..typed')
<1>1. /\ typed \in Nat /\ entered \in Seq(1..typed) /\ Ascends(entered)
      /\ \A x \in Range(entered) : x < n
  <2>1. typed \in Nat /\ entered \in Seq(1..typed) /\ Ascends(entered)
    BY BridgeAssumption DEF IInv, Types, Buffers, Order
  <2>2. n \in Numbers(toServer) \cup Range(inputBuffer) \cup Numbers(up)
    OBVIOUS
  <2>3. QED BY <2>1, <2>2 DEF IInv, Order, Before
<1>2. /\ entered' \in Seq(1..typed) /\ Range(entered') = Range(entered) \cup {n} /\ Ascends(entered')
  BY <1>1, Written
<1>3. /\ Len(entered) \in Nat /\ DOMAIN entered = 1..Len(entered) /\ DOMAIN entered' = 1..(Len(entered) + 1)
      /\ \A i \in DOMAIN entered : entered'[i] = entered[i] /\ entered[i] \in Range(entered)
      /\ entered'[Len(entered) + 1] = n /\ n \in Nat /\ n >= 1 /\ n <= typed
  BY <1>1 DEF Range
<1>4. Order'
  <2>1. Before(Range(entered'), Rest)
    BY <1>2 DEF IInv, Order, Before
  <2>2. Ascends(inputBuffer')
    BY DEF IInv, Order
  <2>3. QED BY <1>2, <2>1, <2>2 DEF Order
<1>5. Whole'
  <2> SUFFICES ASSUME failure' = "none"
               PROVE  /\ \A i \in DOMAIN entered' : entered'[i] = i
                      /\ \A m \in 1..typed' : m \in Known' \/ (finished' /\ \A x \in Known' : x < m)
    BY DEF Whole
  <2>1. /\ \A i \in DOMAIN entered : entered[i] = i
        /\ \A m \in 1..typed : m \in Known \/ (finished /\ \A x \in Known : x < m)
    BY DEF IInv, Whole
  <2>2. Known = Range(entered) \cup {n} \cup Rest /\ Known' = Known
    BY <1>2 DEF Known
  <2> DEFINE k == Len(entered) + 1
  <2>3. k \in Nat /\ k >= 1 /\ k <= n
    <3>1. CASE Len(entered) = 0
      BY <1>3, <3>1
    <3>2. CASE Len(entered) > 0
      <4>1. Len(entered) \in DOMAIN entered
        BY <1>3, <3>2
      <4>2. Len(entered) < n
        BY <1>1, <1>3, <2>1, <4>1
      <4>3. QED BY <1>3, <4>2
    <3>3. QED BY <1>3, <3>1, <3>2
  <2>4. k = n
    <3> SUFFICES ASSUME k < n
                 PROVE  FALSE
      BY <1>3, <2>3
    <3>1. k \in 1..typed
      BY <1>1, <1>3, <2>3
    <3>2. n \in Known
      BY <2>2
    <3>3. ~(n < k)
      BY <1>3, <2>3
    <3>4. k \in Known
      BY <2>1, <3>1, <3>2, <3>3
    <3>5. k \notin Range(entered)
      <4>1. \A i \in DOMAIN entered : i # k
        BY <1>3
      <4>2. QED BY <2>1, <4>1 DEF Range
    <3>6. k # n /\ ~(n < k)
      BY <1>3, <2>3
    <3>7. QED BY <2>2, <3>4, <3>5, <3>6
  <2>5. ASSUME NEW i \in DOMAIN entered'
        PROVE  entered'[i] = i
    <3>1. i \in DOMAIN entered \/ i = k
      BY <1>3
    <3>2. QED BY <1>3, <2>1, <2>4, <3>1
  <2>6. QED BY <2>1, <2>2, <2>5
<1>6. QED BY <1>2, <1>4, <1>5

\* The server reads a message.
LEMMA MessageTaken ==
  ASSUME IInv, message
  PROVE  /\ Takes(toServer, toServer') /\ ready
         /\ toServer' \in Seq(Message) /\ Range(toServer') \subseteq Range(toServer)
         /\ \A k : /\ Has(toServer', k) => Has(toServer, k)
                   /\ Single(toServer, k) => Single(toServer', k) /\ ~(Head(toServer).kind = k /\ Has(toServer', k))
         /\ Followed(toServer) => Followed(toServer')
         /\ Head(toServer) \in Range(toServer) /\ Has(toServer, Head(toServer).kind)
         /\ Head(toServer).kind \in {"input", "offer", "activate"}
         /\ Head(toServer).kind = "input" => Head(toServer).n \in 1..typed
         /\ UNCHANGED <<connected, finished, ready, phase, peer, timer, inputBuffer, failure, written, shown,
                        typed>>
<1>1. /\ toServer # <<>> /\ toServer' = Tail(toServer)
      /\ UNCHANGED <<connected, finished, ready, phase, peer, timer, inputBuffer, failure, written, shown,
                     typed>>
  BY DEF message, proxy
<1>2. toServer \in Seq(Message) /\ ready
  BY <1>1 DEF IInv, Types, Buffers, NotReady
<1>3. /\ Range(toServer) = {Head(toServer)} \cup Range(Tail(toServer))
      /\ \A k : /\ Has(toServer, k) <=> (Head(toServer).kind = k \/ Has(Tail(toServer), k))
                /\ Single(toServer, k) => /\ Single(Tail(toServer), k)
                                          /\ ~(Head(toServer).kind = k /\ Has(Tail(toServer), k))
      /\ Tail(toServer) \in Seq(Message)
  BY <1>1, <1>2, Taken
<1>4. Followed(toServer) => Followed(Tail(toServer))
  BY <1>1, <1>2, Following
<1>5. Head(toServer) \in Range(toServer)
  BY <1>3
<1>6. /\ Head(toServer).kind \in {"input", "offer", "activate"}
      /\ Head(toServer).kind = "input" => Head(toServer).n \in 1..typed
  BY <1>5 DEF IInv, Content
<1>7. QED BY <1>1, <1>2, <1>3, <1>4, <1>5, <1>6 DEF Takes

\* It reads a piece of input.
LEMMA InputRead ==
  ASSUME IInv, message, attached, Head(toServer).kind = "input", transport # "webrtc"
  PROVE  IInv'
<1> DEFINE n == Head(toServer).n
           t == Tail(toServer)
<1>1. /\ toServer # <<>> /\ toServer' = t /\ entered' = Append(entered, n)
      /\ UNCHANGED <<server, toClient, channel>>
  BY DEF message
<1>2. /\ UNCHANGED <<attached, reached, transport, negotiating, answering, outputBuffer, lease, toClient,
                     answered, near, far, down, up>>
  BY <1>1 DEF server, channel
<1>3. /\ ready /\ toServer' \in Seq(Message) /\ Range(toServer') \subseteq Range(toServer)
      /\ \A k : (Has(toServer', k) => Has(toServer, k)) /\ (Single(toServer, k) => Single(toServer', k))
      /\ Followed(toServer) => Followed(toServer')
      /\ n \in 1..typed /\ Has(toServer, "input")
      /\ UNCHANGED <<connected, finished, ready, phase, peer, timer, inputBuffer, failure, written, shown,
                     typed>>
  BY MessageTaken
<1>4. /\ Numbers(toServer) = {n} \cup Numbers(t) /\ Rising(t) /\ \A x \in Numbers(t) : n < x
  <2>1. toServer \in Seq(Message) /\ Rising(toServer)
    BY DEF IInv, Types, Buffers, Order
  <2>2. /\ Numbers(toServer) = {x \in {Head(toServer).n} : Head(toServer).kind = "input"} \cup Numbers(Tail(toServer))
        /\ Rising(toServer) => /\ Rising(Tail(toServer))
                               /\ Head(toServer).kind = "input" =>
                                    \A x \in Numbers(Tail(toServer)) : Head(toServer).n < x
    BY <1>1, <2>1, Taken
  <2>3. QED BY <2>1, <2>2
<1>5. up = <<>> /\ Numbers(up) = {}
  BY <1>3, Nothing DEF IInv, OneSwitch
<1> DEFINE Rest == Numbers(toServer') \cup Range(inputBuffer') \cup Numbers(up')
<1>6. /\ Numbers(toServer) \cup Range(inputBuffer) \cup Numbers(up) = {n} \cup Rest
      /\ \A x \in Rest : n < x
      /\ Rising(toServer') /\ Rising(up') /\ Before(Numbers(toServer'), Range(inputBuffer'))
  <2>1. Before(Numbers(toServer), Range(inputBuffer)) /\ Rising(up)
    BY DEF IInv, Order
  <2>2. \A x \in Range(inputBuffer) : n < x
    BY <1>4, <2>1 DEF Before
  <2>3. QED BY <1>1, <1>2, <1>3, <1>4, <1>5, <2>1, <2>2 DEF Before
<1> HIDE DEF n, t
<1>7. Order' /\ Whole' /\ entered' \in Seq(1..typed')
  <2> HIDE DEF Rest
  <2>1. Numbers(toServer') \cup Range(inputBuffer') \cup Numbers(up') = Rest
    BY DEF Rest
  <2>2. QED BY <1>1, <1>3, <1>6, <2>1, Reads
<1>8. Types'
  <2>1. ServerFlags' /\ ProxyFlags'
    BY <1>2, <1>3 DEF IInv, Types, ServerFlags, ProxyFlags
  <2>2. Buffers'
    BY <1>2, <1>3, <1>7 DEF IInv, Types, Buffers
  <2>3. Rules'
    BY <1>2, <1>3 DEF IInv, Types, Rules
  <2>4. QED BY <2>1, <2>2, <2>3 DEF Types
<1>9. Content' /\ NotReady'
  BY <1>2, <1>3 DEF IInv, Content, NotReady
<1>10. OneOffer'
  BY <1>2, <1>3 DEF IInv, OneOffer
<1>11. OneSwitch'
  <2>1. Handed' <=> Handed
    BY <1>2, <1>3 DEF Handed
  <2>2. QED BY <1>2, <1>3, <2>1 DEF IInv, OneSwitch
<1>12. QED BY <1>7, <1>8, <1>9, <1>10, <1>11 DEF IInv
\* It reads the offer.
LEMMA OfferRead ==
  ASSUME IInv, message, attached, Head(toServer).kind = "offer"
  PROVE  IInv'
<1>1. /\ Takes(toServer, toServer') /\ ready
      /\ toServer' \in Seq(Message) /\ Range(toServer') \subseteq Range(toServer)
      /\ \A k : (Has(toServer', k) => Has(toServer, k)) /\ (Single(toServer, k) => Single(toServer', k))
      /\ Followed(toServer) => Followed(toServer')
      /\ Has(toServer, "offer") /\ ~Has(toServer', "offer")
      /\ UNCHANGED <<connected, finished, ready, phase, peer, timer, inputBuffer, failure, written, shown,
                     typed>>
  <2>1. Single(toServer, "offer")
    BY DEF IInv, OneOffer
  <2>2. QED BY <2>1, MessageTaken
<1>2. Offered /\ entered' = entered
  BY DEF message
<1>3. /\ ~answering /\ ~Has(toClient, "answer") /\ ~answered /\ peer \notin {"none", "gathering"}
      /\ toClient \in Seq(Message)
  BY <1>1 DEF IInv, OneOffer, Types, Buffers
<1>4. Say("unavailable") \in Message /\ Say("unavailable").kind = "unavailable"
  BY Messages DEF Kinds
<1>5. /\ Append(toClient, Say("unavailable")) \in Seq(Message)
      /\ Range(Append(toClient, Say("unavailable"))) = Range(toClient) \cup {Say("unavailable")}
      /\ \A k : /\ Has(Append(toClient, Say("unavailable")), k)
                     <=> (Has(toClient, k) \/ Say("unavailable").kind = k)
                /\ Single(Append(toClient, Say("unavailable")), k)
                     <=> (Single(toClient, k) /\ ~(Has(toClient, k) /\ Say("unavailable").kind = k))
  BY <1>3, <1>4, Sent
<1>6. /\ toClient' = Append(toClient, Say("unavailable")) \/ toClient' = toClient
      /\ negotiating' \in {negotiating, TRUE} /\ answering' \in {answering, TRUE}
      /\ negotiating => negotiating'
      /\ UNCHANGED <<attached, reached, transport, outputBuffer, lease, answered, near, far, down, up>>
  <2>1. CASE toClient' = Append(toClient, Say("unavailable")) /\ UNCHANGED <<server, channel>>
    BY <2>1 DEF server, channel
  <2>2. CASE /\ negotiating' = TRUE /\ answering' = TRUE
             /\ UNCHANGED <<attached, reached, transport, outputBuffer, lease, toClient, channel>>
    BY <2>2 DEF channel
  <2>3. QED BY <1>2, <2>1, <2>2 DEF Offered
<1>7. /\ toClient' \in Seq(Message)
      /\ \A m \in Range(toClient') : m \in Range(toClient) \/ m.kind = "unavailable"
      /\ \A k : k # "unavailable" => /\ Has(toClient', k) <=> Has(toClient, k)
                                     /\ Single(toClient', k) <=> Single(toClient, k)
  <2>1. CASE toClient' = Append(toClient, Say("unavailable"))
    BY <1>4, <1>5, <2>1
  <2>2. CASE toClient' = toClient
    BY <1>3, <2>2
  <2>3. QED BY <1>6, <2>1, <2>2
<1>8. Types'
  <2>1. ServerFlags' /\ ProxyFlags'
    <3>1. negotiating \in BOOLEAN /\ answering \in BOOLEAN
      BY DEF IInv, Types, ServerFlags
    <3>2. negotiating' \in BOOLEAN /\ answering' \in BOOLEAN
      BY <1>6, <3>1
    <3>3. QED BY <1>1, <1>6, <3>2 DEF IInv, Types, ServerFlags, ProxyFlags
  <2>2. Buffers'
    BY <1>1, <1>2, <1>6, <1>7 DEF IInv, Types, Buffers
  <2>3. Rules'
    BY <1>1, <1>6 DEF IInv, Types, Rules
  <2>4. QED BY <2>1, <2>2, <2>3 DEF Types
<1>9. Content'
  BY <1>1, <1>6, <1>7 DEF IInv, Content
<1>10. NotReady'
  BY <1>1 DEF IInv, NotReady
<1>11. OneOffer'
  BY <1>1, <1>3, <1>6, <1>7 DEF IInv, OneOffer
<1>12. OneSwitch'
  <2>1. Handed' <=> Handed
    BY <1>1, <1>6 DEF Handed
  <2>2. QED BY <1>1, <1>6, <1>7, <2>1 DEF IInv, OneSwitch
<1>13. Order' /\ Whole'
  BY <1>1, <1>2, <1>6, StreamsStay
<1>14. QED BY <1>8, <1>9, <1>10, <1>11, <1>12, <1>13 DEF IInv

\* It reads the activation: the stream is handed over, or the attachment ends, or it falls back.
LEMMA ActivateRead ==
  ASSUME IInv, message, attached, Head(toServer).kind = "activate"
  PROVE  IInv'
<1>1. /\ Takes(toServer, toServer') /\ ready
      /\ toServer' \in Seq(Message) /\ Range(toServer') \subseteq Range(toServer)
      /\ \A k : (Has(toServer', k) => Has(toServer, k)) /\ (Single(toServer, k) => Single(toServer', k))
      /\ Followed(toServer) => Followed(toServer')
      /\ Has(toServer, "activate") /\ ~Has(toServer', "activate")
      /\ UNCHANGED <<connected, finished, ready, phase, peer, timer, inputBuffer, failure, written, shown,
                     typed>>
  <2>1. Single(toServer, "activate")
    BY DEF IInv, OneSwitch
  <2>2. QED BY <2>1, MessageTaken
<1>2. Activated /\ entered' = entered /\ UNCHANGED <<proxy, written, shown, typed>>
  BY DEF message
<1>3. /\ ~Handed /\ transport # "webrtc" /\ far # "new" /\ ~Has(toClient, "switch")
      /\ answering \in BOOLEAN /\ written \in 0..MaxOutput /\ written <= written
      /\ outputBuffer \in Seq(1..written) /\ 1..written \in SUBSET Nat /\ down \in Seq(Message)
  <2>1. ~Handed /\ far # "new" /\ ~Has(toClient, "switch")
    BY <1>1 DEF IInv, OneSwitch
  <2>2. /\ written \in 0..MaxOutput /\ answering \in BOOLEAN
        /\ outputBuffer \in Seq(1..written) /\ down \in Seq(Message)
    BY DEF IInv, Types, ServerFlags, Buffers, Content
  <2>3. written <= written /\ 1..written \in SUBSET Nat
    BY <2>2, BridgeAssumption
  <2>4. QED BY <2>1, <2>2, <2>3 DEF Handed
<1>4. CASE destroyAttachment
  BY <1>1, <1>2, <1>4, AttachmentGoes
<1>5. CASE fallbackNegotiation /\ answering' = answering
  BY <1>1, <1>2, <1>3, <1>5, FallsBack
<1>6. CASE /\ transport = "switching" /\ transport' = "webrtc"
           /\ down' = down \o <<Say("ready")>> \o Pieces("output", outputBuffer)
           /\ outputBuffer' = <<>>
           /\ UNCHANGED <<attached, reached, negotiating, answering, lease, toClient, answered, near, far, up>>
  <2>1. down' \in Seq(Message) /\ \A m \in Range(down') : m.kind = "output" => m.n \in 1..written
    <3> DEFINE one == <<Say("ready")>>
               q   == down \o one
    <3>1. one \in Seq(Message) /\ Say("ready").kind = "ready" /\ Range(one) = {Say("ready")}
      BY Messages, OneMessage DEF Kinds
    <3> HIDE DEF one
    <3>2. q \in Seq(Message) /\ Range(q) = Range(down) \cup {Say("ready")}
      <4>1. Range(down \o one) = Range(down) \cup Range(one)
        BY <1>3, <3>1, JoinedRange
      <4>2. QED BY <1>3, <3>1, <4>1
    <3>3. \A m \in Range(q) : m.kind = "output" => m.n \in 1..written
      BY <3>1, <3>2 DEF IInv, Content
    <3> HIDE DEF q
    <3>4. /\ q \o Pieces("output", outputBuffer) \in Seq(Message)
          /\ \A m \in Range(q \o Pieces("output", outputBuffer)) :
               \/ m \in Range(q) \/ (m.kind = "output" /\ m.n \in Range(outputBuffer) /\ m.n \in 1..written)
      <4>1. "output" \in Kinds
        BY DEF Kinds
      <4>2. outputBuffer \in Seq(1..written) /\ 1..written \in SUBSET Nat
        BY <1>3
      <4>3. QED BY <3>2, <4>1, <4>2, PiecesSent
    <3>5. down' = q \o Pieces("output", outputBuffer)
      BY <1>6 DEF q, one
    <3>6. QED BY <3>3, <3>4, <3>5
  <2>2. Types'
    <3>1. ServerFlags' /\ ProxyFlags'
      BY <1>1, <1>6 DEF IInv, Types, ServerFlags, ProxyFlags
    <3>2. Buffers'
      BY <1>1, <1>2, <1>6, <2>1, Nothing DEF IInv, Types, Buffers
    <3>3. Rules'
      BY <1>1, <1>6 DEF IInv, Types, Rules
    <3>4. QED BY <3>1, <3>2, <3>3 DEF Types
  <2>3. Content'
    BY <1>1, <1>6, <2>1, SMTT(40) DEF IInv, Content
  <2>4. NotReady'
    BY <1>1 DEF IInv, NotReady
  <2>5. OneOffer'
    BY <1>1, <1>6 DEF IInv, OneOffer
  <2>6. OneSwitch'
    BY <1>1, <1>3, <1>6 DEF IInv, OneSwitch
  <2>7. Order' /\ Whole'
    BY <1>1, <1>2, <1>6, StreamsStay
  <2>8. QED BY <2>2, <2>3, <2>4, <2>5, <2>6, <2>7 DEF IInv
<1>7. QED BY <1>2, <1>4, <1>5, <1>6 DEF Activated

\* Whatever it reads.
LEMMA MessageKeeps ==
  ASSUME IInv, message
  PROVE  IInv'
<1>1. /\ Takes(toServer, toServer') /\ ready
      /\ toServer' \in Seq(Message) /\ Range(toServer') \subseteq Range(toServer)
      /\ \A k : (Has(toServer', k) => Has(toServer, k)) /\ (Single(toServer, k) => Single(toServer', k))
      /\ Followed(toServer) => Followed(toServer')
      /\ Head(toServer).kind \in {"input", "offer", "activate"}
      /\ UNCHANGED <<connected, finished, ready, phase, peer, timer, inputBuffer, failure, written, shown,
                     typed>>
  BY MessageTaken
<1>2. CASE ~attached
  <2>1. UNCHANGED <<server, toClient, channel, entered>>
    BY <1>2 DEF message
  <2>2. UNCHANGED <<attached, reached, transport, negotiating, answering, outputBuffer, lease, toClient,
                    answered, near, far, down, up, entered>>
    BY <2>1 DEF server, channel
  <2>3. Types'
    <3>1. ServerFlags' /\ ProxyFlags'
      BY <1>1, <2>2 DEF IInv, Types, ServerFlags, ProxyFlags
    <3>2. Buffers' /\ Rules'
      BY <1>1, <2>2 DEF IInv, Types, Buffers, Rules
    <3>3. QED BY <3>1, <3>2 DEF Types
  <2>4. Content' /\ NotReady' /\ OneOffer'
    BY <1>1, <2>2 DEF IInv, Content, NotReady, OneOffer
  <2>5. OneSwitch'
    <3>1. Handed' <=> Handed
      BY <1>1, <2>2 DEF Handed
    <3>2. QED BY <1>1, <2>2, <3>1 DEF IInv, OneSwitch
  <2>6. Order' /\ Whole'
    BY <1>1, <1>2, <2>2, StreamsStay
  <2>7. QED BY <2>3, <2>4, <2>5, <2>6 DEF IInv
<1>3. CASE attached /\ Head(toServer).kind = "input" /\ transport = "webrtc"
  <2>1. destroyAttachment /\ UNCHANGED <<proxy, shown, typed, entered, written>>
    BY <1>3 DEF message
  <2>2. QED BY <1>1, <2>1, AttachmentGoes
<1>4. QED BY <1>1, <1>2, <1>3, InputRead, OfferRead, ActivateRead

\* Input on the data channel is read by an attachment that handed over; without one it is dropped.
LEMMA ChannelInputKeeps ==
  ASSUME IInv, channelInput
  PROVE  IInv'
<1>1. /\ up # <<>> /\ up' = Tail(up)
      /\ UNCHANGED <<attached, reached, transport, negotiating, answering, outputBuffer, lease, connected,
                     finished, ready, phase, peer, timer, inputBuffer, failure, toClient, toServer, answered,
                     near, far, down, written, shown, typed>>
  BY DEF channelInput, server, proxy
<1>2. /\ up \in Seq(Message) /\ Rising(up) /\ phase = "webrtc" /\ ~Has(toServer, "input")
      /\ attached => transport = "webrtc"
      /\ inputBuffer = <<>> /\ Range(inputBuffer) = {}
  <2>1. up \in Seq(Message) /\ Rising(up) /\ phase = "webrtc" /\ ~Has(toServer, "input")
    BY <1>1 DEF IInv, Types, Buffers, Order, OneSwitch
  <2>2. inputBuffer = <<>>
    BY <2>1 DEF IInv, Types, Rules
  <2>3. QED BY <2>1, <2>2, Nothing DEF IInv, OneSwitch, Handed
<1> DEFINE n == Head(up).n
           t == Tail(up)
<1>3. /\ t \in Seq(Message) /\ Range(up) = {Head(up)} \cup Range(t) /\ Rising(t)
      /\ Numbers(up) = {n} \cup Numbers(t) /\ \A x \in Numbers(t) : n < x
      /\ n \in 1..typed
  <2>1. /\ Head(up) \in Message /\ t \in Seq(Message) /\ Range(up) = {Head(up)} \cup Range(t)
        /\ Numbers(up) = {x \in {Head(up).n} : Head(up).kind = "input"} \cup Numbers(t)
        /\ Rising(up) => /\ Rising(t)
                         /\ Head(up).kind = "input" => \A x \in Numbers(t) : Head(up).n < x
    BY <1>1, <1>2, Taken
  <2>2. Head(up).kind = "input" /\ n \in 1..typed
    BY <2>1 DEF IInv, Content
  <2>3. QED BY <1>2, <2>1, <2>2
<1>4. Numbers(toServer) = {}
  BY <1>2 DEF Has, Numbers
<1> HIDE DEF t, n
<1>5. up' \in Seq(Message) /\ Range(up') \subseteq Range(up) /\ Rising(up') /\ Numbers(up') = Numbers(t)
  BY <1>1, <1>3 DEF t
<1>6. Order' /\ Whole' /\ entered' \in Seq(1..typed')
  <2>1. CASE attached
    <3>1. entered' = Append(entered, n)
      BY <1>2, <2>1 DEF channelInput, n
    <3> DEFINE Rest == Numbers(toServer') \cup Range(inputBuffer') \cup Numbers(up')
    <3>2. /\ Numbers(toServer) \cup Range(inputBuffer) \cup Numbers(up) = {n} \cup Rest
          /\ \A x \in Rest : n < x
          /\ Rising(toServer') /\ Before(Numbers(toServer'), Range(inputBuffer'))
      BY <1>1, <1>2, <1>3, <1>4, <1>5 DEF IInv, Order, Before
    <3> HIDE DEF Rest
    <3>3. Numbers(toServer') \cup Range(inputBuffer') \cup Numbers(up') = Rest
      BY DEF Rest
    <3>4. QED BY <1>1, <1>3, <1>5, <2>1, <3>1, <3>2, <3>3, Reads
  <2>2. CASE ~attached
    <3>1. entered' = entered
      BY <2>2 DEF channelInput
    <3>2. Order'
      BY <1>1, <1>3, <1>5, <3>1 DEF IInv, Order, Before
    <3>3. Whole'
      BY <1>1, <2>2, <3>1 DEF IInv, Whole
    <3>4. QED BY <1>1, <3>1, <3>2, <3>3 DEF IInv, Types, Buffers
  <2>3. QED BY <2>1, <2>2
<1>7. Types'
  <2>1. ServerFlags' /\ ProxyFlags'
    BY <1>1 DEF IInv, Types, ServerFlags, ProxyFlags
  <2>2. Buffers' /\ Rules'
    BY <1>1, <1>5, <1>6 DEF IInv, Types, Buffers, Rules
  <2>3. QED BY <2>1, <2>2 DEF Types
<1>8. Content' /\ NotReady' /\ OneOffer'
  BY <1>1, <1>5 DEF IInv, Content, NotReady, OneOffer
<1>9. OneSwitch'
  <2>1. Handed' <=> Handed
    BY <1>1 DEF Handed
  <2>2. QED BY <1>1, <1>2, <2>1 DEF IInv, OneSwitch
<1>10. QED BY <1>6, <1>7, <1>8, <1>9 DEF IInv
-----------------------------------------------------------------------------
(* The steps of the proxy.                                                 *)

Reasons == {"direct", "full", "target", "timeout", "unexpected"}

\* The proxy gives up its connection, whatever message it had just taken.
LEMMA GivesUp ==
  ASSUME IInv, NEW why \in Reasons, closeWithError(why),
         UNCHANGED <<server, finished, ready, phase, peer, timer, inputBuffer, toServer, answered, near, far,
                     up, written, shown, entered>>,
         toClient' = toClient \/ Takes(toClient, toClient'),
         down' = down \/ Takes(down, down'),
         typed' \in 0..MaxInput, typed <= typed'
  PROVE  IInv'
<1>1. /\ toClient \in Seq(Message) /\ down \in Seq(Message) /\ typed \in Nat /\ typed' \in Nat
      /\ entered \in Seq(1..typed) /\ inputBuffer \in Seq(1..typed)
  BY BridgeAssumption DEF IInv, Types, Buffers, Content
<1>2. /\ toClient' \in Seq(Message) /\ Range(toClient') \subseteq Range(toClient)
      /\ \A k : (Has(toClient', k) => Has(toClient, k)) /\ (Single(toClient, k) => Single(toClient', k))
  BY <1>1, LessLeft
<1>3. /\ down' \in Seq(Message) /\ Range(down') \subseteq Range(down) /\ (down = <<>> => down' = <<>>)
  BY <1>1, LessLeft
<1>4. connected' = FALSE /\ failure' # "none" /\ failure' \in Reasons \cup {"none"}
  <2>1. failure \in Reasons \cup {"none"}
    BY DEF IInv, Types, ProxyFlags, Reasons
  <2>2. QED BY <2>1 DEF closeWithError, Reasons
<1>5. UNCHANGED <<attached, reached, transport, negotiating, answering, outputBuffer, lease, finished,
                  ready, phase, peer, timer, inputBuffer, toServer, answered, near, far, up, written, shown,
                  entered>>
  BY DEF server
<1>6. Types'
  <2>1. ServerFlags'
    BY <1>5 DEF IInv, Types, ServerFlags
  <2>2. ProxyFlags'
    BY <1>4, <1>5 DEF IInv, Types, ProxyFlags, Reasons
  <2>3. Buffers'
    <3>1. entered \in Seq(1..typed')
      BY <1>1
    <3>2. QED BY <1>2, <1>3, <1>5, <3>1 DEF IInv, Types, Buffers
  <2>4. Rules'
    BY <1>5 DEF IInv, Types, Rules
  <2>5. QED BY <2>1, <2>2, <2>3, <2>4 DEF Types
<1>7. Content'
  <2>1. inputBuffer \in Seq(1..typed') /\ 1..typed \subseteq 1..typed'
    BY <1>1
  <2>2. QED BY <1>2, <1>3, <1>5, <2>1 DEF IInv, Content
<1>8. NotReady'
  BY <1>2, <1>4, <1>5 DEF IInv, NotReady
<1>9. OneOffer'
  BY <1>2, <1>5 DEF IInv, OneOffer
<1>10. OneSwitch'
  <2>1. Handed' => Handed
    BY <1>3, <1>5 DEF Handed
  <2>2. QED BY <1>2, <1>5, <2>1 DEF IInv, OneSwitch
<1>11. Order' /\ Whole'
  BY <1>4, <1>5 DEF IInv, Order, Whole
<1>12. QED BY <1>6, <1>7, <1>8, <1>9, <1>10, <1>11 DEF IInv

\* It falls back from the negotiation: what was held back is sent, or it gives up.
LEMMA ProxyFallsBack ==
  ASSUME IInv, fallBackFromNegotiation, ready,
         UNCHANGED <<server, finished, ready, answered, far, down, up, written, shown, typed, entered>>,
         toClient' = toClient \/ Takes(toClient, toClient')
  PROVE  IInv'
<1>1. /\ toClient \in Seq(Message) /\ toServer \in Seq(Message) /\ typed \in Nat /\ typed \in 0..MaxInput
      /\ typed <= typed /\ inputBuffer \in Seq(1..typed) /\ 1..typed \in SUBSET Nat
  <2>1. /\ toClient \in Seq(Message) /\ toServer \in Seq(Message) /\ typed \in 0..MaxInput
        /\ inputBuffer \in Seq(1..typed)
    BY DEF IInv, Types, Buffers, Content
  <2>2. QED BY <2>1, BridgeAssumption
<1>2. CASE phase = "webrtc"
  <2>1. closeWithError("direct") /\ UNCHANGED <<phase, peer, near, timer, inputBuffer, toServer>>
    BY <1>2 DEF fallBackFromNegotiation
  <2>2. UNCHANGED <<server, finished, ready, phase, peer, timer, inputBuffer, toServer, answered, near, far,
                    up, written, shown, entered>>
    BY <2>1
  <2>3. "direct" \in Reasons /\ down' = down /\ typed' = typed
    BY DEF Reasons
  <2>4. QED BY <1>1, <2>1, <2>2, <2>3, GivesUp
<1>3. CASE phase # "webrtc"
  <2>1. /\ toClient' \in Seq(Message) /\ Range(toClient') \subseteq Range(toClient)
        /\ \A k : (Has(toClient', k) => Has(toClient, k)) /\ (Single(toClient, k) => Single(toClient', k))
    BY <1>1, LessLeft
  <2>2. /\ peer' = "gone" /\ near' = "closed" /\ timer' = FALSE /\ phase' = "websocket" /\ inputBuffer' = <<>>
        /\ \/ inputBuffer = <<>> /\ UNCHANGED <<failure, connected, toServer>>
           \/ toServer' = toServer \o Pieces("input", inputBuffer) /\ UNCHANGED <<failure, connected>>
           \/ closeWithError("direct") /\ UNCHANGED toServer
           \/ closeWithError("full") /\ UNCHANGED toServer
    BY <1>3, Zenon DEF fallBackFromNegotiation, stopPeer, sendWebSocketBytes
  <2>3. /\ connected' \in BOOLEAN /\ (connected' => connected)
        /\ failure' \in Reasons \cup {"none"}
        /\ failure' = "none" => /\ failure = "none"
                                /\ \/ inputBuffer = <<>> /\ toServer' = toServer
                                   \/ toServer' = toServer \o Pieces("input", inputBuffer)
    <3>1. failure \in Reasons \cup {"none"} /\ connected \in BOOLEAN
      BY DEF IInv, Types, ProxyFlags, Reasons
    <3>2. CASE UNCHANGED <<failure, connected>>
      BY <2>2, <3>1, <3>2 DEF closeWithError
    <3>3. CASE closeWithError("direct") \/ closeWithError("full")
      BY <3>1, <3>3 DEF closeWithError, Reasons
    <3>4. QED BY <2>2, <3>2, <3>3
  <2>4. UNCHANGED <<attached, reached, transport, negotiating, answering, outputBuffer, lease, finished, ready,
                    answered, far, down, up, written, shown, typed, entered>>
    BY DEF server
  <2>5. /\ Ascends(inputBuffer) /\ Rising(toServer) /\ Before(Numbers(toServer), Range(inputBuffer))
        /\ \A m \in Range(toServer) : /\ m.kind \in {"input", "offer", "activate"}
                                      /\ m.kind = "input" => m.n \in 1..typed
    BY DEF IInv, Order, Content
  <2>6. /\ toServer \o Pieces("input", inputBuffer) \in Seq(Message)
        /\ \A m \in Range(toServer \o Pieces("input", inputBuffer)) :
             \/ m \in Range(toServer)
             \/ (m.kind = "input" /\ m.n \in Range(inputBuffer) /\ m.n \in 1..typed)
        /\ \A j : j # "input" => /\ Has(toServer \o Pieces("input", inputBuffer), j) <=> Has(toServer, j)
                                 /\ Single(toServer, j) => Single(toServer \o Pieces("input", inputBuffer), j)
        /\ Numbers(toServer \o Pieces("input", inputBuffer)) = Numbers(toServer) \cup Range(inputBuffer)
        /\ Rising(toServer \o Pieces("input", inputBuffer))
    <3>1. "input" \in Kinds
      BY DEF Kinds
    <3> DEFINE r == toServer \o Pieces("input", inputBuffer)
    <3>2. /\ r \in Seq(Message)
          /\ \A m \in Range(r) : \/ m \in Range(toServer)
                                 \/ (m.kind = "input" /\ m.n \in Range(inputBuffer) /\ m.n \in 1..typed)
          /\ \A j : j # "input" => /\ Has(r, j) <=> Has(toServer, j)
                                   /\ Single(toServer, j) => Single(r, j)
          /\ "input" = "input" =>
               /\ Numbers(r) = Numbers(toServer) \cup Range(inputBuffer)
               /\ Rising(toServer) /\ Ascends(inputBuffer) /\ Before(Numbers(toServer), Range(inputBuffer))
                    => Rising(r)
      BY <1>1, <3>1, PiecesSent, Zenon
    <3> HIDE DEF r
    <3>3. QED BY <2>5, <3>2 DEF r
  <2>7. /\ toServer' \in Seq(Message)
        /\ \A m \in Range(toServer') : /\ m.kind \in {"input", "offer", "activate"}
                                       /\ m.kind = "input" => m.n \in 1..typed
        /\ \A j : j # "input" => /\ Has(toServer', j) <=> Has(toServer, j)
                                 /\ Single(toServer, j) => Single(toServer', j)
        /\ Rising(toServer') /\ Numbers(toServer') \subseteq Numbers(toServer) \cup Range(inputBuffer)
        /\ toServer' = toServer \/ Numbers(toServer') = Numbers(toServer) \cup Range(inputBuffer)
    <3>1. CASE toServer' = toServer
      BY <1>1, <2>5, <3>1
    <3>2. CASE toServer' = toServer \o Pieces("input", inputBuffer)
      BY <2>5, <2>6, <3>2
    <3>3. QED BY <2>2, <3>1, <3>2
  <2>8. Types'
    <3>1. ServerFlags'
      BY <2>4 DEF IInv, Types, ServerFlags
    <3>2. ProxyFlags'
      BY <2>2, <2>3, <2>4 DEF IInv, Types, ProxyFlags, Ends, Reasons
    <3>3. Buffers'
      BY <2>1, <2>2, <2>4, <2>7, Nothing DEF IInv, Types, Buffers
    <3>4. Rules'
      BY <2>2, <2>4 DEF IInv, Types, Rules
    <3>5. QED BY <3>1, <3>2, <3>3, <3>4 DEF Types
  <2>9. Content'
    BY <1>1, <2>1, <2>2, <2>4, <2>7 DEF IInv, Content
  <2>10. NotReady'
    BY <2>3, <2>4 DEF IInv, NotReady
  <2>11. OneOffer'
    BY <2>1, <2>2, <2>4, <2>7 DEF IInv, OneOffer
  <2>12. OneSwitch'
    <3>1. Handed' => Handed
      BY <2>2, <2>4 DEF Handed
    <3>2. up = <<>> /\ phase' # "switching" /\ phase' # "webrtc"
      BY <1>3, <2>2 DEF IInv, OneSwitch
    <3>3. QED BY <2>1, <2>2, <2>4, <2>7, <3>1, <3>2 DEF IInv, OneSwitch
  <2>13. Order'
    <3>1. Range(inputBuffer') = {} /\ Ascends(inputBuffer')
      BY <2>2, Nothing DEF Ascends
    <3>2. QED BY <2>4, <2>7, <3>1 DEF IInv, Order, Before
  <2>14. Whole'
    <3> SUFFICES ASSUME failure' = "none"
                 PROVE  /\ \A i \in DOMAIN entered' : entered'[i] = i
                        /\ attached' => \A m \in 1..typed' :
                             m \in Known' \/ (finished' /\ \A n \in Known' : n < m)
      BY DEF Whole
    <3>1. Known' = Known
      <4>1. Range(inputBuffer') = {} /\ (inputBuffer = <<>> => Range(inputBuffer) = {})
        BY <2>2, Nothing
      <4>2. Numbers(toServer') = Numbers(toServer) \cup Range(inputBuffer)
        BY <2>3, <2>6, <4>1
      <4>3. QED BY <2>4, <4>1, <4>2 DEF Known
    <3>2. QED BY <2>3, <2>4, <3>1 DEF IInv, Whole
  <2>15. QED BY <2>8, <2>9, <2>10, <2>11, <2>12, <2>13, <2>14 DEF IInv
<1>4. QED BY <1>2, <1>3
\* The lease is renewed, or the proxy gives up.
LEMMA RenewLeaseKeeps ==
  ASSUME IInv, renewLease
  PROVE  IInv'
<1>1. UNCHANGED <<attached, reached, transport, negotiating, answering, outputBuffer, finished, ready,
                  phase, peer, timer, inputBuffer, toClient, toServer, answered, near, far, down, up, written,
                  shown, typed, entered>>
  BY DEF renewLease, channel, streams
<1>2. CASE lease' = "fresh" /\ UNCHANGED <<connected, failure>>
  <2>1. Types'
    BY <1>1, <1>2 DEF IInv, Types, ServerFlags, ProxyFlags, Buffers, Rules
  <2>2. Content' /\ NotReady' /\ OneOffer' /\ OneSwitch'
    BY <1>1, <1>2 DEF IInv, Content, NotReady, OneOffer, OneSwitch, Handed
  <2>3. Order' /\ Whole'
    BY <1>1, <1>2, StreamsStay
  <2>4. QED BY <2>1, <2>2, <2>3 DEF IInv
<1>3. CASE closeWithError("direct") /\ UNCHANGED lease
  <2>1. "direct" \in Reasons /\ typed \in 0..MaxInput /\ typed <= typed
    BY BridgeAssumption DEF Reasons, IInv, Types, Buffers
  <2>2. UNCHANGED server
    BY <1>1, <1>3 DEF server
  <2>3. QED BY <1>1, <1>3, <2>1, <2>2, GivesUp
<1>4. QED BY <1>2, <1>3 DEF renewLease

\* The offer is sent, or the negotiation falls back.
LEMMA SendOfferKeeps ==
  ASSUME IInv, sendOffer
  PROVE  IInv'
<1>1. /\ peer = "gathering" /\ ~finished /\ ready
      /\ UNCHANGED <<server, finished, ready, toClient, answered, far, down, up, written, shown, typed, entered>>
  BY DEF sendOffer, streams, IInv, NotReady
<1>2. CASE fallBackFromNegotiation
  BY <1>1, <1>2, ProxyFallsBack
<1>3. CASE /\ peer' = "offered" /\ timer' = TRUE /\ toServer' = Append(toServer, Say("offer"))
           /\ UNCHANGED <<connected, phase, inputBuffer, failure, near>>
  <2>1. /\ phase = "websocket" /\ ~answering /\ ~Has(toClient, "answer") /\ ~answered
        /\ ~Has(toServer, "offer") /\ near # "open" /\ toServer \in Seq(Message) /\ Rising(toServer)
        /\ Single(toServer, "activate")
    BY <1>1 DEF IInv, Types, Buffers, Rules, OneOffer, OneSwitch, Order
  <2>2. /\ Say("offer") \in Message /\ Say("offer").kind = "offer"
    BY Messages DEF Kinds
  <2>3. /\ toServer' \in Seq(Message) /\ Range(toServer') = Range(toServer) \cup {Say("offer")}
        /\ \A k : /\ Has(toServer', k) <=> (Has(toServer, k) \/ k = "offer")
                  /\ Single(toServer', k) <=> (Single(toServer, k) /\ ~(Has(toServer, k) /\ k = "offer"))
        /\ Numbers(toServer') = Numbers(toServer) /\ Rising(toServer')
    <3>1. /\ Append(toServer, Say("offer")) \in Seq(Message)
          /\ Range(Append(toServer, Say("offer"))) = Range(toServer) \cup {Say("offer")}
          /\ \A k : /\ Has(Append(toServer, Say("offer")), k) <=> (Has(toServer, k) \/ Say("offer").kind = k)
                    /\ Single(Append(toServer, Say("offer")), k)
                         <=> (Single(toServer, k) /\ ~(Has(toServer, k) /\ Say("offer").kind = k))
          /\ Say("offer").kind # "input" =>
               /\ Numbers(Append(toServer, Say("offer"))) = Numbers(toServer)
               /\ Rising(Append(toServer, Say("offer"))) <=> Rising(toServer)
      BY <2>1, <2>2, Sent
    <3>2. QED BY <1>3, <2>1, <2>2, <3>1
  <2>4. UNCHANGED <<attached, reached, transport, negotiating, answering, outputBuffer, lease>>
    BY <1>1 DEF server
  <2>5. Types'
    <3>1. ServerFlags' /\ ProxyFlags'
      BY <1>1, <1>3, <2>4 DEF IInv, Types, ServerFlags, ProxyFlags
    <3>2. Buffers'
      BY <1>1, <1>3, <2>3, <2>4 DEF IInv, Types, Buffers
    <3>3. Rules'
      BY <1>1, <1>3, <2>1, <2>4 DEF IInv, Types, Rules
    <3>4. QED BY <3>1, <3>2, <3>3 DEF Types
  <2>6. Content'
    BY <1>1, <1>3, <2>2, <2>3, <2>4 DEF IInv, Content
  <2>7. NotReady'
    BY <1>1, <1>3 DEF IInv, NotReady
  <2>8. OneOffer'
    BY <1>1, <1>3, <2>1, <2>3, <2>4 DEF IInv, OneOffer
  <2>9. OneSwitch'
    <3>1. Handed' <=> Handed
      BY <1>1, <1>3, <2>4 DEF Handed
    <3>2. QED BY <1>1, <1>3, <2>1, <2>3, <2>4, <3>1 DEF IInv, OneSwitch
  <2>10. Order' /\ Whole'
    BY <1>1, <1>3, <2>3, <2>4 DEF IInv, Order, Whole, Known
  <2>11. QED BY <2>5, <2>6, <2>7, <2>8, <2>9, <2>10 DEF IInv
<1>4. QED BY <1>2, <1>3 DEF sendOffer

\* The timer of the negotiation, and its peer's end.
LEMMA NegotiationFails ==
  ASSUME IInv, clientTimer \/ nearCloses
  PROVE  IInv'
<1>1. /\ fallBackFromNegotiation
      /\ UNCHANGED <<server, finished, ready, toClient, answered, far, down, up, written, shown, typed, entered>>
  BY DEF clientTimer, nearCloses, streams
<1>2. ready
  BY DEF clientTimer, nearCloses, IInv, Types, Rules, NotReady
<1>3. QED BY <1>1, <1>2, ProxyFallsBack

\* The channel opens.
LEMMA NearOpensKeeps ==
  ASSUME IInv, nearOpens
  PROVE  IInv'
<1>1. /\ near = "new" /\ answered /\ near' = "open"
      /\ UNCHANGED <<attached, reached, transport, negotiating, answering, outputBuffer, lease, connected,
                     finished, ready, phase, peer, timer, inputBuffer, failure, toClient, toServer, answered,
                     far, down, up, written, shown, typed, entered>>
  BY DEF nearOpens, server, proxy, streams
<1>2. ready /\ peer = "offered"
  BY <1>1 DEF IInv, NotReady, OneOffer, Types, ProxyFlags
<1>3. Types'
  BY <1>1 DEF IInv, Types, ServerFlags, ProxyFlags, Buffers, Rules, Ends
<1>4. Content' /\ NotReady'
  BY <1>1 DEF IInv, Content, NotReady
<1>5. OneOffer'
  BY <1>1, <1>2 DEF IInv, OneOffer
<1>6. OneSwitch'
  BY <1>1 DEF IInv, OneSwitch, Handed
<1>7. QED BY <1>1, <1>3, <1>4, <1>5, <1>6, StreamsStay DEF IInv

\* The wait for the ready message is over.
LEMMA ReadyTimerKeeps ==
  ASSUME IInv, readyTimer
  PROVE  IInv'
<1>1. /\ closeWithError("timeout")
      /\ UNCHANGED <<server, finished, ready, phase, peer, timer, inputBuffer, toClient, toServer, answered,
                     near, far, down, up, written, shown, typed, entered>>
  BY DEF readyTimer, channel, streams
<1>2. "timeout" \in Reasons /\ typed \in 0..MaxInput /\ typed <= typed
  BY BridgeAssumption DEF Reasons, IInv, Types, Buffers
<1>3. QED BY <1>1, <1>2, GivesUp

\* The socket closes: what was held back is lost, and it is what was written last.
LEMMA SocketClosesKeeps ==
  ASSUME IInv, socketCloses
  PROVE  IInv'
<1>1. /\ ~finished /\ finished' = TRUE /\ connected' = FALSE /\ inputBuffer' = <<>>
      /\ peer' = "gone" /\ near' = "closed" /\ timer' = FALSE
      /\ UNCHANGED <<attached, reached, transport, negotiating, answering, outputBuffer, lease, ready, phase,
                     failure, toClient, toServer, answered, far, down, up, written, shown, typed, entered>>
  BY DEF socketCloses, stopPeer, server, streams
<1>2. Types'
  <2>1. ServerFlags' /\ ProxyFlags'
    <3>1. finished' \in BOOLEAN /\ connected' \in BOOLEAN /\ timer' \in BOOLEAN
      BY <1>1
    <3>2. QED BY <1>1, <3>1 DEF IInv, Types, ServerFlags, ProxyFlags, Ends
  <2>2. Buffers'
    BY <1>1, Nothing DEF IInv, Types, Buffers
  <2>3. Rules'
    BY <1>1 DEF IInv, Types, Rules
  <2>4. QED BY <2>1, <2>2, <2>3 DEF Types
<1>3. Content'
  BY <1>1 DEF IInv, Content
<1>4. NotReady' /\ OneOffer'
  BY <1>1 DEF IInv, NotReady, OneOffer
<1>5. OneSwitch'
  BY <1>1 DEF IInv, OneSwitch, Handed
<1>6. Range(inputBuffer') = {} /\ Ascends(inputBuffer')
  BY <1>1, Nothing DEF Ascends
<1>7. Order'
  BY <1>1, <1>6 DEF IInv, Order, Before
<1>8. Whole'
  <2> SUFFICES ASSUME failure' = "none", attached', NEW m \in 1..typed', m \notin Known'
               PROVE  \A n \in Known' : n < m
    BY <1>1 DEF IInv, Whole
  <2>1. m \in Known /\ Known = Known' \cup Range(inputBuffer)
    BY <1>1, <1>6 DEF IInv, Whole, Known
  <2>2. m \in Range(inputBuffer)
    BY <2>1
  <2>3. inputBuffer # <<>>
    BY <2>2, Nothing
  <2>4. up = <<>> /\ Numbers(up) = {}
    BY <2>3, Nothing DEF IInv, Types, Rules, OneSwitch
  <2>5. Known' = Range(entered) \cup Numbers(toServer)
    BY <1>1, <1>6, <2>4 DEF Known
  <2>6. QED BY <2>2, <2>5 DEF IInv, Order, Before
<1>9. QED BY <1>2, <1>3, <1>4, <1>5, <1>7, <1>8 DEF IInv
\* The proxy takes a message.
LEMMA MessageTakenByProxy ==
  ASSUME IInv, socketMessage
  PROVE  /\ Takes(toClient, toClient') /\ connected /\ ~finished
         /\ toClient' \in Seq(Message) /\ Range(toClient') \subseteq Range(toClient)
         /\ \A k : /\ Has(toClient', k) => Has(toClient, k)
                   /\ Single(toClient, k) => /\ Single(toClient', k)
                                             /\ ~(Head(toClient).kind = k /\ Has(toClient', k))
         /\ Head(toClient) \in Range(toClient) /\ Has(toClient, Head(toClient).kind)
         /\ Head(toClient).kind \notin {"ready", "output", "error"} => ready
         /\ typed \in 0..MaxInput /\ typed <= typed
         /\ UNCHANGED <<server, attached, reached, transport, negotiating, answering, outputBuffer, lease,
                        finished, far, down, up, written, typed, entered>>
<1>1. /\ connected /\ toClient # <<>> /\ toClient' = Tail(toClient)
      /\ UNCHANGED <<server, attached, reached, transport, negotiating, answering, outputBuffer, lease,
                     finished, far, down, up, written, typed, entered>>
  BY DEF socketMessage, server
<1>2. toClient \in Seq(Message) /\ ~finished /\ typed \in 0..MaxInput
  BY <1>1 DEF IInv, Types, Buffers, NotReady
<1>3. /\ Range(toClient) = {Head(toClient)} \cup Range(Tail(toClient))
      /\ \A k : /\ Has(toClient, k) <=> (Head(toClient).kind = k \/ Has(Tail(toClient), k))
                /\ Single(toClient, k) => /\ Single(Tail(toClient), k)
                                          /\ ~(Head(toClient).kind = k /\ Has(Tail(toClient), k))
      /\ Tail(toClient) \in Seq(Message)
  BY <1>1, <1>2, Taken
<1>4. Head(toClient) \in Range(toClient)
  BY <1>3
<1>5. Head(toClient).kind \notin {"ready", "output", "error"} => ready
  BY <1>4 DEF IInv, NotReady
<1>6. typed <= typed
  BY <1>2, BridgeAssumption
<1>7. QED BY <1>1, <1>2, <1>3, <1>4, <1>5, <1>6 DEF Takes

\* What a message changes that asks for nothing more than the flags it is about.
LEMMA PlainTaken ==
  ASSUME IInv, socketMessage,
         UNCHANGED <<phase, near, timer, inputBuffer, failure, connected, toServer>>,
         ProxyFlags', Rules', OneOffer', ready => ready',
         ready' \/ (~ready' /\ peer' = peer /\ answered' = answered),
         shown' \in Seq(1..written)
  PROVE  IInv'
<1>1. /\ Takes(toClient, toClient') /\ toClient' \in Seq(Message) /\ Range(toClient') \subseteq Range(toClient)
      /\ \A k : (Has(toClient', k) => Has(toClient, k)) /\ (Single(toClient, k) => Single(toClient', k))
      /\ UNCHANGED <<attached, reached, transport, negotiating, answering, outputBuffer, lease,
                     finished, far, down, up, written, typed, entered>>
  BY MessageTakenByProxy
<1>2. Types'
  <2>1. ServerFlags'
    BY <1>1 DEF IInv, Types, ServerFlags
  <2>2. Buffers'
    BY <1>1 DEF IInv, Types, Buffers
  <2>3. QED BY <2>1, <2>2 DEF Types
<1>3. Content'
  BY <1>1 DEF IInv, Content
<1>4. NotReady'
  BY <1>1 DEF IInv, NotReady
<1>5. OneSwitch'
  <2>1. Handed' <=> Handed
    BY <1>1 DEF Handed
  <2>2. QED BY <1>1, <2>1 DEF IInv, OneSwitch
<1>6. Order' /\ Whole'
  BY <1>1, StreamsStay
<1>7. QED BY <1>2, <1>3, <1>4, <1>5, <1>6 DEF IInv

\* The first ready starts the stream.
LEMMA OnReadyKeeps ==
  ASSUME IInv, socketMessage, Head(toClient).kind = "ready", onReady
  PROVE  IInv'
<1>1. /\ UNCHANGED <<phase, near, timer, inputBuffer, failure, connected, toServer, answered, shown>>
      /\ \/ ready /\ UNCHANGED <<ready, peer>>
         \/ ~ready /\ ready' = TRUE /\ peer' = "gathering"
  BY DEF onReady
<1>2. /\ ~finished /\ Head(toClient) \in Range(toClient)
      /\ \A k : Has(toClient', k) => Has(toClient, k)
      /\ UNCHANGED <<attached, reached, transport, negotiating, answering, outputBuffer, lease,
                     finished, far, down, up, written, typed, entered>>
  BY MessageTakenByProxy
<1>3. reached /\ shown \in Seq(1..written)
  BY <1>2 DEF IInv, Types, Buffers, Content
<1>4. ~ready => /\ peer = "none" /\ toServer = <<>> /\ ~answering /\ ~answered /\ phase = "websocket"
                /\ ~Has(toClient, "answer") /\ ~Has(toServer, "offer") /\ near # "open"
  <2>1. ~ready => /\ peer = "none" /\ toServer = <<>> /\ ~answering /\ ~answered /\ phase = "websocket"
    BY <1>2 DEF IInv, NotReady
  <2>2. peer = "none" => ~Has(toClient, "answer") /\ ~Has(toServer, "offer") /\ near # "open"
    BY DEF IInv, OneOffer
  <2>3. QED BY <2>1, <2>2
<1>5. ProxyFlags'
  BY <1>1, <1>2 DEF IInv, Types, ProxyFlags
<1>6. Rules'
  BY <1>1, <1>2, <1>3, <1>4 DEF IInv, Types, Rules
<1>7. OneOffer'
  BY <1>1, <1>2, <1>4 DEF IInv, OneOffer
<1>8. ready'
  BY <1>1
<1>9. QED BY <1>1, <1>2, <1>3, <1>5, <1>6, <1>7, <1>8, PlainTaken

\* The answer.
LEMMA OnAnswerKeeps ==
  ASSUME IInv, socketMessage, Head(toClient).kind = "answer", onAnswer
  PROVE  IInv'
<1>1. /\ Takes(toClient, toClient') /\ ready /\ Has(toClient, "answer")
      /\ \A k : Has(toClient', k) => Has(toClient, k)
      /\ typed \in 0..MaxInput /\ typed <= typed
      /\ UNCHANGED <<server, attached, reached, transport, negotiating, answering, outputBuffer, lease,
                     finished, far, down, up, written, typed, entered>>
  BY MessageTakenByProxy
<1>2. peer \notin {"none", "gathering"} /\ ~Has(toServer, "offer") /\ ~answering /\ shown \in Seq(1..written)
  BY <1>1 DEF IInv, Types, Buffers, OneOffer
<1>3. CASE peer = "gone"
  <2>1. /\ closeWithError("unexpected") /\ "unexpected" \in Reasons
        /\ UNCHANGED <<ready, shown, phase, peer, near, timer, inputBuffer, toServer, answered>>
    BY <1>3 DEF onAnswer, Reasons
  <2>2. QED BY <1>1, <2>1, GivesUp
<1>4. CASE /\ answered' = TRUE
           /\ UNCHANGED <<ready, shown, phase, peer, near, timer, inputBuffer, failure, connected, toServer>>
  <2>1. ProxyFlags' /\ Rules'
    BY <1>1, <1>4 DEF IInv, Types, ProxyFlags, Rules
  <2>2. OneOffer'
    BY <1>1, <1>2, <1>4 DEF IInv, OneOffer
  <2>3. QED BY <1>1, <1>2, <1>4, <2>1, <2>2, PlainTaken
<1>5. CASE fallBackFromNegotiation /\ UNCHANGED <<ready, shown, answered>>
  BY <1>1, <1>5, ProxyFallsBack
<1>6. QED BY <1>3, <1>4, <1>5 DEF onAnswer

\* The switch: from now on input is held back, and the activation follows what was sent.
LEMMA OnSwitchKeeps ==
  ASSUME IInv, socketMessage, Head(toClient).kind = "switch", onSwitch
  PROVE  IInv'
<1>1. /\ Takes(toClient, toClient') /\ ready /\ Has(toClient, "switch")
      /\ toClient' \in Seq(Message) /\ Range(toClient') \subseteq Range(toClient)
      /\ \A k : /\ Has(toClient', k) => Has(toClient, k)
                /\ Single(toClient, k) => Single(toClient', k)
      /\ ~Has(toClient', "switch")
      /\ typed \in 0..MaxInput /\ typed <= typed
      /\ UNCHANGED <<server, attached, reached, transport, negotiating, answering, outputBuffer, lease,
                     finished, far, down, up, written, typed, entered>>
  <2>1. Single(toClient, "switch")
    BY DEF IInv, OneSwitch
  <2>2. QED BY <2>1, MessageTakenByProxy
<1>2. UNCHANGED <<ready, shown, answered, peer, near, inputBuffer>>
  BY DEF onSwitch
<1>3. CASE near = "open"
  <2>1. phase' = "switching" /\ timer' = FALSE /\ toServer' = Append(toServer, Say("activate"))
        /\ UNCHANGED <<failure, connected>>
    BY <1>3 DEF onSwitch
  <2>2. /\ ~Has(toServer, "activate") /\ phase = "websocket" /\ far # "new" /\ ~Handed /\ peer = "offered"
        /\ toServer \in Seq(Message) /\ Rising(toServer) /\ Single(toServer, "offer")
        /\ Single(toServer, "activate")
    BY <1>1, <1>3 DEF IInv, Types, Buffers, OneOffer, OneSwitch, Order
  <2>3. Say("activate") \in Message /\ Say("activate").kind = "activate"
    BY Messages DEF Kinds
  <2>4. /\ toServer' \in Seq(Message) /\ Range(toServer') = Range(toServer) \cup {Say("activate")}
        /\ \A k : /\ Has(toServer', k) <=> (Has(toServer, k) \/ k = "activate")
                  /\ Single(toServer', k) <=> (Single(toServer, k) /\ ~(Has(toServer, k) /\ k = "activate"))
        /\ Numbers(toServer') = Numbers(toServer) /\ Rising(toServer') /\ Followed(toServer')
    <3>1. /\ Append(toServer, Say("activate")) \in Seq(Message)
          /\ Range(Append(toServer, Say("activate"))) = Range(toServer) \cup {Say("activate")}
          /\ \A k : /\ Has(Append(toServer, Say("activate")), k)
                         <=> (Has(toServer, k) \/ Say("activate").kind = k)
                    /\ Single(Append(toServer, Say("activate")), k)
                         <=> (Single(toServer, k) /\ ~(Has(toServer, k) /\ Say("activate").kind = k))
          /\ Say("activate").kind # "input" =>
               /\ Numbers(Append(toServer, Say("activate"))) = Numbers(toServer)
               /\ Rising(Append(toServer, Say("activate"))) <=> Rising(toServer)
      BY <2>2, <2>3, Sent
    <3>2. Followed(Append(toServer, Say("activate")))
      BY <2>2, <2>3, Following
    <3>3. QED BY <2>1, <2>2, <2>3, <3>1, <3>2
  <2>5. Types'
    <3>1. ServerFlags' /\ ProxyFlags'
      <4>1. timer' \in BOOLEAN
        BY <2>1
      <4>2. QED BY <1>1, <1>2, <2>1, <4>1 DEF IInv, Types, ServerFlags, ProxyFlags
    <3>2. Buffers'
      BY <1>1, <1>2, <2>4 DEF IInv, Types, Buffers
    <3>3. Rules'
      BY <1>1, <1>2, <2>1, <2>2 DEF IInv, Types, Rules
    <3>4. QED BY <3>1, <3>2, <3>3 DEF Types
  <2>6. Content'
    BY <1>1, <1>2, <2>3, <2>4 DEF IInv, Content
  <2>7. NotReady'
    BY <1>1, <1>2, <2>1 DEF IInv, NotReady
  <2>8. OneOffer'
    BY <1>1, <1>2, <2>1, <2>4 DEF IInv, OneOffer
  <2>9. OneSwitch'
    <3>1. ~Handed'
      BY <1>1, <2>1, <2>2 DEF Handed
    <3>2. up = <<>>
      BY <2>2 DEF IInv, OneSwitch
    <3>3. QED BY <1>1, <2>1, <2>2, <2>4, <3>1, <3>2 DEF IInv, OneSwitch
  <2>10. Order' /\ Whole'
    BY <1>1, <1>2, <2>1, <2>4 DEF IInv, Order, Whole, Known
  <2>11. QED BY <2>5, <2>6, <2>7, <2>8, <2>9, <2>10 DEF IInv
<1>4. CASE near # "open"
  <2>1. /\ closeWithError("unexpected") /\ "unexpected" \in Reasons
        /\ UNCHANGED <<phase, timer, toServer>>
    BY <1>4 DEF onSwitch, Reasons
  <2>2. QED BY <1>1, <1>2, <2>1, GivesUp
<1>5. QED BY <1>3, <1>4

\* Output.
LEMMA OnOutputKeeps ==
  ASSUME IInv, socketMessage, Head(toClient).kind = "output", onOutput(Head(toClient).n)
  PROVE  IInv'
<1>1. /\ Takes(toClient, toClient') /\ Head(toClient) \in Range(toClient)
      /\ \A k : Has(toClient', k) => Has(toClient, k)
      /\ typed \in 0..MaxInput /\ typed <= typed
      /\ UNCHANGED <<server, attached, reached, transport, negotiating, answering, outputBuffer, lease,
                     finished, far, down, up, written, typed, entered>>
  BY MessageTakenByProxy
<1>2. shown \in Seq(1..written) /\ Head(toClient).n \in 1..written
  BY <1>1 DEF IInv, Types, Buffers, Content
<1>3. UNCHANGED <<ready, answered, phase, peer, near, timer, inputBuffer, toServer>>
  BY DEF onOutput
<1>4. CASE /\ shown' \in {shown, Append(shown, Head(toClient).n)}
           /\ UNCHANGED <<failure, connected>>
  <2>1. shown' \in Seq(1..written)
    <3>1. Append(shown, Head(toClient).n) \in Seq(1..written)
      BY <1>2, Written
    <3>2. QED BY <1>2, <1>4, <3>1
  <2>2. ProxyFlags' /\ Rules'
    BY <1>1, <1>3, <1>4 DEF IInv, Types, ProxyFlags, Rules
  <2>3. OneOffer'
    BY <1>1, <1>3 DEF IInv, OneOffer
  <2>4. ready' \/ (~ready' /\ peer' = peer /\ answered' = answered)
    BY <1>3
  <2>5. QED BY <1>3, <1>4, <2>1, <2>2, <2>3, <2>4, PlainTaken
<1>5. CASE closeWithError("full") /\ UNCHANGED shown
  <2>1. "full" \in Reasons
    BY DEF Reasons
  <2>2. QED BY <1>1, <1>3, <1>5, <2>1, GivesUp
<1>6. QED BY <1>4, <1>5 DEF onOutput

\* Whatever it takes.
LEMMA SocketMessageKeeps ==
  ASSUME IInv, socketMessage
  PROVE  IInv'
<1>1. /\ Takes(toClient, toClient')
      /\ Head(toClient).kind \notin {"ready", "output", "error"} => ready
      /\ typed \in 0..MaxInput /\ typed <= typed
      /\ UNCHANGED <<server, finished, far, down, up, written, typed, entered>>
  BY MessageTakenByProxy
<1>2. CASE /\ Head(toClient).kind = "unavailable" /\ fallBackFromNegotiation
           /\ UNCHANGED <<ready, shown, answered>>
  BY <1>1, <1>2, ProxyFallsBack
<1>3. CASE /\ closeWithError("target")
           /\ UNCHANGED <<ready, shown, answered, phase, peer, near, timer, inputBuffer, toServer>>
  <2>1. "target" \in Reasons
    BY DEF Reasons
  <2>2. QED BY <1>1, <1>3, <2>1, GivesUp
<1>4. QED BY <1>2, <1>3, OnReadyKeeps, OnAnswerKeeps, OnSwitchKeeps, OnOutputKeeps DEF socketMessage
\* A message of the data channel: output, or the server's word that it handed over, on which what
\* was held back goes out on the channel.
LEMMA ChannelMessageKeeps ==
  ASSUME IInv, channelMessage
  PROVE  IInv'
<1>1. /\ near = "open" /\ down # <<>> /\ Takes(down, down')
      /\ UNCHANGED <<server, attached, reached, transport, negotiating, answering, outputBuffer, lease,
                     finished, ready, peer, timer, toClient, toServer, answered, near, far, written, typed,
                     entered>>
  BY DEF channelMessage, server, Takes
<1>2. /\ down \in Seq(Message) /\ shown \in Seq(1..written) /\ inputBuffer \in Seq(1..typed)
      /\ up \in Seq(Message) /\ typed \in 0..MaxInput /\ typed <= typed /\ 1..typed \in SUBSET Nat
      /\ Handed /\ ready
  <2>1. /\ down \in Seq(Message) /\ shown \in Seq(1..written) /\ inputBuffer \in Seq(1..typed)
        /\ up \in Seq(Message) /\ typed \in 0..MaxInput
    BY DEF IInv, Types, Buffers, Content
  <2>2. Handed /\ ready
    BY <1>1 DEF Handed, IInv, OneOffer, NotReady
  <2>3. QED BY <2>1, <2>2, BridgeAssumption
<1>3. down' \in Seq(Message) /\ Range(down') \subseteq Range(down)
  BY <1>1, <1>2, LessLeft
<1>4. CASE Head(down).kind = "output"
  <2>1. /\ shown' = IF phase = "webrtc" THEN Append(shown, Head(down).n) ELSE shown
        /\ UNCHANGED <<phase, inputBuffer, failure, connected, up>>
    BY <1>4 DEF channelMessage
  <2>2. Head(down) \in Range(down)
    BY <1>1, <1>2, Taken
  <2>3. shown' \in Seq(1..written)
    <3>1. Head(down).n \in 1..written
      BY <1>4, <2>2 DEF IInv, Content
    <3>2. Append(shown, Head(down).n) \in Seq(1..written)
      BY <1>2, <3>1, Written
    <3>3. QED BY <1>2, <2>1, <3>2
  <2>4. Types'
    <3>1. ServerFlags' /\ ProxyFlags'
      BY <1>1, <2>1 DEF IInv, Types, ServerFlags, ProxyFlags
    <3>2. Buffers' /\ Rules'
      BY <1>1, <1>3, <2>1, <2>3 DEF IInv, Types, Buffers, Rules
    <3>3. QED BY <3>1, <3>2 DEF Types
  <2>5. Content' /\ NotReady' /\ OneOffer'
    BY <1>1, <1>3, <2>1 DEF IInv, Content, NotReady, OneOffer
  <2>6. OneSwitch'
    BY <1>1, <1>2, <2>1 DEF IInv, OneSwitch, Handed
  <2>7. Order' /\ Whole'
    BY <1>1, <2>1, StreamsStay
  <2>8. QED BY <2>4, <2>5, <2>6, <2>7 DEF IInv
<1>5. CASE Head(down).kind # "output" /\ phase # "switching"
  <2>1. closeWithError("unexpected") /\ "unexpected" \in Reasons /\ UNCHANGED <<shown, phase, inputBuffer, up>>
    BY <1>5 DEF channelMessage, Reasons
  <2>2. QED BY <1>1, <1>2, <2>1, GivesUp
<1>6. CASE Head(down).kind # "output" /\ phase = "switching"
  <2> DEFINE r == up \o Pieces("input", inputBuffer)
  <2>1. /\ UNCHANGED shown /\ phase' = "webrtc" /\ inputBuffer' = <<>>
        /\ \/ inputBuffer = <<>> /\ UNCHANGED <<failure, connected, up>>
           \/ up' = r /\ UNCHANGED <<failure, connected>>
           \/ closeWithError("full") /\ UNCHANGED up
    BY <1>6, Zenon DEF channelMessage, sendWebRtcBytes
  <2>2. /\ ~Has(toClient, "switch") /\ ~Has(toServer, "activate") /\ ~Has(toServer, "input") /\ far # "new"
        /\ attached => transport = "webrtc"
        /\ up = <<>> /\ Numbers(up) = {} /\ Range(up) = {} /\ Numbers(toServer) = {}
        /\ timer = FALSE /\ (peer = "offered" \/ finished)
    <3>1. /\ ~Has(toClient, "switch") /\ ~Has(toServer, "activate") /\ far # "new"
          /\ attached => transport = "webrtc"
      BY <1>2 DEF IInv, OneSwitch
    <3>2. ~Has(toServer, "input")
      <4>1. Followed(toServer) /\ toServer \in Seq(Message)
        BY <1>6 DEF IInv, OneSwitch, Types, Buffers
      <4>2. QED BY <3>1, <4>1, Following
    <3>3. up = <<>> /\ timer = FALSE /\ (peer = "offered" \/ finished)
      BY <1>6 DEF IInv, OneSwitch, Types, ProxyFlags, Rules
    <3>4. Numbers(toServer) = {}
      BY <3>2 DEF Has, Numbers
    <3>5. QED BY <3>1, <3>2, <3>3, <3>4, Nothing
  <2>3. /\ Ascends(inputBuffer) /\ Rising(up) /\ Before(Numbers(up), Range(inputBuffer))
        /\ Before(Range(entered), Range(inputBuffer))
    BY <2>2 DEF IInv, Order, Before
  <2>4. /\ r \in Seq(Message) /\ \A m \in Range(r) : m.kind = "input" /\ m.n \in 1..typed
        /\ Numbers(r) = Range(inputBuffer) /\ Rising(r)
    <3>1. "input" \in Kinds
      BY DEF Kinds
    <3>2. /\ r \in Seq(Message)
          /\ \A m \in Range(r) : m \in Range(up) \/ (m.kind = "input" /\ m.n \in Range(inputBuffer) /\ m.n \in 1..typed)
          /\ \A j : j # "input" => /\ Has(r, j) <=> Has(up, j)
                                   /\ Single(up, j) => Single(r, j)
          /\ "input" = "input" =>
               /\ Numbers(r) = Numbers(up) \cup Range(inputBuffer)
               /\ Rising(up) /\ Ascends(inputBuffer) /\ Before(Numbers(up), Range(inputBuffer)) => Rising(r)
      BY <1>2, <3>1, PiecesSent, Zenon
    <3> HIDE DEF r
    <3>3. QED BY <2>2, <2>3, <3>2
  <2> HIDE DEF r
  <2>5. /\ up' \in Seq(Message) /\ \A m \in Range(up') : m.kind = "input" /\ m.n \in 1..typed
        /\ Rising(up') /\ Numbers(up') \subseteq Range(inputBuffer)
    <3>1. CASE up' = up
      BY <1>2, <2>2, <2>3, <3>1
    <3>2. CASE up' = r
      BY <2>4, <3>2
    <3>3. QED BY <2>1, <3>1, <3>2
  <2>6. /\ connected' \in BOOLEAN /\ (connected' => connected)
        /\ failure' \in Reasons \cup {"none"}
        /\ failure' = "none" => /\ failure = "none"
                                /\ Numbers(up') = Range(inputBuffer)
    <3>1. failure \in Reasons \cup {"none"} /\ connected \in BOOLEAN
      BY DEF IInv, Types, ProxyFlags, Reasons
    <3>2. inputBuffer = <<>> => Range(inputBuffer) = {}
      BY Nothing
    <3>3. CASE /\ UNCHANGED <<failure, connected>>
               /\ (inputBuffer = <<>> /\ up' = up) \/ up' = r
      BY <2>2, <2>4, <3>1, <3>2, <3>3
    <3>4. CASE closeWithError("full")
      BY <3>1, <3>4 DEF closeWithError, Reasons
    <3>5. QED BY <2>1, <3>3, <3>4
  <2>7. Types'
    <3>1. ServerFlags'
      BY <1>1 DEF IInv, Types, ServerFlags
    <3>2. ProxyFlags'
      BY <1>1, <2>1, <2>6 DEF IInv, Types, ProxyFlags, Reasons
    <3>3. Buffers'
      BY <1>1, <1>3, <2>1, <2>5, Nothing DEF IInv, Types, Buffers
    <3>4. Rules'
      BY <1>1, <2>1, <2>2 DEF IInv, Types, Rules
    <3>5. QED BY <3>1, <3>2, <3>3, <3>4 DEF Types
  <2>8. Content'
    BY <1>1, <1>2, <1>3, <2>1, <2>5 DEF IInv, Content
  <2>9. NotReady'
    BY <1>1, <1>2, <2>6 DEF IInv, NotReady
  <2>10. OneOffer'
    BY <1>1 DEF IInv, OneOffer
  <2>11. OneSwitch'
    BY <1>1, <2>1, <2>2 DEF IInv, OneSwitch
  <2>12. Range(inputBuffer') = {} /\ Ascends(inputBuffer')
    BY <2>1, Nothing DEF Ascends
  <2>13. Order'
    BY <1>1, <2>2, <2>3, <2>5, <2>12 DEF IInv, Order, Before
  <2>14. Whole'
    <3> SUFFICES ASSUME failure' = "none"
                 PROVE  /\ \A i \in DOMAIN entered' : entered'[i] = i
                        /\ attached' => \A m \in 1..typed' :
                             m \in Known' \/ (finished' /\ \A n \in Known' : n < m)
      BY DEF Whole
    <3>1. Known' = Known
      BY <1>1, <2>2, <2>6, <2>12 DEF Known
    <3>2. QED BY <1>1, <2>6, <3>1 DEF IInv, Whole
  <2>15. QED BY <2>7, <2>8, <2>9, <2>10, <2>11, <2>13, <2>14 DEF IInv
<1>7. QED BY <1>4, <1>5, <1>6

\* ssh writes: the piece goes where the stream is.
LEMMA OnInputKeeps ==
  ASSUME IInv, onInput
  PROVE  IInv'
<1>1. /\ ready /\ ~finished /\ typed < MaxInput /\ typed' = typed + 1
      /\ UNCHANGED <<server, attached, reached, transport, negotiating, answering, outputBuffer, lease,
                     finished, ready, phase, peer, timer, toClient, answered, near, far, down, written, shown,
                     entered>>
  BY DEF onInput, server
<1>2. /\ typed \in Nat /\ typed' \in Nat /\ typed' \in 0..MaxInput /\ typed <= typed' /\ typed' \in 1..typed'
      /\ 1..typed \subseteq 1..typed' /\ 1..typed' = (1..typed) \cup {typed'}
      /\ inputBuffer \in Seq(1..typed) /\ inputBuffer \in Seq(1..typed') /\ entered \in Seq(1..typed)
      /\ Len(inputBuffer) \in Nat /\ Capacity \in Nat /\ Len(inputBuffer) <= Capacity
      /\ toServer \in Seq(Message) /\ up \in Seq(Message)
      /\ phase \in {"websocket", "switching", "webrtc"}
  <2>1. /\ typed \in Nat /\ typed' \in Nat /\ typed' \in 0..MaxInput /\ typed <= typed' /\ typed' \in 1..typed'
        /\ 1..typed \subseteq 1..typed' /\ 1..typed' = (1..typed) \cup {typed'}
    BY <1>1, BridgeAssumption DEF IInv, Types, Buffers
  <2>2. /\ inputBuffer \in Seq(1..typed) /\ entered \in Seq(1..typed) /\ Len(inputBuffer) <= Capacity
        /\ toServer \in Seq(Message) /\ up \in Seq(Message)
        /\ phase \in {"websocket", "switching", "webrtc"}
    BY DEF IInv, Types, ProxyFlags, Buffers, Content
  <2>3. Len(inputBuffer) \in Nat /\ Capacity \in Nat /\ inputBuffer \in Seq(1..typed')
    BY <2>1, <2>2, BridgeAssumption
  <2>4. QED BY <2>1, <2>2, <2>3
<1>3. ASSUME NEW why \in {"direct", "full"}, closeWithError(why), UNCHANGED <<inputBuffer, toServer, up>>
      PROVE  IInv'
  <2>1. why \in Reasons /\ toClient' = toClient /\ down' = down
    BY <1>1, <1>3 DEF Reasons
  <2>2. QED BY <1>1, <1>2, <1>3, <2>1, GivesUp
<1> DEFINE s == toServer \o Pieces("input", <<typed'>>)
           u == up \o Pieces("input", <<typed'>>)
           b == Append(inputBuffer, typed')
<1>4. /\ \A x \in Range(entered) : x < typed'
      /\ \A x \in Numbers(toServer) : x < typed'
      /\ \A x \in Numbers(up) : x < typed'
      /\ \A x \in Range(inputBuffer) : x < typed'
  <2>1. \A x \in 1..typed : x < typed'
    BY <1>1, <1>2
  <2>2. Range(entered) \subseteq 1..typed /\ Range(inputBuffer) \subseteq 1..typed
    BY <1>2, SMTT(40) DEF Range
  <2>3. Numbers(toServer) \subseteq 1..typed /\ Numbers(up) \subseteq 1..typed
    BY DEF IInv, Content, Numbers
  <2>4. QED BY <2>1, <2>2, <2>3
<1>5. Rising(toServer) /\ Rising(up) /\ Ascends(inputBuffer)
  BY DEF IInv, Order
<1>6. /\ s \in Seq(Message) /\ \A m \in Range(s) : m \in Range(toServer) \/ (m.kind = "input" /\ m.n = typed')
      /\ \A j : j # "input" => /\ Has(s, j) <=> Has(toServer, j)
                               /\ Single(toServer, j) => Single(s, j)
      /\ Numbers(s) = Numbers(toServer) \cup {typed'} /\ Rising(s)
  <2>1. "input" \in Kinds /\ Before(Numbers(toServer), {typed'})
    BY <1>4 DEF Kinds, Before
  <2>2. /\ s \in Seq(Message)
        /\ \A m \in Range(s) : m \in Range(toServer) \/ (m.kind = "input" /\ m.n = typed')
        /\ \A j : j # "input" => /\ Has(s, j) <=> Has(toServer, j)
                                 /\ Single(toServer, j) => Single(s, j)
        /\ "input" = "input" =>
             /\ Numbers(s) = Numbers(toServer) \cup {typed'}
             /\ Rising(toServer) /\ Before(Numbers(toServer), {typed'}) => Rising(s)
    BY <1>2, <2>1, PieceSent, Zenon
  <2> HIDE DEF s
  <2>3. QED BY <1>5, <2>1, <2>2
<1>7. /\ u \in Seq(Message) /\ \A m \in Range(u) : m \in Range(up) \/ (m.kind = "input" /\ m.n = typed')
      /\ Numbers(u) = Numbers(up) \cup {typed'} /\ Rising(u)
  <2>1. "input" \in Kinds /\ Before(Numbers(up), {typed'})
    BY <1>4 DEF Kinds, Before
  <2>2. /\ u \in Seq(Message)
        /\ \A m \in Range(u) : m \in Range(up) \/ (m.kind = "input" /\ m.n = typed')
        /\ \A j : j # "input" => /\ Has(u, j) <=> Has(up, j)
                                 /\ Single(up, j) => Single(u, j)
        /\ "input" = "input" =>
             /\ Numbers(u) = Numbers(up) \cup {typed'}
             /\ Rising(up) /\ Before(Numbers(up), {typed'}) => Rising(u)
    BY <1>2, <2>1, PieceSent, Zenon
  <2> HIDE DEF u
  <2>3. QED BY <1>5, <2>1, <2>2
<1>8. b \in Seq(1..typed') /\ Range(b) = Range(inputBuffer) \cup {typed'} /\ Ascends(b)
  <2>1. /\ b \in Seq(1..typed') /\ Range(b) = Range(inputBuffer) \cup {typed'}
        /\ Ascends(b) <=> (Ascends(inputBuffer) /\ \A y \in Range(inputBuffer) : y < typed')
    BY <1>2, Written, Zenon
  <2>2. QED BY <1>4, <1>5, <2>1
<1> HIDE DEF s, u, b
<1>9. ASSUME \/ phase = "websocket" /\ toServer' = s /\ UNCHANGED <<inputBuffer, up>>
             \/ /\ phase = "switching" /\ Len(inputBuffer) < Capacity
                /\ inputBuffer' = b /\ UNCHANGED <<toServer, up>>
             \/ phase = "webrtc" /\ up' = u /\ UNCHANGED <<inputBuffer, toServer>>,
             UNCHANGED <<failure, connected>>
      PROVE  IInv'
  <2>1. /\ toServer' \in Seq(Message)
        /\ \A m \in Range(toServer') : m \in Range(toServer) \/ (m.kind = "input" /\ m.n = typed')
        /\ \A j : j # "input" => /\ Has(toServer', j) <=> Has(toServer, j)
                                 /\ Single(toServer, j) => Single(toServer', j)
        /\ Rising(toServer') /\ (toServer' = toServer \/ phase = "websocket")
    BY <1>2, <1>5, <1>6, <1>9
  <2>2. /\ up' \in Seq(Message)
        /\ \A m \in Range(up') : m \in Range(up) \/ (m.kind = "input" /\ m.n = typed')
        /\ Rising(up') /\ (up' = up \/ phase = "webrtc")
    BY <1>2, <1>5, <1>7, <1>9
  <2>3. /\ inputBuffer' \in Seq(1..typed') /\ Ascends(inputBuffer') /\ Len(inputBuffer') <= Capacity
        /\ inputBuffer' # <<>> => phase = "switching"
    <3>1. CASE inputBuffer' = inputBuffer
      BY <1>2, <1>5, <3>1 DEF IInv, Types, Rules
    <3>2. CASE /\ phase = "switching" /\ Len(inputBuffer) < Capacity
               /\ inputBuffer' = b
      <4>1. Len(b) = Len(inputBuffer) + 1
        BY <1>2 DEF b
      <4>2. QED BY <1>2, <1>8, <3>2, <4>1
    <3>3. QED BY <1>9, <3>1, <3>2
  <2>4. /\ Known' = Known \cup {typed'}
        /\ Before(Range(entered'), Numbers(toServer') \cup Range(inputBuffer') \cup Numbers(up'))
        /\ Before(Numbers(toServer'), Range(inputBuffer'))
    <3>1. /\ Before(Range(entered), Numbers(toServer) \cup Range(inputBuffer) \cup Numbers(up))
          /\ Before(Numbers(toServer), Range(inputBuffer))
      BY DEF IInv, Order
    <3>2. CASE phase = "websocket" /\ toServer' = s /\ UNCHANGED <<inputBuffer, up>>
      <4>1. inputBuffer = <<>> /\ Range(inputBuffer) = {}
        BY <3>2, Nothing DEF IInv, Types, Rules
      <4>2. QED BY <1>1, <1>4, <1>6, <3>1, <3>2, <4>1 DEF Known, Before
    <3>3. CASE inputBuffer' = b /\ UNCHANGED <<toServer, up>>
      BY <1>1, <1>4, <1>8, <3>1, <3>3 DEF Known, Before
    <3>4. CASE up' = u /\ UNCHANGED <<inputBuffer, toServer>>
      BY <1>1, <1>4, <1>7, <3>1, <3>4 DEF Known, Before
    <3>5. QED BY <1>9, <3>2, <3>3, <3>4
  <2>5. Types'
    <3>1. ServerFlags' /\ ProxyFlags'
      BY <1>1, <1>9 DEF IInv, Types, ServerFlags, ProxyFlags
    <3>2. Buffers'
      <4>1. entered \in Seq(1..typed')
        BY <1>2
      <4>2. QED BY <1>1, <1>2, <2>1, <2>2, <2>3, <4>1 DEF IInv, Types, Buffers
    <3>3. Rules'
      BY <1>1, <2>3 DEF IInv, Types, Rules
    <3>4. QED BY <3>1, <3>2, <3>3 DEF Types
  <2>6. Content'
    BY <1>1, <1>2, <2>1, <2>2, <2>3 DEF IInv, Content
  <2>7. NotReady'
    BY <1>1, <1>9 DEF IInv, NotReady
  <2>8. OneOffer'
    BY <1>1, <2>1 DEF IInv, OneOffer
  <2>9. OneSwitch'
    <3>1. Handed' <=> Handed
      BY <1>1 DEF Handed
    <3>2. QED BY <1>1, <2>1, <2>2, <3>1 DEF IInv, OneSwitch
  <2>10. Order'
    BY <1>1, <2>1, <2>2, <2>3, <2>4 DEF IInv, Order
  <2>11. Whole'
    <3> SUFFICES ASSUME failure' = "none"
                 PROVE  /\ \A i \in DOMAIN entered' : entered'[i] = i
                        /\ attached' => \A m \in 1..typed' :
                             m \in Known' \/ (finished' /\ \A n \in Known' : n < m)
      BY DEF Whole
    <3>1. /\ \A i \in DOMAIN entered : entered[i] = i
          /\ attached => \A m \in 1..typed : m \in Known
      BY <1>1, <1>9 DEF IInv, Whole
    <3>2. QED BY <1>1, <1>2, <2>4, <3>1
  <2>12. QED BY <2>5, <2>6, <2>7, <2>8, <2>9, <2>10, <2>11 DEF IInv
<1>10. CASE phase = "websocket"
  <2>1. /\ UNCHANGED <<inputBuffer, up>>
        /\ \/ toServer' = s /\ UNCHANGED <<failure, connected>>
           \/ closeWithError("full") /\ UNCHANGED toServer
           \/ closeWithError("direct") /\ UNCHANGED toServer
    BY <1>10 DEF onInput, sendWebSocketBytes, s
  <2>2. QED BY <1>3, <1>9, <1>10, <2>1
<1>11. CASE phase = "switching" /\ Len(inputBuffer) < Capacity
  <2>1. phase # "websocket" /\ phase # "webrtc" /\ ~(Len(inputBuffer) >= Capacity)
    BY <1>2, <1>11
  <2>2. inputBuffer' = b /\ UNCHANGED <<failure, connected, toServer, up>>
    BY <1>11, <2>1, Zenon DEF onInput, b
  <2>3. QED BY <1>9, <1>11, <2>2
<1>12. CASE phase = "switching" /\ Len(inputBuffer) >= Capacity
  <2>1. phase # "websocket" /\ phase # "webrtc" /\ ~(Len(inputBuffer) < Capacity)
    BY <1>2, <1>12
  <2>2. closeWithError("full") /\ UNCHANGED <<inputBuffer, toServer, up>>
    BY <1>12, <2>1, Zenon DEF onInput
  <2>3. QED BY <1>3, <2>2
<1>13. CASE phase = "webrtc"
  <2>1. /\ UNCHANGED <<inputBuffer, toServer>>
        /\ \/ up' = u /\ UNCHANGED <<failure, connected>>
           \/ closeWithError("full") /\ UNCHANGED up
    BY <1>13 DEF onInput, sendWebRtcBytes, u
  <2>2. QED BY <1>3, <1>9, <1>13, <2>1
<1>14. Len(inputBuffer) < Capacity \/ Len(inputBuffer) >= Capacity
  BY <1>2
<1>15. QED BY <1>2, <1>10, <1>11, <1>12, <1>13, <1>14

-----------------------------------------------------------------------------
(* The theorem.                                                            *)

\* The invariant holds at first,
LEMMA InitHolds ==
  Init => IInv
<1> SUFFICES ASSUME Init
             PROVE  IInv
  OBVIOUS
<1>1. /\ \A S : <<>> \in Seq(S)
      /\ Range(<<>>) = {} /\ Numbers(<<>>) = {} /\ (\A k : ~Has(<<>>, k)) /\ Len(<<>>) <= Capacity
      /\ (\A k : Single(<<>>, k)) /\ Rising(<<>>) /\ Ascends(<<>>)
  BY Nothing DEF Single, Rising, Ascends
<1>2. Types
  <2>1. ServerFlags /\ ProxyFlags
    <3>1. {attached, reached, negotiating, answering, connected, finished, ready, timer, answered} \subseteq BOOLEAN
      BY DEF Init
    <3>2. QED BY <3>1 DEF Init, ServerFlags, ProxyFlags, Ends
  <2>2. Buffers
    BY <1>1, BridgeAssumption DEF Init, Buffers
  <2>3. Rules
    BY DEF Init, Rules
  <2>4. QED BY <2>1, <2>2, <2>3 DEF Types
<1>3. Content
  BY <1>1 DEF Init, Content
<1>4. NotReady /\ OneOffer /\ OneSwitch
  BY <1>1 DEF Init, NotReady, OneOffer, OneSwitch, Handed
<1>5. Order
  BY <1>1 DEF Init, Order, Before
<1>6. Whole
  BY <1>1, BridgeAssumption DEF Init, Whole
<1>7. QED BY <1>2, <1>3, <1>4, <1>5, <1>6 DEF IInv

\* and every step keeps it.
LEMMA NextKeeps ==
  IInv /\ [Next]_vars => IInv'
<1> SUFFICES ASSUME IInv, [Next]_vars
             PROVE  IInv'
  OBVIOUS
<1>1. CASE UNCHANGED vars
  <2>1. UNCHANGED <<attached, reached, transport, negotiating, answering, outputBuffer, lease, connected,
                    finished, ready, phase, peer, timer, inputBuffer, failure, toClient, toServer, answered,
                    near, far, down, up, written, shown, typed, entered>>
    BY <1>1 DEF vars, server, proxy, channel, streams
  <2>2. Types'
    BY <2>1 DEF IInv, Types, ServerFlags, ProxyFlags, Buffers, Rules
  <2>3. Content' /\ NotReady' /\ OneOffer' /\ OneSwitch'
    BY <2>1 DEF IInv, Content, NotReady, OneOffer, OneSwitch, Handed
  <2>4. QED BY <2>1, <2>2, <2>3, StreamsStay DEF IInv
<1>2. CASE ServerStep
  BY <1>2, TargetOpensKeeps, RouteTcpOutputKeeps, CreateAnswerKeeps, NegotiationTimerKeeps,
     AcceptDataChannelKeeps, FarClosesKeeps, MessageKeeps, ChannelInputKeeps, EndsKeep DEF ServerStep
<1>3. CASE ProxyStep
  BY <1>3, RenewLeaseKeeps, SendOfferKeeps, NegotiationFails, SocketMessageKeeps, NearOpensKeeps,
     ChannelMessageKeeps, OnInputKeeps, ReadyTimerKeeps, SocketClosesKeeps DEF ProxyStep
<1>4. QED BY <1>1, <1>2, <1>3 DEF Next

\* The invariant says what sshd reads.
LEMMA Intact ==
  IInv => InputIntact
<1> SUFFICES ASSUME IInv
             PROVE  InputIntact
  OBVIOUS
<1>1. TypeOK
  BY TypesAre DEF IInv
<1>2. failure = "none" => \A i \in DOMAIN entered : entered[i] = i
  BY DEF IInv, Whole
<1>3. \A i, j \in DOMAIN entered : i < j => entered[i] < entered[j]
  BY DEF IInv, Order, Ascends
<1>4. QED BY <1>1, <1>2, <1>3 DEF InputIntact

\* What sshd reads is what ssh wrote, from its beginning, in order, once and without a gap; after
\* the proxy gave up, still in order and once.
THEOREM InputStaysIntact == Spec => []InputIntact
<1>1. IInv /\ [Next]_vars => IInv'
  BY NextKeeps
<1>2. QED BY <1>1, InitHolds, Intact, PTL DEF Spec

-----------------------------------------------------------------------------
(* Output arrives in order and without a gap (OutputPiped).                *)

\* Where output may be: none follows the announcement of the switch on the WebSocket, none is left
\* there once the stream is handed over, and a proxy that waits for the channel's ready does not find
\* output before it.
Flow ==
  /\ transport # "websocket" => FollowedBy(toClient, "output", "switch")
  /\ Handed => ~Has(toClient, "output")
  /\ near = "new" => phase = "websocket"
  /\ phase = "switching" => IF down = <<>> THEN transport # "webrtc" ELSE Head(down).kind # "output"

\* What a connection carries of the output: by its first message, and as messages
LEMMA OutputIn ==
  ASSUME NEW q \in Seq(Message)
  PROVE  /\ OutputOn(q) \in Seq(Nat)
         /\ ~Has(q, "output") => OutputOn(q) = <<>>
         /\ \A m \in Message : m.kind # "output" => OutputOn(Append(q, m)) = OutputOn(q)
         /\ q # <<>> /\ Head(q).kind # "output" => OutputOn(Tail(q)) = OutputOn(q)
         /\ q # <<>> /\ Head(q).kind = "output" =>
              /\ OutputOn(q) = <<Head(q).n>> \o OutputOn(Tail(q))
              /\ Head(q).n \in Nat
         /\ q # <<>> => OutputOn(Tail(q)) \in Seq(Nat)
<1>1. \A m \in Message : m.n \in Nat
  BY DEF Message
<1>2. QED BY <1>1, StreamIn

\* and pieces are sent.
LEMMA OutputJoined ==
  ASSUME NEW q \in Seq(Message), NEW b \in Seq(Nat)
  PROVE  /\ OutputOn(q \o Pieces("output", b)) = OutputOn(q) \o b
         /\ \A m \in Message : m.kind # "output" => OutputOn(q \o <<m>> \o Pieces("output", b)) = OutputOn(q) \o b
<1> DEFINE p == Pieces("output", b)
<1>1. p \in Seq(Message) /\ Packs(p, "output", b)
  <2>1. "output" \in Kinds
    BY DEF Kinds
  <2>2. p \in Seq(Message)
    BY <2>1, PiecesParts
  <2>3. QED BY <2>2 DEF Packs, Pieces
<1>2. \A m \in Message : m.n \in Nat
  BY DEF Message
<1> HIDE DEF p
<1>3. /\ OutputOn(q \o p) = OutputOn(q) \o b
      /\ \A m \in Message : m.kind # "output" => OutputOn(q \o <<m>> \o p) = OutputOn(q) \o b
  BY <1>1, <1>2, StreamJoined
<1>4. QED BY <1>3 DEF p

\* The queue of the pipe: what the proxy still reads.
LEMMA QueueIs ==
  ASSUME OutputOn(toClient) \in Seq(Nat), outputBuffer \in Seq(Nat), OutputOn(down) \in Seq(Nat)
  PROVE  /\ connected /\ HandingOver => OnItsWay = OutputOn(toClient) \o outputBuffer \o OutputOn(down)
         /\ connected /\ ~HandingOver => OnItsWay = OutputOn(toClient) \o outputBuffer
         /\ ~connected /\ HandingOver => OnItsWay = outputBuffer \o OutputOn(down)
         /\ ~connected /\ ~HandingOver => OnItsWay = <<>>
         /\ OnItsWay \in Seq(Nat)
<1> DEFINE a == OutputOn(toClient)
           b == outputBuffer
           d == OutputOn(down)
<1>1. OnItsWay = (IF connected THEN a ELSE <<>>) \o (IF connected \/ HandingOver THEN b ELSE <<>>)
                   \o (IF HandingOver THEN d ELSE <<>>)
  BY DEF OnItsWay, OutputOn
<1>2. a \in Seq(Nat) /\ b \in Seq(Nat) /\ d \in Seq(Nat) /\ <<>> \in Seq(Nat)
  OBVIOUS
<1> HIDE DEF a, b, d
<1>3. /\ a \o b \o d \in Seq(Nat) /\ a \o b \in Seq(Nat) /\ b \o d \in Seq(Nat) /\ a \o b \o <<>> = a \o b
      /\ <<>> \o b = b /\ <<>> \o <<>> \o <<>> = <<>>
  BY <1>2, QueueParts, ConcatEmptySeq
<1>4. QED BY <1>1, <1>2, <1>3 DEF a, b, d

\* The same of the next state.
LEMMA QueueNext ==
  ASSUME OutputOn(toClient') \in Seq(Nat), outputBuffer' \in Seq(Nat), OutputOn(down') \in Seq(Nat)
  PROVE  /\ connected' /\ HandingOver' => OnItsWay' = OutputOn(toClient') \o outputBuffer' \o OutputOn(down')
         /\ connected' /\ ~HandingOver' => OnItsWay' = OutputOn(toClient') \o outputBuffer'
         /\ ~connected' /\ HandingOver' => OnItsWay' = outputBuffer' \o OutputOn(down')
         /\ ~connected' /\ ~HandingOver' => OnItsWay' = <<>>
         /\ OnItsWay' \in Seq(Nat)
<1> DEFINE a == OutputOn(toClient')
           b == outputBuffer'
           d == OutputOn(down')
<1>1. OnItsWay' = (IF connected' THEN a ELSE <<>>) \o (IF connected' \/ HandingOver' THEN b ELSE <<>>)
                   \o (IF HandingOver' THEN d ELSE <<>>)
  BY DEF OnItsWay, OutputOn
<1>2. a \in Seq(Nat) /\ b \in Seq(Nat) /\ d \in Seq(Nat) /\ <<>> \in Seq(Nat)
  OBVIOUS
<1> HIDE DEF a, b, d
<1>3. /\ a \o b \o d \in Seq(Nat) /\ a \o b \in Seq(Nat) /\ b \o d \in Seq(Nat) /\ a \o b \o <<>> = a \o b
      /\ <<>> \o b = b /\ <<>> \o <<>> \o <<>> = <<>>
  BY <1>2, QueueParts, ConcatEmptySeq
<1>4. QED BY <1>1, <1>2, <1>3 DEF a, b, d

\* When the two halves belong together.
LEMMA JoinedIs ==
  /\ Joined => attached
  /\ transport = "websocket" => (Joined <=> attached /\ connected)
  /\ transport = "switching" => (Joined <=> attached /\ (connected \/ HandingOver))
  /\ transport = "webrtc" => (Joined <=> attached /\ HandingOver)
  /\ Joined' => attached'
  /\ transport' = "websocket" => (Joined' <=> attached' /\ connected')
  /\ transport' = "switching" => (Joined' <=> attached' /\ (connected' \/ HandingOver'))
  /\ transport' = "webrtc" => (Joined' <=> attached' /\ HandingOver')
BY DEF Joined

\* A step of the pipe, or none.
Piped == OutputPipe!Next \/ UNCHANGED OutputPipe!vars

\* The connection ends with what is left of the queue.
LEMMA Cuts ==
  ASSUME OnItsWay' \in Seq(Nat), NEW r \in Seq(Nat), OnItsWay = OnItsWay' \o r,
         ~Joined', written' \in {written, written + 1}, shown' = shown
  PROVE  Piped
<1>1. \E kept \in 0..Len(OnItsWay) : OnItsWay' = SubSeq(OnItsWay, 1, kept)
  BY PrefixKept
<1>2. Joined' = FALSE
  BY DEF Joined
<1>3. OutputPipe!Cut
  BY <1>1, <1>2 DEF OutputPipe!Cut
<1>4. QED BY <1>3 DEF Piped, OutputPipe!Next

\* Nothing happens to the stream.
LEMMA Rests ==
  ASSUME Joined' <=> Joined, OnItsWay' = OnItsWay, UNCHANGED <<written, shown>>
  PROVE  Piped
<1>1. Joined' = Joined
  BY DEF Joined
<1>2. QED BY <1>1 DEF Piped, OutputPipe!vars

\* sshd writes to the end of the queue, or to no queue, or meets the full buffer of a hand-over.
LEMMA Writes ==
  ASSUME Joined' <=> Joined, written' = written + 1, shown' = shown,
         \/ Joined /\ OnItsWay' = Append(OnItsWay, written')
         \/ (Joined => BufferFull) /\ OnItsWay' = OnItsWay
  PROVE  Piped
<1>1. Joined' = Joined
  BY DEF Joined
<1>2. OutputPipe!Write
  BY <1>1 DEF OutputPipe!Write
<1>3. QED BY <1>2 DEF Piped, OutputPipe!Next

\* ssh reads the first piece of the queue.
LEMMA Shows ==
  ASSUME Joined' <=> Joined, UNCHANGED written, NEW n \in Nat, OnItsWay' \in Seq(Nat),
         OnItsWay = <<n>> \o OnItsWay', shown' = Append(shown, n)
  PROVE  Piped
<1>1. Joined' = Joined
  BY DEF Joined
<1>2. \A s \in Seq(Nat) : <<n>> \o s # <<>> /\ Head(<<n>> \o s) = n /\ Tail(<<n>> \o s) = s
  BY HeadJoined
<1>3. OnItsWay # <<>> /\ Head(OnItsWay) = n /\ Tail(OnItsWay) = OnItsWay'
  BY <1>2
<1>4. OutputPipe!Show
  BY <1>1, <1>3 DEF OutputPipe!Show
<1>5. QED BY <1>4 DEF Piped, OutputPipe!Next
\* What the invariants say of the three parts of the queue.
LEMMA Ways ==
  ASSUME IInv, Flow
  PROVE  /\ toClient \in Seq(Message) /\ down \in Seq(Message) /\ outputBuffer \in Seq(Nat)
         /\ OutputOn(toClient) \in Seq(Nat) /\ OutputOn(down) \in Seq(Nat) /\ OnItsWay \in Seq(Nat)
         /\ written \in Nat /\ transport \in {"websocket", "switching", "webrtc"}
         /\ transport # "switching" => outputBuffer = <<>>
         /\ ~attached => transport = "websocket"
         /\ attached /\ transport # "webrtc" => ~Handed
         /\ ~Handed => down = <<>> /\ OutputOn(down) = <<>>
         /\ Handed => OutputOn(toClient) = <<>> /\ outputBuffer = <<>>
         /\ HandingOver /\ transport # "websocket" => OutputOn(toClient) = <<>> /\ ~Has(toClient, "output")
         /\ outputBuffer = <<>> \/ OutputOn(down) = <<>>
<1>1. toClient \in Seq(Message) /\ down \in Seq(Message) /\ written \in Nat
  BY BridgeAssumption DEF IInv, Types, Buffers
<1>2. outputBuffer \in Seq(Nat)
  <2>1. outputBuffer \in Seq(1..written) /\ 1..written \subseteq Nat
    BY DEF IInv, Content
  <2>2. QED BY <2>1, SeqMonotonic
<1>3. OutputOn(toClient) \in Seq(Nat) /\ OutputOn(down) \in Seq(Nat)
  BY <1>1, OutputIn
<1>4. OnItsWay \in Seq(Nat)
  BY <1>2, <1>3, QueueIs
<1>5. transport # "switching" => outputBuffer = <<>>
  BY DEF IInv, Types, Rules
<1>6. ~attached => transport = "websocket"
  BY DEF IInv, Types, Rules
<1>7. attached /\ Handed => transport = "webrtc"
  BY DEF IInv, OneSwitch
<1>8. ~Handed => down = <<>> /\ OutputOn(down) = <<>>
  <2>1. ~Handed => down = <<>>
    BY DEF Handed
  <2>2. <<>> \in Seq(Message) /\ ~Has(<<>>, "output")
    BY Nothing
  <2>3. OutputOn(<<>>) = <<>>
    BY <2>2, OutputIn
  <2>4. QED BY <2>1, <2>3
<1>9. Handed => OutputOn(toClient) = <<>> /\ outputBuffer = <<>>
  <2>1. Handed => ~Has(toClient, "output")
    BY DEF Flow
  <2>2. QED BY <1>1, <1>5, <1>6, <1>7, <2>1, OutputIn
<1>10. ASSUME HandingOver, transport # "websocket"
       PROVE  OutputOn(toClient) = <<>> /\ ~Has(toClient, "output")
  <2>1. ~Has(toClient, "switch")
    BY <1>10 DEF HandingOver, IInv, OneSwitch
  <2>2. FollowedBy(toClient, "output", "switch")
    BY <1>10 DEF Flow
  <2>3. ~Has(toClient, "output")
    BY <1>1, <2>1, <2>2, FollowedParts
  <2>4. QED BY <1>1, <2>3, OutputIn
<1>11. transport \in {"websocket", "switching", "webrtc"}
  BY DEF IInv, Types, ServerFlags
<1>12. QED BY <1>1, <1>2, <1>3, <1>4, <1>5, <1>6, <1>7, <1>8, <1>9, <1>10, <1>11

\* Neither half gives anything up, and the proxy does not begin to wait.
LEMMA QuietFlows ==
  ASSUME Flow, UNCHANGED transport, Handed' => Handed,
         transport # "websocket" /\ FollowedBy(toClient, "output", "switch")
           => FollowedBy(toClient', "output", "switch"),
         Handed /\ Has(toClient', "output") => Has(toClient, "output"),
         near' = "new" => phase' = "websocket",
         phase' = "switching" => phase = "switching" /\ down' = down
  PROVE  Flow'
BY DEF Flow

\* The server gives the direct path up.
LEMMA ServerFlows ==
  ASSUME Flow, transport' = "websocket", UNCHANGED <<near, phase, down>>,
         Handed => ~Has(toClient', "output")
  PROVE  Flow'
BY DEF Flow, Handed
\* The stream stays where it is.
LEMMA Stays ==
  ASSUME UNCHANGED <<attached, transport, connected, outputBuffer, written, shown>>,
         HandingOver' <=> HandingOver,
         OutputOn(toClient') = OutputOn(toClient), OutputOn(down') = OutputOn(down)
  PROVE  Piped
<1>1. OnItsWay' = OnItsWay
  BY DEF OnItsWay, OutputOn
<1>2. Joined' <=> Joined
  BY DEF Joined
<1>3. QED BY <1>1, <1>2, Rests

\* The proxy begins to close its socket: it no longer reads it, but still reads the channel.
LEMMA Disconnects ==
  ASSUME IInv, Flow, connected' = FALSE, HandingOver' <=> HandingOver,
         UNCHANGED <<attached, transport, outputBuffer, written, shown>>, OutputOn(down') = OutputOn(down),
         OutputOn(toClient') \in Seq(Nat)
  PROVE  Piped
<1> DEFINE a == OutputOn(toClient)
           b == outputBuffer
           d == OutputOn(down)
<1>1. /\ a \in Seq(Nat) /\ b \in Seq(Nat) /\ d \in Seq(Nat) /\ OnItsWay \in Seq(Nat)
      /\ transport # "switching" => b = <<>>
      /\ ~attached => transport = "websocket"
      /\ ~Handed => d = <<>>
      /\ Handed => a = <<>>
      /\ HandingOver /\ transport # "websocket" => a = <<>>
      /\ transport \in {"websocket", "switching", "webrtc"}
  BY Ways
<1>2. /\ connected /\ HandingOver => OnItsWay = a \o b \o d
      /\ connected /\ ~HandingOver => OnItsWay = a \o b
      /\ ~connected /\ HandingOver => OnItsWay = b \o d
      /\ ~connected /\ ~HandingOver => OnItsWay = <<>>
      /\ HandingOver => OnItsWay' = b \o d
      /\ ~HandingOver => OnItsWay' = <<>>
      /\ OnItsWay' \in Seq(Nat)
  BY <1>1, QueueIs, QueueNext
<1>3. <<>> \o b = b /\ <<>> \o d = d /\ a \o <<>> = a /\ d \o <<>> = d /\ b \o d \in Seq(Nat) /\ <<>> \in Seq(Nat)
  BY <1>1, QueueParts, ConcatEmptySeq
<1> HIDE DEF a, b, d
<1>4. CASE HandingOver /\ transport # "websocket"
  <2>1. OnItsWay' = b \o d /\ OnItsWay = b \o d
    BY <1>1, <1>2, <1>3, <1>4
  <2>2. Joined' <=> Joined
    BY <1>1, <1>4, JoinedIs
  <2>3. QED BY <2>1, <2>2, Rests
<1>5. CASE HandingOver /\ transport = "websocket"
  <2>1. ~Joined' /\ b = <<>>
    BY <1>1, <1>5, JoinedIs
  <2>2. OnItsWay' = d /\ OnItsWay = IF connected THEN a \o d ELSE d
    BY <1>2, <1>3, <1>5, <2>1
  <2>3. \E r \in Seq(Nat) : OnItsWay = OnItsWay' \o r
    <3>1. CASE Handed \/ ~connected
      BY <1>1, <1>3, <2>2, <3>1
    <3>2. CASE ~Handed /\ connected
      <4>1. OnItsWay' = <<>> /\ <<>> \o OnItsWay = OnItsWay
        BY <1>1, <2>2, <3>2, ConcatEmptySeq
      <4>2. QED BY <1>1, <4>1
    <3>3. QED BY <3>1, <3>2
  <2>4. QED BY <1>2, <2>1, <2>3, Cuts
<1>6. CASE ~HandingOver
  <2>1. ~Joined'
    BY <1>1, <1>6, JoinedIs
  <2>2. OnItsWay = OnItsWay' \o OnItsWay
    <3>1. <<>> \o OnItsWay = OnItsWay
      BY <1>1, ConcatEmptySeq
    <3>2. QED BY <1>2, <1>6, <3>1
  <2>3. QED BY <1>1, <1>2, <2>1, <2>2, Cuts
<1>7. QED BY <1>4, <1>5, <1>6

\* The proxy gives the direct path up, or the connection if it is past the switch.
LEMMA GivesUpFlows ==
  ASSUME IInv, Flow, fallBackFromNegotiation,
         UNCHANGED <<attached, transport, outputBuffer, written, shown, down>>,
         toClient' = toClient \/ (Takes(toClient, toClient') /\ Head(toClient).kind # "output")
  PROVE  Flow' /\ Piped
<1> DEFINE a == OutputOn(toClient)
           b == outputBuffer
           d == OutputOn(down)
<1>1. /\ a \in Seq(Nat) /\ b \in Seq(Nat) /\ d \in Seq(Nat) /\ OnItsWay \in Seq(Nat)
      /\ transport # "switching" => b = <<>>
      /\ ~attached => transport = "websocket"
      /\ attached /\ transport # "webrtc" => ~Handed
      /\ ~Handed => d = <<>>
      /\ transport \in {"websocket", "switching", "webrtc"}
      /\ toClient \in Seq(Message) /\ down \in Seq(Message)
  BY Ways
<1>2. /\ OutputOn(toClient') = a
      /\ FollowedBy(toClient, "output", "switch") => FollowedBy(toClient', "output", "switch")
      /\ Has(toClient', "output") => Has(toClient, "output")
  <2>1. CASE toClient' = toClient
    BY <2>1
  <2>2. CASE Takes(toClient, toClient') /\ Head(toClient).kind # "output"
    <3>1. toClient # <<>> /\ toClient' = Tail(toClient)
      BY <2>2 DEF Takes
    <3>2. FollowedBy(toClient, "output", "switch") => FollowedBy(Tail(toClient), "output", "switch")
      BY <1>1, <3>1, FollowedParts
    <3>3. OutputOn(Tail(toClient)) = a
      BY <1>1, <2>2, <3>1, OutputIn
    <3>4. Has(toClient', "output") => Has(toClient, "output")
      BY <1>1, <2>2, LessLeft
    <3>5. QED BY <3>1, <3>2, <3>3, <3>4
  <2>3. QED BY <2>1, <2>2
<1>3. CASE phase = "webrtc"
  <2>1. connected' = FALSE /\ UNCHANGED <<phase, near>>
    BY <1>3 DEF fallBackFromNegotiation, closeWithError
  <2>2. HandingOver' <=> HandingOver
    BY <2>1 DEF HandingOver
  <2>3. Handed' <=> Handed
    BY <2>1 DEF Handed
  <2>4. Flow'
    <3>1. near' = "new" => phase' = "websocket"
      BY <2>1 DEF Flow
    <3>2. QED BY <1>2, <2>1, <2>3, <3>1, QuietFlows
  <2>5. OutputOn(toClient') \in Seq(Nat) /\ OutputOn(down') = OutputOn(down)
    BY <1>1, <1>2
  <2>6. Piped
    BY <2>1, <2>2, <2>5, Disconnects
  <2>7. QED BY <2>4, <2>6
<1>4. CASE phase # "webrtc"
  <2>1. near' = "closed" /\ phase' = "websocket" /\ (connected' = connected \/ connected' = FALSE)
    BY <1>4 DEF fallBackFromNegotiation, stopPeer, sendWebSocketBytes, closeWithError
  <2>2. ~HandingOver'
    BY <2>1 DEF HandingOver
  <2>3. Handed' => Handed
    BY <2>1 DEF Handed
  <2>4. Flow'
    BY <1>2, <2>1, <2>3, QuietFlows
  <2>5. /\ connected' => OnItsWay' = a \o b
        /\ ~connected' => OnItsWay' = <<>>
        /\ OnItsWay' \in Seq(Nat)
    BY <1>1, <1>2, <2>2, QueueNext
  <2>6. /\ connected /\ HandingOver => OnItsWay = a \o b \o d
        /\ connected /\ ~HandingOver => OnItsWay = a \o b
    BY <1>1, QueueIs
  <2>7. a \o b \in Seq(Nat) /\ a \o b \o <<>> = a \o b /\ <<>> \o OnItsWay = OnItsWay /\ a \o b \o <<>> = a \o b
    BY <1>1, QueueParts, ConcatEmptySeq
  <2> HIDE DEF a, b, d
  <2>8. CASE ~connected'
    <3>1. ~Joined'
      BY <1>1, <2>2, <2>8, JoinedIs
    <3>2. OnItsWay = OnItsWay' \o OnItsWay
      BY <2>5, <2>7, <2>8
    <3>3. Piped
      BY <1>1, <2>5, <3>1, <3>2, Cuts
    <3>4. QED BY <2>4, <3>3
  <2>9. CASE connected' /\ (~attached \/ transport = "webrtc")
    <3>1. ~Joined'
      BY <2>2, <2>9, JoinedIs
    <3>2. \E r \in Seq(Nat) : OnItsWay = OnItsWay' \o r
      <4>1. connected
        BY <2>1, <2>9
      <4>2. <<>> \in Seq(Nat)
        OBVIOUS
      <4>3. QED BY <1>1, <2>5, <2>6, <2>7, <2>9, <4>1, <4>2
    <3>3. Piped
      BY <2>5, <3>1, <3>2, Cuts
    <3>4. QED BY <2>4, <3>3
  <2>10. CASE connected' /\ attached /\ transport # "webrtc"
    <3>1. connected /\ d = <<>>
      BY <1>1, <2>1, <2>10
    <3>2. OnItsWay' = OnItsWay
      BY <2>5, <2>6, <2>7, <2>10, <3>1
    <3>3. Joined' <=> Joined
      BY <1>1, <2>10, <3>1, JoinedIs
    <3>4. Piped
      BY <3>2, <3>3, Rests
    <3>5. QED BY <2>4, <3>4
  <2>11. QED BY <2>8, <2>9, <2>10
<1>5. QED BY <1>3, <1>4
-----------------------------------------------------------------------------
(* The server's steps and the output.                                      *)

\* A queue of the pipe without what is held back is one that a cut may keep.
LEMMA HeldLost ==
  ASSUME IInv, Flow, UNCHANGED connected, HandingOver' <=> HandingOver, outputBuffer' = <<>>,
         OutputOn(toClient') = OutputOn(toClient), OutputOn(down') = OutputOn(down)
  PROVE  /\ OnItsWay' \in Seq(Nat)
         /\ \E r \in Seq(Nat) : OnItsWay = OnItsWay' \o r
<1> DEFINE a == OutputOn(toClient)
           b == outputBuffer
           d == OutputOn(down)
<1>1. /\ a \in Seq(Nat) /\ b \in Seq(Nat) /\ d \in Seq(Nat) /\ OnItsWay \in Seq(Nat)
      /\ b = <<>> \/ d = <<>>
  BY Ways
<1>2. /\ connected /\ HandingOver => OnItsWay = a \o b \o d
      /\ connected /\ ~HandingOver => OnItsWay = a \o b
      /\ ~connected /\ HandingOver => OnItsWay = b \o d
      /\ ~connected /\ ~HandingOver => OnItsWay = <<>>
  BY <1>1, QueueIs
<1>3. /\ connected /\ HandingOver => OnItsWay' = a \o <<>> \o d
      /\ connected /\ ~HandingOver => OnItsWay' = a \o <<>>
      /\ ~connected /\ HandingOver => OnItsWay' = <<>> \o d
      /\ ~connected /\ ~HandingOver => OnItsWay' = <<>>
      /\ OnItsWay' \in Seq(Nat)
  <2>1. <<>> \in Seq(Nat)
    OBVIOUS
  <2>2. QED BY <1>1, <2>1, QueueNext
<1> HIDE DEF a, b, d
<1>4. CASE b = <<>>
  <2>1. OnItsWay' = OnItsWay /\ OnItsWay \o <<>> = OnItsWay
    BY <1>1, <1>2, <1>3, <1>4, ConcatEmptySeq
  <2>2. <<>> \in Seq(Nat)
    OBVIOUS
  <2>3. QED BY <1>3, <2>1, <2>2
<1>5. CASE d = <<>>
  <2>1. /\ a \o b \o <<>> = a \o b /\ a \o <<>> \o <<>> = a /\ a \o <<>> = a /\ b \o <<>> = b
        /\ <<>> \o b = b /\ <<>> \o <<>> = <<>> /\ <<>> \in Seq(Nat)
    BY <1>1, QueueParts, ConcatEmptySeq
  <2>2. CASE connected
    <3>1. OnItsWay = a \o b /\ OnItsWay' = a
      BY <1>2, <1>3, <1>5, <2>1, <2>2
    <3>2. QED BY <1>1, <1>3, <3>1
  <2>3. CASE ~connected /\ HandingOver
    <3>1. OnItsWay = b /\ OnItsWay' = <<>>
      BY <1>2, <1>3, <1>5, <2>1, <2>3
    <3>2. QED BY <1>1, <1>3, <2>1, <3>1
  <2>4. CASE ~connected /\ ~HandingOver
    <3>1. OnItsWay = <<>> /\ OnItsWay' = <<>>
      BY <1>2, <1>3, <2>4
    <3>2. QED BY <1>3, <2>1, <3>1
  <2>5. QED BY <2>2, <2>3, <2>4
<1>6. QED BY <1>1, <1>3, <1>4, <1>5

\* The attachment ends, in whatever state the handover is; sshd's error may be told.
LEMMA DestroyedFlows ==
  ASSUME IInv, Flow, attached' = FALSE, transport' = "websocket", outputBuffer' = <<>>,
         UNCHANGED <<connected, near, phase, down, shown>>, written' \in {written, written + 1},
         toClient' \in {toClient, Append(toClient, Say("error"))}
  PROVE  Flow' /\ Piped
<1>1. toClient \in Seq(Message)
  BY Ways
<1>2. Say("error") \in Message /\ Say("error").kind = "error"
  BY Messages DEF Kinds
<1>3. OutputOn(toClient') = OutputOn(toClient) /\ (Has(toClient', "output") => Has(toClient, "output"))
  <2>1. OutputOn(Append(toClient, Say("error"))) = OutputOn(toClient)
    BY <1>1, <1>2, OutputIn
  <2>2. Has(Append(toClient, Say("error")), "output") <=> Has(toClient, "output")
    BY <1>1, <1>2, Sent
  <2>3. QED BY <2>1, <2>2
<1>4. HandingOver' <=> HandingOver
  BY DEF HandingOver
<1>5. Flow'
  <2>1. Handed => ~Has(toClient, "output")
    BY DEF Flow
  <2>2. QED BY <1>3, <2>1, ServerFlows
<1>6. ~Joined'
  BY JoinedIs
<1>7. OutputOn(down') = OutputOn(down)
  OBVIOUS
<1>8. OnItsWay' \in Seq(Nat) /\ \E r \in Seq(Nat) : OnItsWay = OnItsWay' \o r
  BY <1>3, <1>4, <1>7, HeldLost
<1>9. Piped
  BY <1>6, <1>8, Cuts
<1>10. QED BY <1>5, <1>9

\* The server falls back: what is held back follows on the WebSocket, and the piece that finds the
\* buffer full is lost.
LEMMA FallsBackFlows ==
  ASSUME IInv, Flow, fallbackNegotiation, transport # "webrtc", UNCHANGED <<connected, phase, shown>>,
         \/ written' = written
         \/ written' = written + 1 /\ BufferFull
  PROVE  Flow' /\ Piped
<1> DEFINE a == OutputOn(toClient)
           b == outputBuffer
           d == OutputOn(down)
<1>1. /\ a \in Seq(Nat) /\ b \in Seq(Nat) /\ d \in Seq(Nat) /\ OnItsWay \in Seq(Nat)
      /\ ~attached => transport = "websocket"
      /\ attached /\ transport # "webrtc" => ~Handed
      /\ ~Handed => d = <<>>
      /\ Handed => b = <<>>
      /\ b = <<>> \/ d = <<>>
      /\ transport \in {"websocket", "switching", "webrtc"}
      /\ toClient \in Seq(Message) /\ written \in Nat
  BY Ways
<1>2. /\ outputBuffer' = <<>> /\ transport' = "websocket" /\ toClient' = FellBack(toClient, b)
      /\ UNCHANGED <<attached, near, down>>
  BY DEF fallbackNegotiation, disposeWebRtc, FellBack
<1>3. OutputOn(toClient') = a \o b
  <2>1. Say("unavailable") \in Message /\ Say("unavailable").kind = "unavailable"
    BY Messages DEF Kinds
  <2>2. QED BY <1>1, <1>2, <2>1, OutputJoined DEF FellBack
<1>4. HandingOver' <=> HandingOver
  BY <1>2 DEF HandingOver
<1>5. Flow'
  <2>1. ASSUME Handed
        PROVE  ~Has(toClient', "output")
    <3>1. b = <<>> /\ ~Has(toClient, "output")
      BY <1>1, <2>1 DEF Flow
    <3>2. <<>> \in Seq({}) /\ {} \in SUBSET Nat
      OBVIOUS
    <3>3. \A m \in Range(FellBack(toClient, <<>>)) :
            m \in Range(toClient) \/ m.kind = "unavailable" \/ (m.kind = "output" /\ m.n \in {})
      BY <1>1, <3>2, FallbackSent
    <3>4. QED BY <1>2, <3>1, <3>3 DEF Has
  <2>2. QED BY <1>2, <2>1, ServerFlows
<1>6. /\ connected /\ HandingOver => OnItsWay = a \o b \o d
      /\ connected /\ ~HandingOver => OnItsWay = a \o b
      /\ ~connected /\ HandingOver => OnItsWay = b \o d
      /\ ~connected /\ ~HandingOver => OnItsWay = <<>>
  BY <1>1, QueueIs
<1>7. /\ connected /\ HandingOver => OnItsWay' = (a \o b) \o <<>> \o d
      /\ connected /\ ~HandingOver => OnItsWay' = (a \o b) \o <<>>
      /\ ~connected /\ HandingOver => OnItsWay' = <<>> \o d
      /\ ~connected /\ ~HandingOver => OnItsWay' = <<>>
      /\ OnItsWay' \in Seq(Nat)
  <2>1. <<>> \in Seq(Nat) /\ a \o b \in Seq(Nat)
    BY <1>1, QueueParts
  <2>2. QED BY <1>1, <1>2, <1>3, <1>4, <2>1, QueueNext
<1>8. /\ (a \o b) \o <<>> \o d = a \o b \o d /\ (a \o b) \o <<>> = a \o b
      /\ <<>> \o d = d /\ b \o <<>> = b /\ <<>> \o b = b /\ <<>> \in Seq(Nat) /\ d \o <<>> = d
      /\ Len(a \o b \o d) = Len(a) + Len(b) + Len(d) /\ Len(a \o b) = Len(a) + Len(b)
      /\ Len(a) \in Nat /\ Len(b) \in Nat /\ Len(d) \in Nat
  <2>1. a \o b \in Seq(Nat) /\ Len(a \o b) = Len(a) + Len(b)
    BY <1>1, ConcatProperties
  <2>2. (a \o b) \o <<>> = a \o b
    BY <2>1, ConcatEmptySeq
  <2>3. QED BY <1>1, <2>1, <2>2, QueueParts, ConcatEmptySeq
<1> HIDE DEF a, d
<1>9. CASE connected
  <2>1. OnItsWay' = OnItsWay /\ (OnItsWay = a \o b \o d \/ OnItsWay = a \o b)
    BY <1>6, <1>7, <1>8, <1>9
  <2>2. Joined' <=> Joined
    BY <1>1, <1>2, <1>9, JoinedIs
  <2>3. Piped
    <3>1. CASE written' = written
      BY <2>1, <2>2, <3>1, Rests
    <3>2. CASE written' = written + 1 /\ BufferFull
      BY <2>1, <2>2, <3>2, Writes
    <3>3. QED BY <3>1, <3>2
  <2>4. QED BY <1>5, <2>3
<1>10. CASE ~connected
  <2>1. ~Joined'
    BY <1>2, <1>10, JoinedIs
  <2>2. \E r \in Seq(Nat) : OnItsWay = OnItsWay' \o r
    <3>1. CASE ~HandingOver \/ b = <<>>
      <4>1. OnItsWay' = OnItsWay /\ OnItsWay \o <<>> = OnItsWay
        BY <1>1, <1>6, <1>7, <1>8, <1>10, <3>1, ConcatEmptySeq
      <4>2. QED BY <1>8, <4>1
    <3>2. CASE HandingOver /\ d = <<>>
      <4>1. OnItsWay' = <<>> /\ OnItsWay = b
        BY <1>6, <1>7, <1>8, <1>10, <3>2
      <4>2. QED BY <1>1, <1>8, <4>1
    <3>3. QED BY <1>1, <3>1, <3>2
  <2>3. Piped
    BY <1>7, <2>1, <2>2, Cuts
  <2>4. QED BY <1>5, <2>3
<1>11. QED BY <1>9, <1>10
\* A message beside the stream is sent to the proxy, or none.
LEMMA ToldFlows ==
  ASSUME IInv, Flow, UNCHANGED <<attached, transport, connected, near, phase, outputBuffer, down, written, shown>>,
         \/ toClient' = toClient
         \/ \E k \in Kinds \ {"output"} : toClient' = Append(toClient, Say(k))
  PROVE  Flow' /\ Piped
<1>1. toClient \in Seq(Message)
  BY Ways
<1>2. /\ OutputOn(toClient') = OutputOn(toClient)
      /\ FollowedBy(toClient, "output", "switch") => FollowedBy(toClient', "output", "switch")
      /\ Has(toClient', "output") => Has(toClient, "output")
  <2>1. CASE toClient' = toClient
    BY <2>1
  <2>2. ASSUME NEW k \in Kinds \ {"output"}, toClient' = Append(toClient, Say(k))
        PROVE  /\ OutputOn(toClient') = OutputOn(toClient)
               /\ FollowedBy(toClient, "output", "switch") => FollowedBy(toClient', "output", "switch")
               /\ Has(toClient', "output") => Has(toClient, "output")
    <3> DEFINE m == Say(k)
    <3>1. m \in Message /\ m.kind # "output"
      BY Messages
    <3>2. toClient' = Append(toClient, m)
      BY <2>2
    <3> HIDE DEF m
    <3>3. OutputOn(Append(toClient, m)) = OutputOn(toClient)
      BY <1>1, <3>1, OutputIn
    <3>4. FollowedBy(toClient, "output", "switch") => FollowedBy(Append(toClient, m), "output", "switch")
      BY <1>1, <3>1, FollowedParts
    <3>5. Has(Append(toClient, m), "output") <=> Has(toClient, "output")
      BY <1>1, <3>1, Sent
    <3>6. QED BY <3>2, <3>3, <3>4, <3>5
  <2>3. QED BY <2>1, <2>2
<1>3. HandingOver' <=> HandingOver
  BY DEF HandingOver
<1>4. Handed' <=> Handed
  BY DEF Handed
<1>5. Flow'
  BY <1>2, <1>4, QuietFlows DEF Flow
<1>6. OutputOn(down') = OutputOn(down)
  OBVIOUS
<1>7. Piped
  BY <1>2, <1>3, <1>6, Stays
<1>8. QED BY <1>5, <1>7

\* sshd accepts the connection; input that arrives on the channel, and leases.
LEMMA BesideFlows ==
  ASSUME IInv, Flow, TargetOpens \/ channelInput \/ LeaseElapses
  PROVE  Flow' /\ Piped
<1>1. "ready" \in Kinds \ {"output"}
  BY DEF Kinds
<1>2. CASE TargetOpens
  BY <1>1, <1>2, ToldFlows DEF TargetOpens, proxy, channel, streams
<1>3. CASE channelInput
  BY <1>3, ToldFlows DEF channelInput, server, proxy
<1>4. CASE LeaseElapses
  BY <1>4, ToldFlows DEF LeaseElapses, proxy, channel, streams
<1>5. QED BY <1>2, <1>3, <1>4

\* The attachment ends by itself, or because nobody renews its lease.
LEMMA EndsFlow ==
  ASSUME IInv, Flow, AttachmentEnds \/ LeaseExpires
  PROVE  Flow' /\ Piped
<1>1. /\ attached' = FALSE /\ transport' = "websocket" /\ outputBuffer' = <<>>
      /\ UNCHANGED <<connected, near, phase, down, shown, written>>
      /\ toClient' \in {toClient, Append(toClient, Say("error"))}
  BY DEF AttachmentEnds, LeaseExpires, destroyAttachment, disposeWebRtc, proxy, streams
<1>2. QED BY <1>1, DestroyedFlows

\* The negotiation takes too long, or the server's peer is lost.
LEMMA NegotiationFlows ==
  ASSUME IInv, Flow, negotiationTimer \/ farCloses
  PROVE  Flow' /\ Piped
<1>1. UNCHANGED <<connected, phase, shown, written>>
  BY DEF negotiationTimer, farCloses, proxy, streams
<1>2. CASE fallbackNegotiation /\ transport # "webrtc"
  BY <1>1, <1>2, FallsBackFlows
<1>3. CASE destroyAttachment
  <2>1. /\ attached' = FALSE /\ transport' = "websocket" /\ outputBuffer' = <<>>
        /\ UNCHANGED <<near, down, toClient>>
    BY <1>3 DEF destroyAttachment, disposeWebRtc
  <2>2. QED BY <1>1, <2>1, DestroyedFlows
<1>4. QED BY <1>2, <1>3 DEF negotiationTimer, farCloses

\* The offer is answered, or not.
LEMMA CreateAnswerFlows ==
  ASSUME IInv, Flow, createAnswer
  PROVE  Flow' /\ Piped
<1>1. UNCHANGED <<connected, phase, shown, written>>
  BY DEF createAnswer, proxy, streams
<1>2. CASE fallbackNegotiation
  <2>1. transport # "webrtc"
    BY DEF createAnswer, IInv, OneOffer
  <2>2. QED BY <1>1, <1>2, <2>1, FallsBackFlows
<1>3. CASE /\ toClient' \in {toClient, Append(toClient, Say("answer"))}
           /\ UNCHANGED <<attached, transport, near, outputBuffer, down>>
  <2>1. "answer" \in Kinds \ {"output"}
    BY DEF Kinds
  <2>2. QED BY <1>1, <1>3, <2>1, ToldFlows
<1>4. QED BY <1>2, <1>3 DEF createAnswer, channel

\* The channel reaches the server, which announces the switch: output is held back from now on.
LEMMA AcceptDataChannelFlows ==
  ASSUME IInv, Flow, acceptDataChannel
  PROVE  Flow' /\ Piped
<1>1. far = "new" /\ UNCHANGED <<attached, connected, near, phase, outputBuffer, down, written, shown>>
  BY DEF acceptDataChannel, proxy, streams
<1>2. CASE attached /\ transport' = "switching" /\ toClient' = Append(toClient, Say("switch"))
  <2>1. ~Handed /\ phase = "websocket"
    BY <1>1 DEF IInv, OneSwitch
  <2>2. transport = "websocket"
    BY <1>1 DEF IInv, OneOffer
  <2> DEFINE m == Say("switch")
  <2>3. m \in Message /\ m.kind = "switch" /\ toClient \in Seq(Message)
    BY Messages, Ways DEF Kinds
  <2>4. toClient' = Append(toClient, m)
    BY <1>2
  <2> HIDE DEF m
  <2>5. OutputOn(toClient') = OutputOn(toClient) /\ FollowedBy(toClient', "output", "switch")
    <3>1. OutputOn(Append(toClient, m)) = OutputOn(toClient)
      BY <2>3, OutputIn
    <3>2. FollowedBy(Append(toClient, m), "output", "switch")
      BY <2>3, FollowedParts
    <3>3. QED BY <2>4, <3>1, <3>2
  <2>6. ~Handed'
    BY <1>1, <1>2, <2>1 DEF Handed
  <2>7. Flow'
    BY <1>1, <1>2, <2>1, <2>5, <2>6 DEF Flow
  <2>8. ~HandingOver /\ ~HandingOver'
    BY <1>1, <2>1 DEF HandingOver
  <2>9. Joined' <=> Joined
    BY <1>1, <1>2, <2>2, <2>8, JoinedIs
  <2>10. OnItsWay' = OnItsWay
    BY <1>1, <2>5, <2>8 DEF OnItsWay, OutputOn
  <2>11. Piped
    BY <1>1, <2>9, <2>10, Rests
  <2>12. QED BY <2>7, <2>11
<1>3. CASE UNCHANGED <<transport, toClient>>
  BY <1>1, <1>3, ToldFlows
<1>4. QED BY <1>2, <1>3 DEF acceptDataChannel
\* sshd writes: to the WebSocket, to what is held back, to the channel, or to a connection that ends.
LEMMA RouteTcpOutputFlows ==
  ASSUME IInv, Flow, routeTcpOutput
  PROVE  Flow' /\ Piped
<1> DEFINE a == OutputOn(toClient)
           b == outputBuffer
           d == OutputOn(down)
           n == written'
<1>1. /\ a \in Seq(Nat) /\ b \in Seq(Nat) /\ d \in Seq(Nat) /\ OnItsWay \in Seq(Nat)
      /\ transport # "switching" => b = <<>>
      /\ attached /\ transport # "webrtc" => ~Handed
      /\ ~Handed => down = <<>> /\ d = <<>>
      /\ Handed => a = <<>> /\ b = <<>>
      /\ HandingOver /\ transport # "websocket" => a = <<>>
      /\ transport \in {"websocket", "switching", "webrtc"}
      /\ toClient \in Seq(Message) /\ down \in Seq(Message) /\ written \in Nat
  BY Ways
<1>2. /\ attached /\ written' = written + 1 /\ n \in Nat
      /\ UNCHANGED <<connected, phase, shown>>
  BY <1>1, SMTT(40) DEF routeTcpOutput, proxy
<1>3. Len(b) \in Nat /\ Capacity \in Nat
  BY <1>1, BridgeAssumption
<1>4. /\ connected /\ HandingOver => OnItsWay = a \o b \o d
      /\ connected /\ ~HandingOver => OnItsWay = a \o b
      /\ ~connected /\ HandingOver => OnItsWay = b \o d
      /\ ~connected /\ ~HandingOver => OnItsWay = <<>>
  BY <1>1, QueueIs
<1>5. /\ Append(a, n) \o <<>> \o <<>> = Append(a \o <<>> \o <<>>, n)
      /\ a \o Append(b, n) \o <<>> = Append(a \o b \o <<>>, n)
      /\ a \o <<>> \o <<>> = a /\ a \o <<>> = a /\ a \o b \o <<>> = a \o b
      /\ <<>> \o b = b /\ b \o <<>> = b /\ <<>> \o d = d
      /\ Append(a, n) \in Seq(Nat) /\ Append(b, n) \in Seq(Nat) /\ Append(d, n) \in Seq(Nat)
      /\ a \o Append(b, n) \in Seq(Nat) /\ a \o Append(b, n) \o <<>> = a \o Append(b, n)
      /\ Append(a, n) \o <<>> = Append(a, n) /\ Append(b, n) \o <<>> = Append(b, n)
      /\ <<>> \o Append(d, n) = Append(d, n) /\ <<>> \in Seq(Nat)
  <2>1. /\ Append(a, n) \in Seq(Nat) /\ Append(b, n) \in Seq(Nat) /\ Append(d, n) \in Seq(Nat)
        /\ <<>> \in Seq(Nat)
    BY <1>1, <1>2
  <2>2. a \in Seq(Nat) /\ b \in Seq(Nat) /\ d \in Seq(Nat) /\ n \in Nat
    BY <1>1, <1>2
  <2> HIDE DEF a, b, d, n
  <2>3. /\ Append(a, n) \o <<>> \o <<>> = Append(a \o <<>> \o <<>>, n)
        /\ a \o Append(b, n) \o <<>> = Append(a \o b \o <<>>, n)
    <3>1. Append(a, n) \o <<>> \o <<>> = Append(a \o <<>> \o <<>>, n)
      BY <2>2, QueueWritten
    <3>2. a \o Append(b, n) \o <<>> = Append(a \o b \o <<>>, n)
      BY <2>2, QueueWritten
    <3>3. QED BY <3>1, <3>2
  <2>4. a \o Append(b, n) \in Seq(Nat) /\ a \o Append(b, n) \o <<>> = a \o Append(b, n)
    BY <2>1, <2>2, QueueParts, ZenonT(40)
  <2>5. a \o <<>> \o <<>> = a /\ a \o b \o <<>> = a \o b
    <3>1. a \o <<>> \o <<>> = a
      BY <2>2, QueueParts
    <3>2. a \o b \o <<>> = a \o b
      BY <2>2, QueueParts
    <3>3. QED BY <3>1, <3>2
  <2>6. /\ a \o <<>> = a /\ <<>> \o b = b /\ b \o <<>> = b /\ <<>> \o d = d
        /\ Append(a, n) \o <<>> = Append(a, n) /\ Append(b, n) \o <<>> = Append(b, n)
        /\ <<>> \o Append(d, n) = Append(d, n)
    BY <2>1, <2>2, ConcatEmptySeq
  <2>7. QED BY <2>1, <2>3, <2>4, <2>5, <2>6
<1>6. \A q \in Seq(Message) : /\ OutputOn(q \o Pieces("output", <<n>>)) = Append(OutputOn(q), n)
                              /\ q \o Pieces("output", <<n>>) \in Seq(Message)
  <2>1. <<n>> \in Seq(Nat) /\ "output" \in Kinds
    BY <1>2 DEF Kinds
  <2>2. ASSUME NEW q \in Seq(Message)
        PROVE  /\ OutputOn(q \o Pieces("output", <<n>>)) = Append(OutputOn(q), n)
               /\ q \o Pieces("output", <<n>>) \in Seq(Message)
    <3>1. OutputOn(q \o Pieces("output", <<n>>)) = OutputOn(q) \o <<n>>
      BY <2>1, OutputJoined
    <3>2. OutputOn(q) \in Seq(Nat)
      BY OutputIn
    <3>3. Append(OutputOn(q), n) = OutputOn(q) \o <<n>>
      BY <1>2, <3>2, QueueWritten
    <3>4. q \o Pieces("output", <<n>>) \in Seq(Message)
      BY <1>2, <2>1, PieceSent
    <3>5. QED BY <3>1, <3>3, <3>4
  <2>3. QED BY <2>2
<1>7. CASE transport = "websocket"
  <2>1. toClient' = toClient \o Pieces("output", <<n>>) /\ UNCHANGED <<attached, transport, outputBuffer, near, down>>
    BY <1>7, Zenon DEF routeTcpOutput, server, channel
  <2>2. OutputOn(toClient') = Append(a, n) /\ OutputOn(down') = d
    BY <1>1, <1>6, <2>1
  <2>3. ~Handed /\ (Handed' <=> Handed) /\ (HandingOver' <=> HandingOver) /\ b = <<>> /\ d = <<>>
    BY <1>1, <1>2, <1>7, <2>1 DEF Handed, HandingOver
  <2>4. Flow'
    BY <1>2, <1>7, <2>1, <2>3 DEF Flow
  <2>5. /\ connected /\ HandingOver => OnItsWay' = Append(a, n) \o b \o d
        /\ connected /\ ~HandingOver => OnItsWay' = Append(a, n) \o b
        /\ ~connected /\ HandingOver => OnItsWay' = b \o d
        /\ ~connected /\ ~HandingOver => OnItsWay' = <<>>
    BY <1>1, <1>2, <1>5, <2>1, <2>2, <2>3, QueueNext
  <2>6. (Joined' <=> Joined) /\ (Joined <=> connected)
    BY <1>2, <1>7, <2>1, JoinedIs
  <2> HIDE DEF a, b, d, n
  <2>7. CASE connected
    <3>1. OnItsWay' = Append(OnItsWay, n)
      BY <1>4, <1>5, <2>3, <2>5, <2>7
    <3>2. Piped
      BY <1>2, <2>6, <2>7, <3>1, Writes DEF n
    <3>3. QED BY <2>4, <3>2
  <2>8. CASE ~connected
    <3>1. OnItsWay' = OnItsWay
      BY <1>4, <2>5, <2>8
    <3>2. Piped
      BY <1>2, <2>6, <2>8, <3>1, Writes
    <3>3. QED BY <2>4, <3>2
  <2>9. QED BY <2>7, <2>8
<1>8. CASE transport = "switching" /\ Len(b) < Capacity
  <2>0. ~(Len(b) >= Capacity) /\ transport # "websocket" /\ transport # "webrtc"
    BY <1>3, <1>8
  <2>1. outputBuffer' = Append(b, n) /\ UNCHANGED <<attached, transport, toClient, near, down>>
    BY <1>8, <2>0, Zenon DEF routeTcpOutput, channel
  <2>2. OutputOn(toClient') = a /\ OutputOn(down') = d
    BY <2>1
  <2>3. ~Handed /\ (Handed' <=> Handed) /\ (HandingOver' <=> HandingOver) /\ d = <<>>
    BY <1>1, <1>2, <1>8, <2>1 DEF Handed, HandingOver
  <2>4. Flow'
    BY <1>2, <2>1, <2>3, QuietFlows DEF Flow
  <2>5. /\ connected /\ HandingOver => OnItsWay' = a \o Append(b, n) \o d
        /\ connected /\ ~HandingOver => OnItsWay' = a \o Append(b, n)
        /\ ~connected /\ HandingOver => OnItsWay' = Append(b, n) \o d
        /\ ~connected /\ ~HandingOver => OnItsWay' = <<>>
    BY <1>1, <1>2, <1>5, <2>1, <2>2, <2>3, QueueNext
  <2>6. (Joined' <=> Joined) /\ (Joined <=> connected \/ HandingOver)
    BY <1>2, <1>8, <2>1, <2>3, JoinedIs
  <2> HIDE DEF a, b, d, n
  <2>7. CASE connected \/ HandingOver
    <3>1. OnItsWay' = Append(OnItsWay, n)
      BY <1>4, <1>5, <2>3, <2>5, <2>7
    <3>2. Piped
      BY <1>2, <2>6, <2>7, <3>1, Writes DEF n
    <3>3. QED BY <2>4, <3>2
  <2>8. CASE ~(connected \/ HandingOver)
    <3>1. OnItsWay' = OnItsWay
      BY <1>4, <2>5, <2>8
    <3>2. Piped
      BY <1>2, <2>6, <2>8, <3>1, Writes
    <3>3. QED BY <2>4, <3>2
  <2>9. QED BY <2>7, <2>8
<1>9. CASE transport = "switching" /\ Len(b) >= Capacity
  <2>0. ~(Len(b) < Capacity) /\ transport # "websocket" /\ transport # "webrtc"
    BY <1>3, <1>9
  <2>1. fallbackNegotiation
    BY <1>9, <2>0, Zenon DEF routeTcpOutput
  <2>2. BufferFull
    BY <1>9 DEF BufferFull
  <2>3. QED BY <1>2, <1>9, <2>1, <2>2, FallsBackFlows
<1>10. CASE transport = "webrtc"
  <2>0. transport # "websocket" /\ transport # "switching"
    BY <1>10
  <2>1. \/ /\ down' = down \o Pieces("output", <<n>>)
           /\ UNCHANGED <<server, toClient, answered, near, far, up>>
        \/ destroyAttachment
    BY <1>10, <2>0, Zenon DEF routeTcpOutput
  <2>2. CASE destroyAttachment
    <3>1. /\ attached' = FALSE /\ transport' = "websocket" /\ outputBuffer' = <<>>
          /\ UNCHANGED <<near, down, toClient>>
      BY <2>2 DEF destroyAttachment, disposeWebRtc
    <3>2. QED BY <1>2, <3>1, DestroyedFlows
  <2>3. CASE /\ down' = down \o Pieces("output", <<n>>)
             /\ UNCHANGED <<server, toClient, answered, near, far, up>>
    <3>1. UNCHANGED <<attached, transport, outputBuffer, toClient, near>>
      BY <2>3 DEF server
    <3>2. OutputOn(down') = Append(d, n) /\ OutputOn(toClient') = a /\ down' \in Seq(Message)
      BY <1>1, <1>6, <2>3
    <3>3. Handed /\ Handed' /\ (HandingOver' <=> HandingOver) /\ a = <<>> /\ b = <<>>
      BY <1>1, <1>2, <1>10, <3>1 DEF Handed, HandingOver
    <3>4. Flow'
      <4>1. ASSUME phase' = "switching"
            PROVE  down' # <<>> /\ Head(down').kind # "output"
        <5>1. down # <<>> /\ Head(down).kind # "output"
          BY <1>2, <1>10, <4>1 DEF Flow
        <5>2. Pieces("output", <<n>>) \in Seq(Message)
          <6>1. "output" \in Kinds /\ <<n>> \in Seq(Nat) /\ Nat \in SUBSET Nat
            BY <1>2 DEF Kinds
          <6>2. \A k \in Kinds, s \in Seq(Nat) : Pieces(k, s) \in Seq(Message)
            BY <6>1, PiecesParts
          <6>3. QED BY <6>1, <6>2
        <5>3. ASSUME NEW p \in Seq(Message)
              PROVE  down \o p # <<>> /\ Head(down \o p) = Head(down)
          BY <1>1, <5>1
        <5>4. QED BY <2>3, <5>1, <5>2, <5>3
      <4>2. QED BY <1>2, <3>1, <3>3, <4>1 DEF Flow
    <3>5. /\ connected /\ HandingOver => OnItsWay' = a \o b \o Append(d, n)
          /\ connected /\ ~HandingOver => OnItsWay' = a \o b
          /\ ~connected /\ HandingOver => OnItsWay' = b \o Append(d, n)
          /\ ~connected /\ ~HandingOver => OnItsWay' = <<>>
      BY <1>1, <1>2, <1>5, <3>1, <3>2, <3>3, QueueNext
    <3>6. (Joined' <=> Joined) /\ (Joined <=> HandingOver)
      BY <1>2, <1>10, <3>1, <3>3, JoinedIs
    <3>7. <<>> \o <<>> \o Append(d, n) = Append(d, n) /\ <<>> \o <<>> \o d = d
      BY <1>1, <1>5, QueueParts
    <3> HIDE DEF a, b, d, n
    <3>8. CASE HandingOver
      <4>1. OnItsWay' = Append(OnItsWay, n)
        <5>1. OnItsWay = d /\ OnItsWay' = Append(d, n)
          BY <1>4, <1>5, <3>3, <3>5, <3>7, <3>8
        <5>2. QED BY <5>1
      <4>2. Piped
        BY <1>2, <3>6, <3>8, <4>1, Writes DEF n
      <4>3. QED BY <3>4, <4>2
    <3>9. CASE ~HandingOver
      <4>1. OnItsWay' = OnItsWay
        BY <1>4, <3>5, <3>9
      <4>2. Piped
        BY <1>2, <3>6, <3>9, <4>1, Writes
      <4>3. QED BY <3>4, <4>2
    <3>10. QED BY <3>8, <3>9
  <2>4. QED BY <2>1, <2>2, <2>3
<1>11. Len(b) < Capacity \/ Len(b) >= Capacity
  BY <1>3
<1>12. QED BY <1>1, <1>7, <1>8, <1>9, <1>10, <1>11
\* The server activates the channel: what was held back follows the channel's ready.
LEMMA ActivatedFlows ==
  ASSUME IInv, Flow, attached, Has(toServer, "activate"), Activated,
         UNCHANGED <<connected, phase, shown, written>>
  PROVE  Flow' /\ Piped
<1> DEFINE a == OutputOn(toClient)
           b == outputBuffer
           d == OutputOn(down)
<1>1. ~Handed /\ ~Has(toClient, "switch")
  BY DEF IInv, OneSwitch
<1>2. transport # "webrtc"
  BY <1>1 DEF Handed
<1>3. CASE fallbackNegotiation
  BY <1>2, <1>3, FallsBackFlows
<1>4. CASE destroyAttachment
  <2>1. /\ attached' = FALSE /\ transport' = "websocket" /\ outputBuffer' = <<>>
        /\ UNCHANGED <<near, down, toClient>>
    BY <1>4 DEF destroyAttachment, disposeWebRtc
  <2>2. QED BY <2>1, DestroyedFlows
<1>5. CASE /\ transport = "switching" /\ transport' = "webrtc"
           /\ down' = down \o <<Say("ready")>> \o Pieces("output", outputBuffer)
           /\ outputBuffer' = <<>>
           /\ UNCHANGED <<attached, toClient, near>>
  <2>1. /\ a \in Seq(Nat) /\ b \in Seq(Nat) /\ d \in Seq(Nat) /\ OnItsWay \in Seq(Nat)
        /\ toClient \in Seq(Message) /\ down = <<>> /\ d = <<>>
    BY <1>1, Ways
  <2>2. ~Has(toClient, "output") /\ a = <<>>
    <3>1. FollowedBy(toClient, "output", "switch")
      BY <1>5 DEF Flow
    <3>2. ~Has(toClient, "output")
      BY <1>1, <2>1, <3>1, FollowedParts
    <3>3. QED BY <2>1, <3>2, OutputIn
  <2>3. OutputOn(down') = b /\ down' # <<>> /\ Head(down').kind # "output"
    <3> DEFINE m == Say("ready")
               p == Pieces("output", outputBuffer)
    <3>1. m \in Message /\ m.kind = "ready" /\ <<>> \in Seq(Message)
      BY Messages DEF Kinds
    <3>2. p \in Seq(Message)
      <4>1. "output" \in Kinds /\ Nat \in SUBSET Nat
        BY DEF Kinds
      <4>2. QED BY <2>1, <4>1, PiecesParts
    <3>3. OutputOn(<<>> \o <<m>> \o p) = OutputOn(<<>>) \o b
      BY <2>1, <3>1, OutputJoined
    <3>4. OutputOn(<<>>) \o b = b
      <4>1. <<>> \o b = b
        BY <2>1, ConcatEmptySeq
      <4>2. QED BY <2>1, <4>1
    <3>5. down' = <<>> \o <<m>> \o p
      BY <1>5, <2>1
    <3> HIDE DEF m, p
    <3>6. <<>> \o <<m>> \o p # <<>> /\ Head(<<>> \o <<m>> \o p) = m
      BY <3>1, <3>2
    <3>7. QED BY <3>1, <3>3, <3>4, <3>5, <3>6
  <2>4. Flow'
    BY <1>5, <2>2, <2>3 DEF Flow
  <2>5. HandingOver' <=> HandingOver
    BY <1>5 DEF HandingOver
  <2>6. /\ connected /\ HandingOver => OnItsWay = <<>> \o b \o <<>>
        /\ connected /\ ~HandingOver => OnItsWay = <<>> \o b
        /\ ~connected /\ HandingOver => OnItsWay = b \o <<>>
        /\ ~connected /\ ~HandingOver => OnItsWay = <<>>
    BY <2>1, <2>2, QueueIs
  <2>7. /\ connected /\ HandingOver => OnItsWay' = <<>> \o <<>> \o b
        /\ connected /\ ~HandingOver => OnItsWay' = <<>> \o <<>>
        /\ ~connected /\ HandingOver => OnItsWay' = <<>> \o b
        /\ ~connected /\ ~HandingOver => OnItsWay' = <<>>
        /\ OnItsWay' \in Seq(Nat)
    <3>1. <<>> \in Seq(Nat)
      OBVIOUS
    <3>2. QED BY <1>5, <2>1, <2>2, <2>3, <2>5, <3>1, QueueNext
  <2>8. /\ <<>> \o b = b /\ b \o <<>> = b /\ <<>> \o <<>> = <<>> /\ <<>> \in Seq(Nat)
        /\ <<>> \o OnItsWay = OnItsWay
    BY <2>1, ConcatEmptySeq
  <2> HIDE DEF a, b, d
  <2>9. CASE HandingOver
    <3>1. OnItsWay' = OnItsWay
      BY <2>6, <2>7, <2>8, <2>9
    <3>2. Joined' <=> Joined
      BY <1>5, <2>5, <2>9, JoinedIs
    <3>3. Piped
      BY <3>1, <3>2, Rests
    <3>4. QED BY <2>4, <3>3
  <2>10. CASE ~HandingOver
    <3>1. OnItsWay' = <<>>
      BY <2>7, <2>8, <2>10
    <3>2. ~Joined'
      BY <1>5, <2>5, <2>10, JoinedIs
    <3>3. Piped
      BY <2>1, <2>7, <2>8, <3>1, <3>2, Cuts
    <3>4. QED BY <2>4, <3>3
  <2>11. QED BY <2>9, <2>10
<1>6. transport = "switching" \/ fallbackNegotiation
  BY DEF Activated
<1>7. QED BY <1>3, <1>4, <1>5, <1>6 DEF Activated

\* The server reads the WebSocket.
LEMMA MessageFlows ==
  ASSUME IInv, Flow, message
  PROVE  Flow' /\ Piped
<1> DEFINE m == Head(toServer)
<1>1. toServer # <<>> /\ UNCHANGED <<connected, phase, shown, written>>
  BY DEF message, proxy
<1>2. toServer \in Seq(Message)
  BY DEF IInv, Types, Buffers
<1>3. m.kind \in {"input", "offer", "activate"} /\ Has(toServer, m.kind)
  <2>1. m \in Range(toServer)
    BY <1>1, <1>2, Taken
  <2>2. QED BY <2>1 DEF IInv, Content, Has
<1>4. CASE UNCHANGED <<server, toClient, channel>>
  BY <1>1, <1>4, ToldFlows DEF server, channel
<1>5. CASE destroyAttachment
  <2>1. /\ attached' = FALSE /\ transport' = "websocket" /\ outputBuffer' = <<>>
        /\ UNCHANGED <<near, down, toClient>>
    BY <1>5 DEF destroyAttachment, disposeWebRtc
  <2>2. QED BY <1>1, <2>1, DestroyedFlows
<1>6. CASE Offered
  <2>1. "unavailable" \in Kinds \ {"output"}
    BY DEF Kinds
  <2>2. UNCHANGED <<attached, transport, outputBuffer, near, down>>
    BY <1>6 DEF Offered, server, channel
  <2>3. toClient' = Append(toClient, Say("unavailable")) \/ toClient' = toClient
    BY <1>6 DEF Offered
  <2>4. QED BY <1>1, <2>1, <2>2, <2>3, ToldFlows
<1>7. CASE attached /\ m.kind = "activate" /\ Activated
  BY <1>1, <1>3, <1>7, ActivatedFlows
<1>8. CASE ~attached
  <2>1. UNCHANGED <<server, toClient, channel>>
    BY <1>8 DEF message
  <2>2. QED BY <1>4, <2>1
<1>9. CASE attached
  <2>1. CASE m.kind # "input"
    <3>1. Offered \/ (m.kind = "activate" /\ Activated)
      BY <1>3, <1>9, <2>1 DEF message
    <3>2. QED BY <1>6, <1>7, <1>9, <3>1
  <2>2. CASE m.kind = "input"
    <3>1. destroyAttachment \/ UNCHANGED <<server, toClient, channel>>
      BY <1>9, <2>2 DEF message
    <3>2. QED BY <1>4, <1>5, <3>1
  <2>3. QED BY <2>1, <2>2
<1>10. QED BY <1>8, <1>9
-----------------------------------------------------------------------------
(* The proxy's steps and the output.                                       *)

\* The proxy begins to close its socket, in the middle of a message or not.
LEMMA ClosingFlows ==
  ASSUME IInv, Flow, connected' = FALSE,
         UNCHANGED <<attached, transport, outputBuffer, near, phase, down, written, shown>>,
         toClient' = toClient \/ Takes(toClient, toClient')
  PROVE  Flow' /\ Piped
<1>1. toClient \in Seq(Message)
  BY Ways
<1>2. toClient' \in Seq(Message) /\ (Has(toClient', "output") => Has(toClient, "output"))
  BY <1>1, LessLeft
<1>3. FollowedBy(toClient, "output", "switch") => FollowedBy(toClient', "output", "switch")
  <2>1. CASE toClient' = toClient
    BY <2>1
  <2>2. CASE toClient # <<>> /\ toClient' = Tail(toClient)
    <3>1. FollowedBy(toClient, "output", "switch") => FollowedBy(Tail(toClient), "output", "switch")
      BY <1>1, <2>2, FollowedParts
    <3>2. QED BY <2>2, <3>1
  <2>3. QED BY <2>1, <2>2 DEF Takes
<1>4. (Handed' <=> Handed) /\ (HandingOver' <=> HandingOver)
  BY DEF Handed, HandingOver
<1>5. Flow'
  BY <1>2, <1>3, <1>4, QuietFlows DEF Flow
<1>6. OutputOn(toClient') \in Seq(Nat) /\ OutputOn(down') = OutputOn(down)
  BY <1>2, OutputIn
<1>7. Piped
  BY <1>4, <1>6, Disconnects
<1>8. QED BY <1>5, <1>7

\* Steps that change nothing of the stream.
LEMMA SameFlows ==
  ASSUME IInv, Flow,
         UNCHANGED <<attached, transport, connected, outputBuffer, phase, near, toClient, down, written, shown>>
  PROVE  Flow' /\ Piped
BY ToldFlows

\* The lease is renewed, or its renewal fails.
LEMMA RenewLeaseFlows ==
  ASSUME IInv, Flow, renewLease \/ readyTimer
  PROVE  Flow' /\ Piped
<1>1. /\ UNCHANGED <<attached, transport, outputBuffer, near, phase, toClient, down, written, shown>>
      /\ UNCHANGED connected \/ connected' = FALSE
  BY DEF renewLease, readyTimer, closeWithError, server, channel, streams
<1>2. CASE connected' = FALSE
  BY <1>1, <1>2, ClosingFlows
<1>3. CASE UNCHANGED connected
  BY <1>1, <1>3, SameFlows
<1>4. QED BY <1>1, <1>2, <1>3

\* The offer is sent, or the negotiation fails on the proxy's side.
LEMMA SendOfferFlows ==
  ASSUME IInv, Flow, sendOffer \/ clientTimer \/ nearCloses
  PROVE  Flow' /\ Piped
<1>1. UNCHANGED <<attached, transport, outputBuffer, toClient, down, written, shown>>
  BY DEF sendOffer, clientTimer, nearCloses, server, streams
<1>2. CASE fallBackFromNegotiation
  BY <1>1, <1>2, GivesUpFlows
<1>3. CASE UNCHANGED <<connected, phase, near>>
  BY <1>1, <1>3, SameFlows
<1>4. QED BY <1>2, <1>3 DEF sendOffer, clientTimer, nearCloses

\* The proxy's end of the channel opens.
LEMMA NearOpensFlows ==
  ASSUME IInv, Flow, nearOpens
  PROVE  Flow' /\ Piped
<1>1. /\ near = "new" /\ near' = "open"
      /\ UNCHANGED <<attached, transport, connected, outputBuffer, phase, toClient, down, written, shown>>
  BY DEF nearOpens, server, proxy, streams
<1>2. phase = "websocket"
  BY <1>1 DEF Flow
<1>3. ~HandingOver /\ ~HandingOver' /\ (Handed' <=> Handed)
  BY <1>1, <1>2 DEF HandingOver, Handed
<1>4. Flow'
  BY <1>1, <1>2, <1>3, QuietFlows
<1>5. Piped
  BY <1>1, <1>3, Stays
<1>6. QED BY <1>4, <1>5

\* The command ends.
LEMMA SocketClosesFlows ==
  ASSUME IInv, Flow, socketCloses
  PROVE  Flow' /\ Piped
<1>1. /\ connected' = FALSE /\ near' = "closed"
      /\ UNCHANGED <<attached, transport, outputBuffer, phase, toClient, down, written, shown>>
  BY DEF socketCloses, stopPeer, server, streams
<1>2. ~HandingOver' /\ (Handed' <=> Handed)
  BY <1>1 DEF HandingOver, Handed
<1>3. Flow'
  BY <1>1, <1>2, QuietFlows
<1>4. /\ OutputOn(toClient) \in Seq(Nat) /\ outputBuffer \in Seq(Nat) /\ OutputOn(down) \in Seq(Nat)
      /\ OnItsWay \in Seq(Nat) /\ transport \in {"websocket", "switching", "webrtc"}
  BY Ways
<1>5. OnItsWay' = <<>> /\ OnItsWay' \in Seq(Nat)
  BY <1>1, <1>2, <1>4, QueueNext
<1>6. OnItsWay = OnItsWay' \o OnItsWay
  <2>1. <<>> \o OnItsWay = OnItsWay
    BY <1>4, ConcatEmptySeq
  <2>2. QED BY <1>5, <2>1
<1>7. ~Joined'
  BY <1>1, <1>2, <1>4, JoinedIs
<1>8. Piped
  BY <1>1, <1>4, <1>5, <1>6, <1>7, Cuts
<1>9. QED BY <1>3, <1>8

\* ssh writes.
LEMMA OnInputFlows ==
  ASSUME IInv, Flow, onInput
  PROVE  Flow' /\ Piped
<1>1. UNCHANGED <<attached, transport, outputBuffer, near, phase, toClient, down, written, shown>>
  BY DEF onInput, server
<1>2. UNCHANGED connected \/ connected' = FALSE
  <2>1. phase \in {"websocket", "switching", "webrtc"} /\ Len(inputBuffer) \in Nat /\ Capacity \in Nat
    BY BridgeAssumption DEF IInv, Types, ProxyFlags, Content
  <2>2. CASE phase = "switching" /\ Len(inputBuffer) < Capacity
    <3>1. ~(Len(inputBuffer) >= Capacity) /\ phase # "webrtc" /\ phase # "websocket"
      BY <2>1, <2>2
    <3>2. QED BY <2>2, <3>1, Zenon DEF onInput
  <2>3. CASE phase = "switching" /\ Len(inputBuffer) >= Capacity
    <3>1. ~(Len(inputBuffer) < Capacity) /\ phase # "webrtc" /\ phase # "websocket"
      BY <2>1, <2>3
    <3>2. QED BY <2>3, <3>1, Zenon DEF onInput, closeWithError
  <2>4. CASE phase = "webrtc"
    <3>1. phase # "switching" /\ phase # "websocket"
      BY <2>4
    <3>2. QED BY <2>4, <3>1, Zenon DEF onInput, sendWebRtcBytes, closeWithError
  <2>5. CASE phase = "websocket"
    <3>1. phase # "switching" /\ phase # "webrtc"
      BY <2>5
    <3>2. sendWebSocketBytes(<<typed'>>)
      BY <2>5, <3>1, Zenon DEF onInput
    <3>3. QED BY <3>2 DEF sendWebSocketBytes, closeWithError
  <2>6. Len(inputBuffer) < Capacity \/ Len(inputBuffer) >= Capacity
    BY <2>1
  <2>7. QED BY <2>1, <2>2, <2>3, <2>4, <2>5, <2>6
<1>3. CASE connected' = FALSE
  BY <1>1, <1>3, ClosingFlows
<1>4. CASE UNCHANGED connected
  BY <1>1, <1>4, SameFlows
<1>5. QED BY <1>2, <1>3, <1>4
\* The proxy reads a message that carries nothing of the stream and gives nothing up.
LEMMA PlainRead ==
  ASSUME IInv, Flow, Takes(toClient, toClient'), Head(toClient).kind # "output",
         UNCHANGED <<attached, transport, connected, outputBuffer, near, phase, down, written, shown>>
  PROVE  Flow' /\ Piped
<1>1. toClient \in Seq(Message) /\ toClient # <<>> /\ toClient' = Tail(toClient)
  BY Ways DEF Takes
<1>2. FollowedBy(toClient, "output", "switch") => FollowedBy(toClient', "output", "switch")
  <2>1. FollowedBy(toClient, "output", "switch") => FollowedBy(Tail(toClient), "output", "switch")
    BY <1>1, FollowedParts
  <2>2. QED BY <1>1, <2>1
<1>3. Has(toClient', "output") => Has(toClient, "output")
  BY <1>1, LessLeft
<1>4. (HandingOver' <=> HandingOver) /\ (Handed' <=> Handed)
  BY DEF HandingOver, Handed
<1>5. OutputOn(toClient') = OutputOn(toClient) /\ OutputOn(down') = OutputOn(down)
  <2>1. OutputOn(Tail(toClient)) = OutputOn(toClient)
    BY <1>1, OutputIn
  <2>2. QED BY <1>1, <2>1
<1>6. Flow'
  BY <1>2, <1>3, <1>4, QuietFlows DEF Flow
<1>7. Piped
  BY <1>4, <1>5, Stays
<1>8. QED BY <1>6, <1>7

\* The proxy turns to the channel: nothing is on it yet.
LEMMA OnSwitchFlows ==
  ASSUME IInv, Flow, Takes(toClient, toClient'), Head(toClient).kind = "switch", near = "open", connected,
         phase' = "switching",
         UNCHANGED <<attached, transport, connected, outputBuffer, near, down, written, shown>>
  PROVE  Flow' /\ Piped
<1>1. toClient \in Seq(Message) /\ toClient # <<>> /\ toClient' = Tail(toClient)
  BY Ways DEF Takes
<1>2. Has(toClient, "switch")
  BY <1>1, Taken
<1>3. ~Handed /\ phase = "websocket"
  BY <1>2 DEF IInv, OneSwitch
<1>4. down = <<>> /\ transport # "webrtc"
  BY <1>3 DEF Handed
<1>5. Handed' <=> Handed
  BY <1>3 DEF Handed
<1>6. FollowedBy(toClient, "output", "switch") => FollowedBy(toClient', "output", "switch")
  <2>1. FollowedBy(toClient, "output", "switch") => FollowedBy(Tail(toClient), "output", "switch")
    BY <1>1, FollowedParts
  <2>2. QED BY <1>1, <2>1
<1>7. Flow'
  BY <1>3, <1>4, <1>5, <1>6 DEF Flow
<1> DEFINE a == OutputOn(toClient)
           b == outputBuffer
<1>8. /\ a \in Seq(Nat) /\ b \in Seq(Nat) /\ OutputOn(down) = <<>> /\ <<>> \in Seq(Nat)
      /\ transport \in {"websocket", "switching", "webrtc"}
  BY <1>3, Ways
<1>9. OutputOn(toClient') = a
  <2>1. OutputOn(Tail(toClient)) = a
    BY <1>1, OutputIn
  <2>2. QED BY <1>1, <2>1
<1>10. HandingOver' /\ ~HandingOver
  BY <1>3 DEF HandingOver
<1>11. OnItsWay = a \o b /\ OnItsWay' = a \o b \o <<>>
  <2>1. OnItsWay = a \o b
    BY <1>8, <1>10, QueueIs
  <2>2. OnItsWay' = a \o b \o <<>>
    BY <1>8, <1>9, <1>10, QueueNext
  <2>3. QED BY <2>1, <2>2
<1>12. a \o b \o <<>> = a \o b
  BY <1>8, QueueParts
<1>13. Joined' <=> Joined
  BY <1>4, <1>8, JoinedIs
<1>14. Piped
  BY <1>11, <1>12, <1>13, Rests
<1>15. QED BY <1>7, <1>14

\* ssh reads a piece from the WebSocket: it is the first of the queue.
LEMMA OnOutputFlows ==
  ASSUME IInv, Flow, Takes(toClient, toClient'), Head(toClient).kind = "output", connected,
         UNCHANGED <<attached, transport, outputBuffer, near, phase, down, written>>,
         onOutput(Head(toClient).n)
  PROVE  Flow' /\ Piped
<1>1. toClient \in Seq(Message) /\ toClient # <<>> /\ toClient' = Tail(toClient)
  BY Ways DEF Takes
<1>2. ~Handed
  <2>1. Has(toClient, "output")
    BY <1>1, Taken
  <2>2. QED BY <2>1 DEF Flow
<1>3. phase # "webrtc"
  BY <1>2 DEF Handed
<1>4. CASE closeWithError("full") /\ UNCHANGED shown
  <2>1. connected' = FALSE
    BY <1>4 DEF closeWithError
  <2>2. QED BY <1>4, <2>1, ClosingFlows
<1>5. CASE shown' = Append(shown, Head(toClient).n) /\ UNCHANGED connected
  <2> DEFINE n == Head(toClient).n
             t == OutputOn(toClient')
             b == outputBuffer
  <2>1. OutputOn(toClient) = <<n>> \o t /\ n \in Nat /\ t \in Seq(Nat)
    <3>1. /\ OutputOn(toClient) = <<Head(toClient).n>> \o OutputOn(Tail(toClient))
          /\ Head(toClient).n \in Nat /\ OutputOn(Tail(toClient)) \in Seq(Nat)
      BY <1>1, OutputIn
    <3>2. QED BY <1>1, <3>1
  <2>2. /\ OutputOn(toClient) \in Seq(Nat) /\ b \in Seq(Nat) /\ OutputOn(down) \in Seq(Nat)
        /\ OutputOn(down) = <<>> /\ <<>> \in Seq(Nat)
    BY <1>2, Ways
  <2>3. (Handed' <=> Handed) /\ (HandingOver' <=> HandingOver)
    BY DEF Handed, HandingOver
  <2>4. Flow'
    <3>1. FollowedBy(toClient, "output", "switch") => FollowedBy(Tail(toClient), "output", "switch")
      BY <1>1, FollowedParts
    <3>2. QED BY <1>1, <1>2, <2>3, <3>1 DEF Flow
  <2>5. OnItsWay' = t \o b /\ OnItsWay = OutputOn(toClient) \o b
    <3>1. /\ HandingOver => OnItsWay = OutputOn(toClient) \o b \o <<>>
          /\ ~HandingOver => OnItsWay = OutputOn(toClient) \o b
      BY <2>2, QueueIs
    <3>2. /\ HandingOver => OnItsWay' = t \o b \o <<>>
          /\ ~HandingOver => OnItsWay' = t \o b
      BY <1>5, <2>1, <2>2, <2>3, QueueNext
    <3>3. t \o b \o <<>> = t \o b /\ OutputOn(toClient) \o b \o <<>> = OutputOn(toClient) \o b
      BY <2>1, <2>2, QueueParts
    <3>4. QED BY <3>1, <3>2, <3>3
  <2>6. (<<n>> \o t) \o b = <<n>> \o (t \o b) /\ t \o b \in Seq(Nat)
    <3> DEFINE one == <<n>>
    <3>1. one \in Seq(Nat) /\ t \in Seq(Nat) /\ b \in Seq(Nat)
      BY <2>1, <2>2
    <3> HIDE DEF n, t, b, one
    <3>2. one \o t \o b = one \o (t \o b) /\ t \o b \in Seq(Nat)
      BY <3>1, QueueParts, SMTT(40)
    <3>3. QED BY <3>2 DEF one
  <2>7. Joined' <=> Joined
    BY <1>5, <2>3 DEF Joined
  <2>8. OnItsWay = <<n>> \o OnItsWay' /\ OnItsWay' \in Seq(Nat)
    BY <2>1, <2>5, <2>6
  <2>9. Piped
    <3>1. shown' = Append(shown, n)
      BY <1>5
    <3> HIDE DEF n
    <3>2. QED BY <2>1, <2>7, <2>8, <3>1, Shows
  <2>10. QED BY <2>4, <2>9
<1>6. QED BY <1>3, <1>4, <1>5 DEF onOutput

\* The proxy reads the WebSocket.
LEMMA SocketMessageFlows ==
  ASSUME IInv, Flow, socketMessage
  PROVE  Flow' /\ Piped
<1> DEFINE m == Head(toClient)
<1>1. /\ connected /\ Takes(toClient, toClient')
      /\ UNCHANGED <<attached, transport, outputBuffer, down, written>>
  BY DEF socketMessage, Takes, server
<1>2. CASE m.kind = "ready" /\ onReady
  BY <1>1, <1>2, PlainRead DEF onReady
<1>3. CASE m.kind = "answer" /\ onAnswer
  <2>1. CASE fallBackFromNegotiation
    BY <1>1, <1>3, <2>1, GivesUpFlows DEF onAnswer
  <2>2. CASE connected' = FALSE /\ UNCHANGED <<phase, near>>
    BY <1>1, <1>3, <2>2, ClosingFlows DEF onAnswer
  <2>3. CASE UNCHANGED <<phase, near, connected>>
    BY <1>1, <1>3, <2>3, PlainRead DEF onAnswer
  <2>4. QED BY <1>3, <2>1, <2>2, <2>3 DEF onAnswer, closeWithError
<1>4. CASE m.kind = "switch" /\ onSwitch
  <2>1. UNCHANGED <<near, shown>>
    BY <1>4 DEF onSwitch
  <2>2. CASE near = "open"
    <3>1. phase' = "switching" /\ UNCHANGED connected
      BY <1>4, <2>2 DEF onSwitch
    <3>2. QED BY <1>1, <1>4, <2>1, <2>2, <3>1, OnSwitchFlows
  <2>3. CASE near # "open"
    <3>1. connected' = FALSE /\ UNCHANGED phase
      BY <1>4, <2>3 DEF onSwitch, closeWithError
    <3>2. QED BY <1>1, <2>1, <3>1, ClosingFlows
  <2>4. QED BY <2>2, <2>3
<1>5. CASE m.kind = "output" /\ onOutput(m.n)
  BY <1>1, <1>5, OnOutputFlows DEF onOutput
<1>6. CASE m.kind = "unavailable" /\ fallBackFromNegotiation /\ UNCHANGED <<ready, shown, answered>>
  BY <1>1, <1>6, GivesUpFlows
<1>7. CASE /\ m.kind = "error" /\ closeWithError("target")
           /\ UNCHANGED <<ready, shown, answered, phase, peer, near, timer, inputBuffer, toServer>>
  <2>1. connected' = FALSE
    BY <1>7 DEF closeWithError
  <2>2. QED BY <1>1, <1>7, <2>1, ClosingFlows
<1>8. QED BY <1>2, <1>3, <1>4, <1>5, <1>6, <1>7 DEF socketMessage

\* The proxy reads the channel: its ready, or a piece, which is the first of the queue.
LEMMA ChannelMessageFlows ==
  ASSUME IInv, Flow, channelMessage
  PROVE  Flow' /\ Piped
<1> DEFINE m == Head(down)
           b == outputBuffer
           t == OutputOn(down')
<1>1. /\ near = "open" /\ down # <<>> /\ down' = Tail(down)
      /\ UNCHANGED <<attached, transport, outputBuffer, near, toClient, written>>
  BY DEF channelMessage, server
<1>2. /\ OutputOn(toClient) \in Seq(Nat) /\ b \in Seq(Nat) /\ OutputOn(down) \in Seq(Nat)
      /\ down \in Seq(Message) /\ OnItsWay \in Seq(Nat) /\ <<>> \in Seq(Nat)
      /\ phase \in {"websocket", "switching", "webrtc"}
  BY Ways DEF IInv, Types, ProxyFlags
<1>3. Handed /\ OutputOn(toClient) = <<>> /\ b = <<>>
  <2>1. Handed
    BY <1>1 DEF Handed
  <2>2. QED BY <2>1, Ways
<1>4. CASE m.kind = "output"
  <2>1. /\ shown' = IF phase = "webrtc" THEN Append(shown, m.n) ELSE shown
        /\ UNCHANGED <<phase, connected>>
    BY <1>4 DEF channelMessage
  <2>2. phase # "switching"
    BY <1>1, <1>4 DEF Flow
  <2>3. HandingOver' <=> HandingOver
    BY <1>1, <2>1 DEF HandingOver
  <2>4. Flow'
    BY <1>1, <1>3, <2>1, <2>2, QuietFlows DEF Flow
  <2>5. Joined' <=> Joined
    BY <1>1, <2>1, <2>3 DEF Joined
  <2>6. CASE phase = "webrtc"
    <3>1. HandingOver
      BY <1>1, <2>6 DEF HandingOver
    <3> DEFINE n == m.n
    <3>2. OutputOn(down) = <<n>> \o t /\ n \in Nat /\ t \in Seq(Nat)
      <4>1. /\ OutputOn(down) = <<Head(down).n>> \o OutputOn(Tail(down))
            /\ Head(down).n \in Nat /\ OutputOn(Tail(down)) \in Seq(Nat)
        BY <1>1, <1>2, <1>4, OutputIn
      <4>2. QED BY <1>1, <4>1
    <3>3. OnItsWay = OutputOn(down) /\ OnItsWay' = t
      <4>1. /\ connected => OnItsWay = <<>> \o <<>> \o OutputOn(down)
            /\ ~connected => OnItsWay = <<>> \o OutputOn(down)
        BY <1>2, <1>3, <3>1, QueueIs
      <4>2. /\ connected => OnItsWay' = <<>> \o <<>> \o t
            /\ ~connected => OnItsWay' = <<>> \o t
        BY <1>1, <1>2, <1>3, <2>1, <2>3, <3>1, <3>2, QueueNext
      <4>3. <<>> \o <<>> \o OutputOn(down) = OutputOn(down) /\ <<>> \o <<>> \o t = t
        BY <1>2, <3>2, QueueParts
      <4>4. <<>> \o OutputOn(down) = OutputOn(down) /\ <<>> \o t = t
        BY <1>2, <3>2, ConcatEmptySeq
      <4>5. QED BY <4>1, <4>2, <4>3, <4>4
    <3>4. shown' = Append(shown, n)
      BY <2>1, <2>6
    <3> HIDE DEF n, t, m
    <3>5. Piped
      BY <1>1, <2>5, <3>2, <3>3, <3>4, Shows
    <3>6. QED BY <2>4, <3>5
  <2>7. CASE phase = "websocket"
    <3>1. ~HandingOver
      BY <2>7 DEF HandingOver
    <3>2. OnItsWay' = OnItsWay
      BY <1>1, <2>1, <2>3, <3>1 DEF OnItsWay
    <3>3. UNCHANGED shown
      BY <2>1, <2>7
    <3>4. Piped
      BY <1>1, <2>5, <3>2, <3>3, Rests
    <3>5. QED BY <2>4, <3>4
  <2>8. QED BY <1>2, <2>2, <2>6, <2>7
<1>5. CASE m.kind # "output"
  <2>1. UNCHANGED shown
    BY <1>5 DEF channelMessage
  <2>2. (phase' = phase \/ (phase = "switching" /\ phase' = "webrtc")) /\ (UNCHANGED connected \/ connected' = FALSE)
    BY <1>5 DEF channelMessage, sendWebRtcBytes, closeWithError
  <2>3. phase' # "switching"
    BY <1>5 DEF channelMessage, closeWithError
  <2>4. HandingOver' <=> HandingOver
    BY <1>1, <2>2 DEF HandingOver
  <2>5. Flow'
    BY <1>1, <1>3, <2>2, <2>3, QuietFlows DEF Flow
  <2>6. t = OutputOn(down)
    <3>1. OutputOn(Tail(down)) = OutputOn(down)
      BY <1>1, <1>2, <1>5, OutputIn
    <3>2. QED BY <1>1, <3>1
  <2>7. CASE connected' = FALSE
    <3>1. Piped
      BY <1>1, <1>2, <2>1, <2>4, <2>6, <2>7, Disconnects
    <3>2. QED BY <2>5, <3>1
  <2>8. CASE UNCHANGED connected
    <3>1. Piped
      BY <1>1, <2>1, <2>4, <2>6, <2>8, Stays
    <3>2. QED BY <2>5, <3>1
  <2>9. QED BY <2>2, <2>7, <2>8
<1>6. QED BY <1>4, <1>5
\* Nothing is under way at first.
LEMMA InitFlows ==
  ASSUME Init
  PROVE  Flow /\ OutputPipe!Init
<1>1. /\ attached = TRUE /\ transport = "websocket" /\ outputBuffer = <<>> /\ connected = TRUE
      /\ phase = "websocket" /\ toClient = <<>> /\ down = <<>> /\ near = "new" /\ written = 0 /\ shown = <<>>
  BY DEF Init
<1>2. Flow
  <2>1. ~Handed
    BY <1>1 DEF Handed
  <2>2. QED BY <1>1, <2>1 DEF Flow
<1>3. OnItsWay = <<>>
  <2>1. <<>> \in Seq(Message) /\ <<>> \in Seq(Nat)
    OBVIOUS
  <2>2. OutputOn(<<>>) = <<>>
    BY <2>1, OutputIn, Nothing
  <2>3. ~HandingOver /\ OutputOn(toClient) \in Seq(Nat) /\ outputBuffer \in Seq(Nat) /\ OutputOn(down) \in Seq(Nat)
    BY <1>1, <2>1, <2>2 DEF HandingOver
  <2>4. OnItsWay = OutputOn(toClient) \o outputBuffer
    BY <1>1, <2>3, QueueIs
  <2>5. <<>> \o <<>> = <<>>
    BY <2>1, ConcatEmptySeq
  <2>6. QED BY <1>1, <2>2, <2>4, <2>5
<1>4. Joined = TRUE
  BY <1>1 DEF Joined
<1>5. QED BY <1>1, <1>2, <1>3, <1>4 DEF OutputPipe!Init

\* Every step is one of the pipe, or none.
LEMMA NextFlows ==
  ASSUME IInv, Flow, [Next]_vars
  PROVE  Flow' /\ Piped
<1>1. CASE ServerStep
  BY <1>1, BesideFlows, RouteTcpOutputFlows, CreateAnswerFlows, NegotiationFlows, AcceptDataChannelFlows,
     MessageFlows, EndsFlow DEF ServerStep
<1>2. CASE ProxyStep
  BY <1>2, RenewLeaseFlows, SendOfferFlows, SocketMessageFlows, NearOpensFlows, ChannelMessageFlows,
     OnInputFlows, SocketClosesFlows DEF ProxyStep
<1>3. CASE UNCHANGED vars
  <2>1. UNCHANGED <<attached, transport, connected, outputBuffer, phase, near, toClient, down, written, shown>>
    BY <1>3 DEF vars, server, proxy, channel, streams
  <2>2. QED BY <2>1, SameFlows
<1>4. QED BY <1>1, <1>2, <1>3 DEF Next

\* Both invariants are of the specification.
LEMMA FlowInvariant ==
  Spec => [](IInv /\ Flow)
<1>1. Init => IInv /\ Flow
  BY InitHolds, InitFlows
<1>2. IInv /\ Flow /\ [Next]_vars => IInv' /\ Flow'
  BY NextKeeps, NextFlows
<1>3. QED BY <1>1, <1>2, PTL DEF Spec

\* ssh reads what sshd wrote, in order, once and without a gap while the two halves belong together
\* and the buffer of the switch takes what it holds back, however the handover goes or ends, and while
\* the proxy closes its socket (routeTcpOutput, Activated and fallbackNegotiation of
\* RemoteBridgeService, the message listeners of remoteBridgeClient): every step is one of BytePipe,
\* or none.
THEOREM OutputOfBridgeIsPiped ==
  Spec => OutputPipe!Init /\ [][OutputPipe!Next]_(OutputPipe!vars)
<1>1. Init => OutputPipe!Init
  BY InitFlows
<1>2. IInv /\ Flow /\ [Next]_vars => [OutputPipe!Next]_(OutputPipe!vars)
  BY NextFlows DEF Piped
<1>3. QED BY <1>1, <1>2, FlowInvariant, PTL DEF Spec
\* In particular, nothing is shown twice or before what was written earlier, and nothing that was not
\* written, whatever switches, falls back, overflows or breaks.
THEOREM OutputOfBridgeStaysInOrder == Spec => []OutputPipe!ShownInOrder
<1> DEFINE InOrder == Delivered(written, OnItsWay, shown)
<1>1. OutputPipe!Init => InOrder
  BY NothingDelivered DEF OutputPipe!Init
<1>2. InOrder /\ [OutputPipe!Next]_(OutputPipe!vars) => InOrder'
  <2> SUFFICES ASSUME InOrder, [OutputPipe!Next]_(OutputPipe!vars)
               PROVE  InOrder'
    OBVIOUS
  <2>1. written \in Nat
    BY DEF Delivered
  <2>2. CASE OutputPipe!Write
    <3>1. /\ written' = written + 1 /\ shown' = shown
          /\ OnItsWay' \in {OnItsWay, Append(OnItsWay, written + 1)}
      BY <2>2 DEF OutputPipe!Write
    <3>2. QED BY <3>1, DeliveredOn
  <2>3. CASE OutputPipe!Show
    BY <2>3, DeliveredOn DEF OutputPipe!Show
  <2>4. CASE OutputPipe!Cut
    <3>1. PICK kept \in 0..Len(OnItsWay) : OnItsWay' = SubSeq(OnItsWay, 1, kept)
      BY <2>4 DEF OutputPipe!Cut
    <3>2. written' \in {written, written + 1} /\ shown' = shown
      BY <2>4 DEF OutputPipe!Cut
    <3>3. QED BY <3>1, <3>2, DeliveredOn
  <2>5. CASE UNCHANGED OutputPipe!vars
    BY <2>5 DEF OutputPipe!vars
  <2>6. QED BY <2>2, <2>3, <2>4, <2>5 DEF OutputPipe!Next
<1>3. InOrder => OutputPipe!ShownInOrder
  BY DEF Delivered, Ascends, Range, OutputPipe!ShownInOrder
<1> HIDE DEF InOrder
<1>4. QED BY <1>1, <1>2, <1>3, OutputOfBridgeIsPiped, PTL
=============================================================================
