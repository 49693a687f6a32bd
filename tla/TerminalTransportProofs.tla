----------------------- MODULE TerminalTransportProofs -----------------------
(***************************************************************************)
(* Proofs about one attachment of a browser to a terminal: input reaches   *)
(* the program in the order it was typed and never twice, over both        *)
(* connections and through failed switches (InputInOrder), a browser that  *)
(* sends on the direct path has a server that listens on it, or none       *)
(* (PathsAgree), and what the browser shows is what the terminal wrote,    *)
(* without a gap: each step is one of BytePipe or none (OutputPiped, but   *)
(* for its fairness).                                                      *)
(***************************************************************************)
EXTENDS TerminalTransport, ProofLemmas


Channels    == [Attempts -> [near : Ends, far : Ends, down : Seq(Message), up : Seq(Message)]]
Takes(q, r) == q # <<>> /\ r = Tail(q)

\* The type invariant: the flags of the server
ServerFlags ==
  /\ attached \in BOOLEAN /\ transport \in {"websocket", "switching", "webrtc"}
  /\ negotiation \in 0..MaxAttempts /\ answering \subseteq Attempts
  /\ lease \in {"none", "fresh", "due"}

\* and of the browser,
BrowserFlags ==
  /\ connected \in BOOLEAN /\ directActive \in BOOLEAN
  /\ phase \in {"idle", "finding", "switching", "active", "closed"}
  /\ attempt \in 0..MaxAttempts /\ offered \in 0..attempt /\ answered \in 0..offered

\* the connections,
Wires == toClient \in Seq(Message) /\ toServer \in Seq(Message) /\ channel \in Channels

\* the streams and the buffers,
Streams ==
  /\ written \in 0..MaxOutput /\ shown \in Seq(1..written)
  /\ typed \in 0..MaxInput /\ entered \in Seq(1..typed)
  /\ outputBuffer \in Seq(1..written) /\ Len(outputBuffer) <= Capacity
  /\ inputBuffer \in Seq(1..typed) /\ Len(inputBuffer) <= Capacity

\* and what they say of each other.
Rules ==
  /\ transport # "websocket" => attached /\ negotiation # 0
  /\ lease = "none" <=> transport # "webrtc"
  /\ outputBuffer # <<>> => transport = "switching"
  /\ inputBuffer # <<>> => phase = "switching"
  /\ phase \in {"finding", "switching", "active"} => connected /\ attempt # 0
  /\ directActive <=> phase = "active"

Types == ServerFlags /\ BrowserFlags /\ Wires /\ Streams /\ Rules

\* A message of kind k is not followed by one of kind l, and those of kind k have rising numbers.
InTurn(q, k, l) ==
  \A i, j \in DOMAIN q : i < j /\ q[i].kind = k => q[j].kind # l /\ (q[j].kind = k => q[i].n < q[j].n)

\* What the buffers and the connections carry.
Content ==
  /\ \A m \in Range(toServer) : /\ m.kind \in {"input", "offer", "activate"}
                                /\ m.kind = "input" => m.n \in 1..typed
  /\ \A m \in Range(toClient) : /\ m.kind \in {"output", "unavailable", "answer", "switch"}
                                /\ m.kind = "output" => m.n \in 1..written
  /\ \A a \in Attempts :
       /\ \A m \in Range(channel[a].down) : /\ m.kind \in {"output", "ready"}
                                            /\ m.kind = "output" => m.n \in 1..written
       /\ \A m \in Range(channel[a].up) : m.kind = "input" /\ m.n \in 1..typed

\* Offers and answers, of which the later ones supersede the earlier.
Offers ==
  /\ negotiation <= offered /\ answering \subseteq 1..offered
  /\ \A m \in Range(toServer) : m.kind = "offer" => m.n \in 1..offered /\ answered < m.n /\ negotiation < m.n
  /\ \A m \in Range(toClient) : m.kind = "answer" =>
       /\ m.n \in 1..offered /\ answered < m.n
       /\ negotiation # 0 => m.n <= negotiation
       /\ \A x \in Range(toServer) : x.kind = "offer" => m.n < x.n
  /\ negotiation # 0 => answered <= negotiation
  /\ negotiation \in answering =>
       /\ answered < negotiation
       /\ \A m \in Range(toClient) : m.kind = "answer" => m.n < negotiation
  /\ InTurn(toServer, "offer", "activate") /\ InTurn(toClient, "answer", "switch")
  /\ \A a \in Attempts : channel[a].far = "open" \/ channel[a].near = "open" => a <= answered
  /\ transport # "websocket" => channel[negotiation].far = "open"

\* The stream is handed over to the channel.
Handed == transport = "webrtc" \/ phase = "active" \/ \E a \in Attempts : channel[a].down # <<>>

\* One switch at a time is announced and activated, none after the hand-over.
Switches ==
  /\ Single(toClient, "switch") /\ Single(toServer, "activate")
  /\ Has(toClient, "switch") => ~Has(toServer, "activate")
  /\ negotiation # 0 /\ answered < negotiation => ~Has(toServer, "activate")
  /\ negotiation # 0 /\ answered = negotiation /\ channel[negotiation].far = "new" =>
       ~Has(toClient, "switch") /\ ~Has(toServer, "activate")
  /\ Handed => ~Has(toClient, "switch")
  /\ transport = "webrtc" => ~Has(toServer, "activate")

\* The channel carries something only while both halves use it.
Paths ==
  attached =>
    /\ phase = "active" => transport = "webrtc" /\ negotiation = attempt
    /\ \A a \in Attempts : channel[a].down # <<>> \/ channel[a].up # <<>> =>
         transport = "webrtc" /\ negotiation = a

\* What was read comes before what is under way, and that is in order, wherever it will be read.
Order ==
  /\ Ascends(entered) /\ Ascends(inputBuffer) /\ Rising(toServer)
  /\ Before(Range(entered), Range(inputBuffer))
  /\ Before(Numbers(toServer), Range(inputBuffer))
  /\ attached /\ transport # "webrtc" => Before(Range(entered), Numbers(toServer))
  /\ \A a \in Attempts : /\ Rising(channel[a].up)
                         /\ Before(Range(entered), Numbers(channel[a].up))
                         /\ Before(Numbers(channel[a].up), Range(inputBuffer))

IInv == Types /\ Content /\ Offers /\ Switches /\ Paths /\ Order

-----------------------------------------------------------------------------
(* Messages, queues and channels.                                          *)

\* It is the type invariant of the model.
LEMMA TypesAre ==
  Types <=> TypeOK
<1>1. ServerFlags /\ BrowserFlags => ((directActive <=> phase = "active") <=> (directActive = (phase = "active")))
  BY DEF ServerFlags, BrowserFlags
<1>2. (lease = "none" <=> transport # "webrtc") <=> ((lease = "none") = (transport # "webrtc"))
  OBVIOUS
<1>3. QED BY <1>1, <1>2, Zenon DEF Types, ServerFlags, BrowserFlags, Wires, Streams, Rules, TypeOK, Channels

\* Messages of a kind are messages,
LEMMA Messages ==
  \A k \in Kinds : /\ Say(k) \in Message /\ Say(k).kind = k
                   /\ \A n \in Nat : LET m == [kind |-> k, n |-> n] IN m \in Message /\ m.kind = k /\ m.n = n
BY DEF Say, Message

\* and so are the pieces of a buffer, of which an input keeps the order.
LEMMA PiecesParts ==
  ASSUME NEW k \in Kinds, NEW N \in SUBSET Nat, NEW s \in Seq(N)
  PROVE  /\ Pieces(k, s) \in Seq(Message)
         /\ \A m \in Range(Pieces(k, s)) : m.kind = k /\ m.n \in Range(s) /\ m.n \in N
         /\ \A j : Has(Pieces(k, s), j) <=> (j = k /\ s # <<>>)
         /\ k = "input" => /\ Numbers(Pieces(k, s)) = Range(s)
                           /\ Rising(Pieces(k, s)) <=> Ascends(s)
         /\ k # "input" => Numbers(Pieces(k, s)) = {} /\ Rising(Pieces(k, s))
<1>1. DOMAIN s = 1..Len(s) /\ Len(s) \in Nat /\ \A i \in DOMAIN s : s[i] \in Nat
  <2>1. DOMAIN s = 1..Len(s) /\ Len(s) \in Nat /\ \A i \in DOMAIN s : s[i] \in N
    OBVIOUS
  <2>2. QED BY <2>1
<1>2. Packs(Pieces(k, s), k, s)
  BY DEF Packs, Pieces
<1>3. Pieces(k, s) \in Seq(Message)
  <2>1. Pieces(k, s) = [i \in 1..Len(s) |-> [kind |-> k, n |-> s[i]]]
    BY <1>1 DEF Pieces
  <2>2. \A i \in 1..Len(s) : [kind |-> k, n |-> s[i]] \in Message
    BY <1>1 DEF Message
  <2>3. QED BY <1>1, <2>1, <2>2
<1> DEFINE r == Pieces(k, s)
<1>4. Packs(r, k, s)
  BY <1>2
<1> HIDE DEF r
<1>5. /\ \A m \in Range(r) : m.kind = k /\ m.n \in Range(s) /\ m.n \in N
      /\ \A j : Has(r, j) <=> (j = k /\ s # <<>>)
      /\ k = "input" => Numbers(r) = Range(s) /\ (Rising(r) <=> Ascends(s))
      /\ k # "input" => Numbers(r) = {} /\ Rising(r)
  BY <1>4, Packed, Zenon
<1>6. QED BY <1>3, <1>5 DEF r

\* An empty stream has nothing, and takes no room.
LEMMA Nothing ==
  /\ Range(<<>>) = {} /\ Numbers(<<>>) = {} /\ \A k : ~Has(<<>>, k)
  /\ Len(<<>>) <= Capacity /\ Ascends(<<>>)
BY TransportAssumption DEF Range, Numbers, Has, Ascends

\* What is left of a stream when its first message was taken, or none.
Within(q, r) ==
  /\ r \in Seq(Message) /\ Range(r) \subseteq Range(q)
  /\ \A k : (Has(r, k) => Has(q, k)) /\ (Single(q, k) => Single(r, k))
  /\ \A k, l : InTurn(q, k, l) => InTurn(r, k, l)
  /\ Numbers(r) \subseteq Numbers(q)
  /\ Rising(q) => Rising(r)

\* The first message of a stream comes before the others.
LEMMA TakenInTurn ==
  ASSUME NEW q \in Seq(Message), q # <<>>, NEW k, NEW l, InTurn(q, k, l)
  PROVE  /\ InTurn(Tail(q), k, l)
         /\ Head(q).kind = k => /\ ~Has(Tail(q), l)
                                /\ \A m \in Range(Tail(q)) : m.kind = k => Head(q).n < m.n
<1> DEFINE t == Tail(q)
<1>1. /\ DOMAIN q = 1..Len(q) /\ DOMAIN t = 1..(Len(q) - 1) /\ Len(q) \in Nat /\ Len(q) >= 1
      /\ \A i \in DOMAIN t : t[i] = q[i + 1]
      /\ Head(q) = q[1]
  OBVIOUS
<1> HIDE DEF t
<1>2. /\ \A i \in DOMAIN t : i + 1 \in DOMAIN q /\ 1 < i + 1
      /\ \A i, j \in DOMAIN t : i < j => i + 1 < j + 1
      /\ 1 \in DOMAIN q
  BY <1>1
<1>3. InTurn(t, k, l)
  BY <1>1, <1>2 DEF InTurn
<1>4. ASSUME Head(q).kind = k, NEW j \in DOMAIN t
      PROVE  t[j].kind # l /\ (t[j].kind = k => Head(q).n < t[j].n)
  BY <1>1, <1>2, <1>4 DEF InTurn
<1>5. QED BY <1>3, <1>4 DEF t, Has, Range

\* At most the first message is taken.
LEMMA TakenWithin ==
  ASSUME NEW q \in Seq(Message), NEW r, r = q \/ Takes(q, r)
  PROVE  Within(q, r)
<1>1. CASE r = q
  BY <1>1 DEF Within
<1>2. CASE Takes(q, r)
  <2>1. q # <<>> /\ r = Tail(q)
    BY <1>2 DEF Takes
  <2>2. /\ Tail(q) \in Seq(Message) /\ Range(q) = {Head(q)} \cup Range(Tail(q))
        /\ \A k : /\ Has(q, k) <=> (Head(q).kind = k \/ Has(Tail(q), k))
                  /\ Single(q, k) => /\ Single(Tail(q), k)
                                     /\ ~(Head(q).kind = k /\ Has(Tail(q), k))
        /\ Numbers(q) = {x \in {Head(q).n} : Head(q).kind = "input"} \cup Numbers(Tail(q))
        /\ Rising(q) => Rising(Tail(q))
    BY <2>1, Taken
  <2>3. \A k, l : InTurn(q, k, l) => InTurn(Tail(q), k, l)
    BY <2>1, TakenInTurn
  <2>4. QED BY <2>1, <2>2, <2>3 DEF Within
<1>3. QED BY <1>1, <1>2

\* What is added to a stream: messages of the set M, of kinds K.
Grows(q, r, K, M) ==
  /\ r \in Seq(Message) /\ Range(r) \subseteq Range(q) \cup M /\ \A m \in M : m.kind \in K
  /\ \A k : k \notin K => /\ Has(r, k) <=> Has(q, k)
                          /\ Single(q, k) => Single(r, k)
  /\ \A k, l : k \notin K /\ l \notin K /\ InTurn(q, k, l) => InTurn(r, k, l)
  /\ "input" \notin K => /\ Numbers(r) = Numbers(q)
                         /\ Rising(q) => Rising(r)

\* Messages added at the end.
LEMMA Added ==
  ASSUME NEW q \in Seq(Message), NEW r \in Seq(Message), NEW K, NEW M,
         Range(r) \subseteq M, \A m \in M : m.kind \in K
  PROVE  Grows(q, q \o r, K, M)
<1> DEFINE w == q \o r
<1>1. /\ w \in Seq(Message) /\ Range(w) = Range(q) \cup Range(r)
      /\ \A k : /\ Has(w, k) <=> (Has(q, k) \/ Has(r, k))
                /\ Single(w, k) <=> (Single(q, k) /\ Single(r, k) /\ ~(Has(q, k) /\ Has(r, k)))
  BY Joining, JoinedRange, JoinedHas
<1>2. /\ Numbers(w) = Numbers(q) \cup Numbers(r)
      /\ Rising(w) <=> (Rising(q) /\ Rising(r) /\ Before(Numbers(q), Numbers(r)))
  BY JoinedRising
<1>3. /\ \A i \in DOMAIN q : i \in DOMAIN w /\ w[i] = q[i]
      /\ \A i \in DOMAIN r : Len(q) + i \in DOMAIN w /\ w[Len(q) + i] = r[i]
      /\ \A x \in DOMAIN w : x \in DOMAIN q \/ \E i \in DOMAIN r : x = Len(q) + i
  BY Joining
<1> HIDE DEF w
<1>4. \A k : k \notin K => ~Has(r, k) /\ Single(r, k)
  BY DEF Has, Single, Range
<1>5. "input" \notin K => Numbers(r) = {} /\ Rising(r)
  BY DEF Numbers, Rising, Range
<1>6. \A x \in DOMAIN w : x \in DOMAIN q \/ w[x].kind \in K
  BY <1>3 DEF Range
<1>7. ASSUME NEW k, NEW l, k \notin K, l \notin K, InTurn(q, k, l)
      PROVE  InTurn(w, k, l)
  <2> SUFFICES ASSUME NEW i \in DOMAIN w, NEW j \in DOMAIN w, i < j, w[i].kind = k
               PROVE  w[j].kind # l /\ (w[j].kind = k => w[i].n < w[j].n)
    BY DEF InTurn
  <2>1. i \in DOMAIN q
    BY <1>6, <1>7
  <2>2. CASE j \in DOMAIN q
    BY <1>3, <1>7, <2>1, <2>2 DEF InTurn
  <2>3. CASE w[j].kind \in K
    BY <1>7, <2>3
  <2>4. QED BY <1>6, <2>2, <2>3
<1>8. "input" \notin K => Numbers(w) = Numbers(q) /\ (Rising(q) => Rising(w))
  BY <1>2, <1>5 DEF Before
<1>9. QED BY <1>1, <1>4, <1>7, <1>8 DEF Grows, w

\* A message is sent.
LEMMA MessageSent ==
  ASSUME NEW q \in Seq(Message), NEW m \in Message, NEW r, r = Append(q, m)
  PROVE  /\ Grows(q, r, {m.kind}, {m})
         /\ Single(q, m.kind) /\ ~Has(q, m.kind) => Single(r, m.kind)
         /\ \A k, l : /\ InTurn(q, k, l)
                      /\ m.kind = l => ~Has(q, k)
                      /\ m.kind = k => \A x \in Range(q) : x.kind = k => x.n < m.n
                      => InTurn(r, k, l)
<1> DEFINE one == <<m>>
<1>1. Append(q, m) = q \o one /\ one \in Seq(Message)
  BY AppendIsConcat
<1>2. Range(one) = {m} /\ \A k : Single(one, k) /\ (Has(one, k) <=> m.kind = k)
  BY OneMessage
<1> HIDE DEF one
<1>3. Grows(q, q \o one, {m.kind}, {m})
  BY <1>1, <1>2, Added
<1>4. Single(q \o one, m.kind) <=> (Single(q, m.kind) /\ Single(one, m.kind)
                                    /\ ~(Has(q, m.kind) /\ Has(one, m.kind)))
  BY <1>1, JoinedHas
<1>5. /\ DOMAIN r = 1..(Len(q) + 1) /\ DOMAIN q = 1..Len(q) /\ Len(q) \in Nat
      /\ \A i \in DOMAIN q : r[i] = q[i]
      /\ r[Len(q) + 1] = m
  OBVIOUS
<1>6. ASSUME NEW k, NEW l, InTurn(q, k, l), m.kind = l => ~Has(q, k),
             m.kind = k => \A x \in Range(q) : x.kind = k => x.n < m.n
      PROVE  InTurn(r, k, l)
  <2> SUFFICES ASSUME NEW i \in DOMAIN r, NEW j \in DOMAIN r, i < j, r[i].kind = k
               PROVE  r[j].kind # l /\ (r[j].kind = k => r[i].n < r[j].n)
    BY DEF InTurn
  <2>1. i \in DOMAIN q /\ r[i] = q[i] /\ q[i] \in Range(q)
    <3>1. i \in DOMAIN q
      BY <1>5
    <3>2. QED BY <1>5, <3>1 DEF Range
  <2>2. CASE j \in DOMAIN q
    BY <1>5, <1>6, <2>1, <2>2 DEF InTurn
  <2>3. CASE j = Len(q) + 1
    <3>1. r[j] = m /\ Has(q, k)
      BY <1>5, <2>1, <2>3 DEF Has
    <3>2. QED BY <1>6, <2>1, <3>1
  <2>4. QED BY <1>5, <2>2, <2>3
<1>7. QED BY <1>1, <1>2, <1>3, <1>4, <1>6

\* Messages of one kind that carry a number of a set.
OfKind(k, N) == {m \in Message : m.kind = k /\ m.n \in N}

\* Pieces of a buffer are sent.
LEMMA PiecesSent ==
  ASSUME NEW q \in Seq(Message), NEW k \in Kinds, NEW N \in SUBSET Nat, NEW s \in Seq(N),
         NEW r, r = q \o Pieces(k, s)
  PROVE  /\ Grows(q, r, {k}, OfKind(k, N))
         /\ k = "input" =>
              /\ Numbers(r) = Numbers(q) \cup Range(s)
              /\ Rising(q) /\ Ascends(s) /\ Before(Numbers(q), Range(s)) => Rising(r)
<1> DEFINE p == Pieces(k, s)
           M == OfKind(k, N)
<1>1. /\ p \in Seq(Message) /\ \A m \in Range(p) : m.kind = k /\ m.n \in Range(s) /\ m.n \in N
      /\ k = "input" => Numbers(p) = Range(s) /\ (Rising(p) <=> Ascends(s))
  BY PiecesParts
<1> HIDE DEF p
<1>2. Range(p) \subseteq Message
  BY <1>1 DEF Range
<1>3. Range(p) \subseteq M /\ \A m \in M : m.kind \in {k}
  BY <1>1, <1>2 DEF OfKind
<1> HIDE DEF M
<1>4. Grows(q, q \o p, {k}, M)
  BY <1>1, <1>3, Added
<1>5. /\ Numbers(q \o p) = Numbers(q) \cup Numbers(p)
      /\ Rising(q \o p) <=> (Rising(q) /\ Rising(p) /\ Before(Numbers(q), Numbers(p)))
  <2>1. Numbers(q \o p) = Numbers(q) \cup Numbers(p)
    BY <1>1, JoinedRising
  <2>2. Rising(q \o p) <=> (Rising(q) /\ Rising(p) /\ Before(Numbers(q), Numbers(p)))
    BY <1>1, JoinedRising
  <2>3. QED BY <2>1, <2>2
<1>6. r = q \o p
  BY DEF p
<1>7. ASSUME k = "input"
      PROVE  /\ Numbers(r) = Numbers(q) \cup Range(s)
             /\ Rising(q) /\ Ascends(s) /\ Before(Numbers(q), Range(s)) => Rising(r)
  <2>1. Numbers(p) = Range(s) /\ (Rising(p) <=> Ascends(s))
    BY <1>1, <1>7
  <2>2. QED BY <1>5, <1>6, <2>1
<1>8. QED BY <1>4, <1>6, <1>7 DEF M

\* One piece is sent.
LEMMA PieceSent ==
  ASSUME NEW q \in Seq(Message), NEW k \in Kinds, NEW n \in Nat, NEW r, r = q \o Pieces(k, <<n>>)
  PROVE  /\ Grows(q, r, {k}, OfKind(k, {n}))
         /\ k = "input" =>
              /\ Numbers(r) = Numbers(q) \cup {n}
              /\ Rising(q) /\ Before(Numbers(q), {n}) => Rising(r)
<1> DEFINE s == <<n>>
<1>1. s \in Seq({n}) /\ Range(s) = {n} /\ Ascends(s)
  <2>1. DOMAIN s = {1} /\ s[1] = n /\ s \in Seq({n})
    OBVIOUS
  <2>2. QED BY <2>1 DEF Range, Ascends
<1>2. r = q \o Pieces(k, s)
  OBVIOUS
<1> HIDE DEF s
<1>3. {n} \in SUBSET Nat
  OBVIOUS
<1>4. Grows(q, r, {k}, OfKind(k, {n}))
  BY <1>1, <1>2, <1>3, PiecesSent
<1>5. ASSUME k = "input"
      PROVE  /\ Numbers(r) = Numbers(q) \cup Range(s)
             /\ Rising(q) /\ Ascends(s) /\ Before(Numbers(q), Range(s)) => Rising(r)
  BY <1>1, <1>2, <1>3, <1>5, PiecesSent
<1>6. QED BY <1>1, <1>4, <1>5

\* A piece of input that is sent keeps the order when it is greater than those before it.
LEMMA InputSent ==
  ASSUME NEW q \in Seq(Message), NEW x \in Nat, Rising(q), Before(Numbers(q), {x})
  PROVE  Rising(q \o Pieces("input", <<x>>))
<1> DEFINE s == <<x>>
           r == q \o Pieces("input", s)
<1>1. s \in Seq({x}) /\ Range(s) = {x} /\ Ascends(s)
  <2>1. DOMAIN s = {1} /\ s[1] = x /\ s \in Seq({x})
    OBVIOUS
  <2>2. QED BY <2>1 DEF Range, Ascends
<1>2. "input" \in Kinds /\ {x} \in SUBSET Nat
  BY DEF Kinds
<1> HIDE DEF s
<1>3. Rising(q) /\ Ascends(s) /\ Before(Numbers(q), Range(s)) => Rising(r)
  BY <1>1, <1>2, PiecesSent
<1>4. QED BY <1>1, <1>3 DEF s

\* A fallback tells that the direct path is unavailable, and sends the output held back.
Fallbacks(N) == {m \in Message : m.kind = "unavailable" \/ (m.kind = "output" /\ m.n \in N)}

\* What is sent then.
LEMMA FallbackSent ==
  ASSUME NEW q \in Seq(Message), NEW N \in SUBSET Nat, NEW b \in Seq(N), NEW r,
         r = q \o <<Say("unavailable")>> \o Pieces("output", b) \/ r = Append(q, Say("unavailable"))
  PROVE  Grows(q, r, {"unavailable", "output"}, Fallbacks(N))
<1> DEFINE K   == {"unavailable", "output"}
           M   == Fallbacks(N)
           one == <<Say("unavailable")>>
           p   == Pieces("output", b)
           s   == q \o one
<1>1. Say("unavailable") \in Message /\ Say("unavailable").kind = "unavailable"
  BY Messages DEF Kinds
<1>2. one \in Seq(Message) /\ Range(one) = {Say("unavailable")}
  BY <1>1, OneMessage
<1>3. p \in Seq(Message) /\ \A m \in Range(p) : m.kind = "output" /\ m.n \in N
  BY PiecesParts, ZenonT(40) DEF Kinds
<1>4. r = s \o p \/ r = s
  <2>1. Append(q, Say("unavailable")) = s
    BY <1>1, AppendIsConcat
  <2>2. QED BY <2>1, Zenon
<1> HIDE DEF one, p
<1>5. Range(p) \subseteq Message
  BY <1>3 DEF Range
<1>6. Range(one) \subseteq M /\ Range(p) \subseteq M /\ \A m \in M : m.kind \in K
  BY <1>1, <1>2, <1>3, <1>5 DEF Fallbacks
<1> HIDE DEF M, K
<1>7. Grows(q, s, K, M)
  BY <1>2, <1>6, Added
<1>8. s \in Seq(Message)
  BY <1>7 DEF Grows
<1> HIDE DEF s
<1>9. Grows(s, s \o p, K, M)
  BY <1>3, <1>6, <1>8, Added
<1>10. Grows(q, s \o p, K, M)
  BY <1>7, <1>9 DEF Grows
<1>11. QED BY <1>4, <1>7, <1>10 DEF K, M

\* The channel of one attempt changes.
Other(d, a) == d \in Channels /\ \A b \in Attempts \ {a} : d[b] = channel[b]

\* One end of it,
LEMMA FarSet ==
  ASSUME channel \in Channels, NEW a \in Attempts, NEW e \in Ends, NEW d,
         d = [channel EXCEPT ![a].far = e]
  PROVE  /\ Other(d, a) /\ d[a].far = e /\ d[a].near = channel[a].near
         /\ d[a].down = channel[a].down /\ d[a].up = channel[a].up
BY DEF Channels, Other

\* or the other,
LEMMA NearSet ==
  ASSUME channel \in Channels, NEW a \in Attempts, NEW e \in Ends, NEW d,
         d = [channel EXCEPT ![a].near = e]
  PROVE  /\ Other(d, a) /\ d[a].near = e /\ d[a].far = channel[a].far
         /\ d[a].down = channel[a].down /\ d[a].up = channel[a].up
BY DEF Channels, Other

\* what it carries down,
LEMMA DownSet ==
  ASSUME channel \in Channels, NEW a \in Attempts, NEW q \in Seq(Message), NEW d,
         d = [channel EXCEPT ![a].down = q]
  PROVE  /\ Other(d, a) /\ d[a].near = channel[a].near /\ d[a].far = channel[a].far
         /\ d[a].down = q /\ d[a].up = channel[a].up
BY DEF Channels, Other

\* or up.
LEMMA UpSet ==
  ASSUME channel \in Channels, NEW a \in Attempts, NEW r \in Seq(Message), NEW d,
         d = [channel EXCEPT ![a].up = r]
  PROVE  /\ Other(d, a) /\ d[a].near = channel[a].near /\ d[a].far = channel[a].far
         /\ d[a].down = channel[a].down /\ d[a].up = r
BY DEF Channels, Other

\* Ends of channels are closed and nothing else happens to them.
Closes(d) ==
  /\ d \in Channels
  /\ \A b \in Attempts : /\ d[b].down = channel[b].down /\ d[b].up = channel[b].up
                         /\ d[b].far \in {channel[b].far, "closed"}
                         /\ d[b].near \in {channel[b].near, "closed"}

\* What disposeWebRtc does to the channel, fail and the peer's end.
LEMMA Closings ==
  ASSUME channel \in Channels
  PROVE  /\ Closes(channel)
         /\ negotiation \in 0..MaxAttempts => Closes(Disposed)
         /\ \A a \in Attempts :
              /\ Closes([channel EXCEPT ![a].far = "closed"])
              /\ \A b \in Attempts \ {a} : [channel EXCEPT ![a].far = "closed"][b].far = channel[b].far
              /\ Closes([channel EXCEPT ![a].near = "closed"])
              /\ \A b \in Attempts : [channel EXCEPT ![a].near = "closed"][b].far = channel[b].far
<1>1. Closes(channel)
  BY DEF Closes
<1>2. ASSUME NEW a \in Attempts
      PROVE  /\ Closes([channel EXCEPT ![a].far = "closed"])
             /\ \A b \in Attempts \ {a} : [channel EXCEPT ![a].far = "closed"][b].far = channel[b].far
  <2> DEFINE d == [channel EXCEPT ![a].far = "closed"]
  <2>1. /\ Other(d, a) /\ d[a].far = "closed" /\ d[a].near = channel[a].near
        /\ d[a].down = channel[a].down /\ d[a].up = channel[a].up
    BY FarSet DEF Ends
  <2> HIDE DEF d
  <2>2. Closes(d) /\ \A b \in Attempts \ {a} : d[b].far = channel[b].far
    BY <2>1 DEF Other, Closes
  <2>3. QED BY <2>2 DEF d
<1>3. ASSUME NEW a \in Attempts
      PROVE  /\ Closes([channel EXCEPT ![a].near = "closed"])
             /\ \A b \in Attempts : [channel EXCEPT ![a].near = "closed"][b].far = channel[b].far
  <2> DEFINE d == [channel EXCEPT ![a].near = "closed"]
  <2>1. /\ Other(d, a) /\ d[a].near = "closed" /\ d[a].far = channel[a].far
        /\ d[a].down = channel[a].down /\ d[a].up = channel[a].up
    BY NearSet DEF Ends
  <2> HIDE DEF d
  <2>2. Closes(d) /\ \A b \in Attempts : d[b].far = channel[b].far
    BY <2>1 DEF Other, Closes
  <2>3. QED BY <2>2 DEF d
<1>4. ASSUME NEW a \in Attempts
      PROVE  Closes(Hangup(a))
  <2>1. channel[a].far \in Ends
    BY DEF Channels
  <2>2. CASE channel[a].far = "open"
    <3>1. Hangup(a) = [channel EXCEPT ![a].far = "closed"]
      BY <2>2 DEF Hangup
    <3>2. QED BY <1>2, <3>1
  <2>3. CASE channel[a].far # "open"
    <3>1. Hangup(a) = [channel EXCEPT ![a].far = channel[a].far]
      BY <2>3 DEF Hangup
    <3>2. Hangup(a) = channel
      BY <3>1 DEF Channels
    <3>3. QED BY <1>1, <3>2
  <2>4. QED BY <2>2, <2>3
<1>5. ASSUME negotiation \in 0..MaxAttempts
      PROVE  Closes(Disposed)
  <2>1. negotiation # 0 => negotiation \in Attempts
    BY <1>5, TransportAssumption DEF Attempts
  <2>2. QED BY <1>1, <1>4, <2>1 DEF Disposed
<1>6. QED BY <1>1, <1>2, <1>3, <1>5
-----------------------------------------------------------------------------
(* Steps that start nothing.                                               *)

\* What the invariant says of numbers and of the attempt of the negotiation.
LEMMA Known ==
  ASSUME IInv
  PROVE  /\ negotiation \in 0..MaxAttempts /\ attempt \in 0..MaxAttempts /\ offered \in 0..attempt
         /\ answered \in 0..offered /\ negotiation <= offered
         /\ negotiation # 0 => negotiation \in Attempts
         /\ attempt # 0 => attempt \in Attempts
         /\ written \in Nat /\ typed \in Nat /\ Capacity \in Nat /\ MaxAttempts \in Nat
         /\ channel \in Channels /\ toClient \in Seq(Message) /\ toServer \in Seq(Message)
         /\ \A a \in Attempts : /\ channel[a].near \in Ends /\ channel[a].far \in Ends
                                /\ channel[a].down \in Seq(Message) /\ channel[a].up \in Seq(Message)
         /\ \A a \in Attempts : a \in Nat /\ a # 0
<1>1. /\ negotiation \in 0..MaxAttempts /\ attempt \in 0..MaxAttempts /\ offered \in 0..attempt
      /\ answered \in 0..offered /\ negotiation <= offered
      /\ written \in 0..MaxOutput /\ typed \in 0..MaxInput
      /\ channel \in Channels /\ toClient \in Seq(Message) /\ toServer \in Seq(Message)
  BY DEF IInv, Types, ServerFlags, BrowserFlags, Wires, Streams, Offers
<1>2. /\ negotiation # 0 => negotiation \in Attempts
      /\ attempt # 0 => attempt \in Attempts
      /\ written \in Nat /\ typed \in Nat /\ Capacity \in Nat /\ MaxAttempts \in Nat
      /\ \A a \in Attempts : a \in Nat /\ a # 0
  BY <1>1, TransportAssumption DEF Attempts
<1>3. \A a \in Attempts : /\ channel[a].near \in Ends /\ channel[a].far \in Ends
                          /\ channel[a].down \in Seq(Message) /\ channel[a].up \in Seq(Message)
  BY <1>1 DEF Channels
<1>4. QED BY <1>1, <1>2, <1>3

\* A stream that changed is one of those before it.
LEMMA HandedBefore ==
  ASSUME Closes(channel'), transport' \in {transport, "websocket"},
         phase' = phase \/ phase' \in {"idle", "finding", "closed"}
  PROVE  Handed' => Handed
BY DEF Closes, Handed

\* Messages are taken that ask for nothing, ends of channels close that carry nothing for the server,
\* a lease falls due or is renewed, and an answer nobody waits for is dropped.
LEMMA NothingStarts ==
  ASSUME IInv,
         UNCHANGED <<attached, transport, negotiation, outputBuffer, connected, phase, attempt, offered,
                     answered, directActive, inputBuffer, written, typed, entered>>,
         answering' \subseteq answering,
         lease' \in {"none", "fresh", "due"}, lease' = "none" <=> lease = "none",
         shown' \in Seq(1..written),
         \/ Within(toClient, toClient')
         \/ Grows(toClient, toClient', {"unavailable"}, {Say("unavailable")}),
         Within(toServer, toServer'),
         Closes(channel'),
         transport # "websocket" => channel'[negotiation].far = channel[negotiation].far
  PROVE  IInv'
<1>1. /\ toClient' \in Seq(Message)
      /\ \A m \in Range(toClient') : m \in Range(toClient) \/ m.kind = "unavailable"
      /\ Has(toClient', "switch") => Has(toClient, "switch")
      /\ Single(toClient, "switch") => Single(toClient', "switch")
      /\ InTurn(toClient, "answer", "switch") => InTurn(toClient', "answer", "switch")
  <2>1. CASE Within(toClient, toClient')
    BY <2>1 DEF Within
  <2>2. CASE Grows(toClient, toClient', {"unavailable"}, {Say("unavailable")})
    BY <2>2 DEF Grows, Say
  <2>3. QED BY <2>1, <2>2
<1>2. Types'
  <2>1. ServerFlags' /\ BrowserFlags'
    BY DEF IInv, Types, ServerFlags, BrowserFlags
  <2>2. Wires'
    BY <1>1 DEF Wires, Within, Closes
  <2>3. Streams' /\ Rules'
    BY DEF IInv, Types, Streams, Rules
  <2>4. QED BY <2>1, <2>2, <2>3 DEF Types
<1>3. Content'
  BY <1>1 DEF IInv, Content, Within, Closes
<1>4. Offers'
  <2>1. \A m \in Range(toClient') : m.kind = "answer" => m \in Range(toClient)
    BY <1>1
  <2>2. QED BY <1>1, <2>1, Known DEF IInv, Offers, Within, Closes
<1>5. Switches'
  <2>1. Handed' => Handed
    BY HandedBefore
  <2>2. negotiation # 0 /\ channel'[negotiation].far = "new" => channel[negotiation].far = "new"
    BY Known DEF Closes
  <2>3. QED BY <1>1, <2>1, <2>2 DEF IInv, Switches, Within
<1>6. Paths'
  BY DEF IInv, Paths, Closes
<1>7. Order'
  BY DEF IInv, Order, Within, Closes, Before
<1>8. QED BY <1>2, <1>3, <1>4, <1>5, <1>6, <1>7 DEF IInv

\* The server gives the negotiation up, or the attachment, which alone takes an active path with it.
LEMMA ServerGivesUp ==
  ASSUME IInv,
         negotiation' = 0, outputBuffer' = <<>>, transport' = "websocket", lease' = "none",
         answering' \subseteq answering,
         attached' \in BOOLEAN, attached' => attached /\ transport # "webrtc",
         Closes(channel'),
         toClient' = toClient \/ Grows(toClient, toClient', {"unavailable", "output"}, Fallbacks(1..written)),
         Within(toServer, toServer'),
         UNCHANGED <<connected, phase, attempt, offered, answered, directActive, inputBuffer, shown, typed, entered>>,
         written' \in 0..MaxOutput, written <= written'
  PROVE  IInv'
<1>1. /\ toClient' \in Seq(Message)
      /\ \A m \in Range(toClient') : \/ m \in Range(toClient) \/ m.kind = "unavailable"
                                     \/ (m.kind = "output" /\ m.n \in 1..written)
      /\ Has(toClient', "switch") <=> Has(toClient, "switch")
      /\ Single(toClient, "switch") => Single(toClient', "switch")
      /\ InTurn(toClient, "answer", "switch") => InTurn(toClient', "answer", "switch")
  <2>1. CASE toClient' = toClient
    BY <2>1, Known
  <2>2. CASE Grows(toClient, toClient', {"unavailable", "output"}, Fallbacks(1..written))
    BY <2>2 DEF Grows, Fallbacks
  <2>3. QED BY <2>1, <2>2
<1>2. \A m \in 1..written : m \in 1..written'
  BY Known
<1>3. Types'
  <2>1. ServerFlags' /\ BrowserFlags'
    BY Known DEF IInv, Types, ServerFlags, BrowserFlags
  <2>2. Wires'
    BY <1>1 DEF Wires, Within, Closes
  <2>3. Streams'
    BY <1>2, Nothing DEF IInv, Types, Streams
  <2>4. Rules'
    BY DEF IInv, Types, Rules
  <2>5. QED BY <2>1, <2>2, <2>3, <2>4 DEF Types
<1>4. Content'
  BY <1>1, <1>2 DEF IInv, Content, Within, Closes
<1>5. Offers'
  <2>1. \A m \in Range(toServer') : m.kind = "offer" => m.n \in 1..offered /\ answered < m.n /\ 0 < m.n
    BY Known DEF IInv, Offers, Within
  <2>2. \A m \in Range(toClient') : m.kind = "answer" => m \in Range(toClient)
    BY <1>1
  <2>3. 0 <= offered /\ 0 \notin answering
    BY Known DEF IInv, Offers
  <2>4. QED BY <1>1, <2>1, <2>2, <2>3 DEF IInv, Offers, Within, Closes
<1>6. Switches'
  <2>1. Handed' => Handed
    BY HandedBefore
  <2>2. QED BY <1>1, <2>1 DEF IInv, Switches, Within
<1>7. Paths'
  BY DEF IInv, Paths, Closes
<1>8. Order'
  BY DEF IInv, Order, Within, Closes, Before
<1>9. QED BY <1>3, <1>4, <1>5, <1>6, <1>7, <1>8 DEF IInv

\* The browser gives the direct path up, with the input it held back.
LEMMA BrowserGivesUp ==
  ASSUME IInv,
         phase' \in {"idle", "closed"}, inputBuffer' = <<>>, directActive' = FALSE,
         connected' \in BOOLEAN,
         Closes(channel'), \A b \in Attempts : channel'[b].far = channel[b].far,
         UNCHANGED <<attached, transport, negotiation, answering, outputBuffer, lease, attempt, offered,
                     answered, toServer, written, entered>>,
         shown' \in Seq(1..written), Within(toClient, toClient'),
         typed' \in 0..MaxInput, typed <= typed'
  PROVE  IInv'
<1>1. \A m \in 1..typed : m \in 1..typed'
  BY Known
<1>2. Types'
  <2>1. ServerFlags' /\ BrowserFlags'
    BY DEF IInv, Types, ServerFlags, BrowserFlags
  <2>2. Wires'
    BY Known DEF Wires, Within, Closes
  <2>3. Streams'
    BY <1>1, Nothing DEF IInv, Types, Streams
  <2>4. Rules'
    BY DEF IInv, Types, Rules
  <2>5. QED BY <2>1, <2>2, <2>3, <2>4 DEF Types
<1>3. Content'
  BY <1>1 DEF IInv, Content, Within, Closes
<1>4. Offers'
  <2>1. transport # "websocket" => channel'[negotiation].far = channel[negotiation].far
    BY Known DEF IInv, Types, Rules
  <2>2. QED BY <2>1, Known DEF IInv, Offers, Within, Closes
<1>5. Switches'
  <2>1. Handed' => Handed
    BY HandedBefore
  <2>2. QED BY <2>1, Known DEF IInv, Switches, Within
<1>6. Paths'
  BY DEF IInv, Paths, Closes
<1>7. Order'
  <2>1. Range(inputBuffer') = {} /\ Ascends(inputBuffer')
    BY Nothing
  <2>2. QED BY <2>1 DEF IInv, Order, Closes, Before
<1>8. QED BY <1>2, <1>3, <1>4, <1>5, <1>6, <1>7 DEF IInv
-----------------------------------------------------------------------------
(* The steps of the server.                                                *)

\* fallbackNegotiation, a refusal and the end of an attachment, with what may happen beside.
LEMMA FallsBack ==
  ASSUME IInv, fallbackNegotiation, transport # "webrtc",
         Within(toServer, toServer'),
         UNCHANGED <<browser, shown, typed, entered>>, written' \in 0..MaxOutput, written <= written'
  PROVE  IInv'
<1>1. /\ negotiation' = 0 /\ outputBuffer' = <<>> /\ transport' = "websocket" /\ lease' = "none"
      /\ answering' = answering /\ attached' = attached /\ channel' = Disposed
      /\ toClient' = toClient \o <<Say("unavailable")>> \o Pieces("output", outputBuffer)
      /\ UNCHANGED <<connected, phase, attempt, offered, answered, directActive, inputBuffer, shown, typed,
                     entered>>
  BY DEF fallbackNegotiation, disposeWebRtc, browser
<1>2. Closes(channel')
  BY <1>1, Known, Closings
<1>3. Grows(toClient, toClient', {"unavailable", "output"}, Fallbacks(1..written))
  <2>1. outputBuffer \in Seq(1..written) /\ 1..written \in SUBSET Nat
    BY Known DEF IInv, Types, Streams
  <2>2. QED BY <1>1, <2>1, Known, FallbackSent
<1>4. attached' \in BOOLEAN
  BY <1>1 DEF IInv, Types, ServerFlags
<1>5. QED BY <1>1, <1>2, <1>3, <1>4, ServerGivesUp

\* destroyAttachment
LEMMA Destroyed ==
  ASSUME IInv, destroyAttachment,
         Within(toServer, toServer'),
         UNCHANGED <<browser, shown, typed, entered>>, written' \in 0..MaxOutput, written <= written'
  PROVE  IInv'
<1>1. /\ negotiation' = 0 /\ outputBuffer' = <<>> /\ transport' = "websocket" /\ lease' = "none"
      /\ answering' = answering /\ attached' = FALSE /\ channel' = Disposed
      /\ toClient' = toClient
      /\ UNCHANGED <<connected, phase, attempt, offered, answered, directActive, inputBuffer, shown, typed,
                     entered>>
  BY DEF destroyAttachment, disposeWebRtc, browser
<1>2. Closes(channel')
  BY <1>1, Known, Closings
<1>3. QED BY <1>1, <1>2, ServerGivesUp

\* A stream of which nothing was taken.
LEMMA Same ==
  ASSUME IInv
  PROVE  Within(toClient, toClient) /\ Within(toServer, toServer)
         /\ written \in 0..MaxOutput /\ written <= written
         /\ typed \in 0..MaxInput /\ typed <= typed /\ shown \in Seq(1..written)
<1>1. /\ written \in 0..MaxOutput /\ typed \in 0..MaxInput /\ shown \in Seq(1..written)
      /\ toClient \in Seq(Message) /\ toServer \in Seq(Message)
  BY DEF IInv, Types, Wires, Streams
<1>2. written <= written /\ typed <= typed
  BY <1>1, Known
<1>3. Within(toClient, toClient) /\ Within(toServer, toServer)
  BY <1>1, TakenWithin
<1>4. QED BY <1>1, <1>2, <1>3

\* Timers, leases and the end of an attachment.
LEMMA TimersKeep ==
  ASSUME IInv, negotiationTimer \/ AttachmentEnds \/ LeaseElapses \/ LeaseExpires \/ renewLease
  PROVE  IInv'
<1>1. CASE negotiationTimer
  BY <1>1, Same, FallsBack DEF negotiationTimer, user
<1>2. CASE AttachmentEnds \/ LeaseExpires
  BY <1>2, Same, Destroyed DEF AttachmentEnds, LeaseExpires, user
<1>3. CASE LeaseElapses \/ renewLease
  <2>1. /\ UNCHANGED <<attached, transport, negotiation, answering, outputBuffer, connected, phase, attempt,
                       offered, answered, directActive, inputBuffer, written, shown, typed, entered,
                       toClient, toServer, channel>>
        /\ lease' \in {"none", "fresh", "due"} /\ lease' # "none" /\ lease # "none"
    BY <1>3 DEF LeaseElapses, renewLease, browser, user
  <2>2. Closes(channel')
    BY <2>1, Known, Closings
  <2>3. QED BY <2>1, <2>2, Same, NothingStarts
<1>4. QED BY <1>1, <1>2, <1>3

\* Output, wherever the stream is.
LEMMA RouteTerminalOutputKeeps ==
  ASSUME IInv, routeTerminalOutput
  PROVE  IInv'
<1>1. /\ attached /\ written' = written + 1 /\ written < MaxOutput
      /\ UNCHANGED <<browser, toServer, shown, typed, entered>>
  BY DEF routeTerminalOutput
<1>2. /\ written' \in Nat /\ written' \in 0..MaxOutput /\ written <= written' /\ written' \in 1..written'
      /\ \A m \in 1..written : m \in 1..written'
  BY <1>1, Known, TransportAssumption DEF IInv, Types, Streams
<1>3. /\ transport \in {"websocket", "switching", "webrtc"} /\ Len(outputBuffer) \in Nat
      /\ outputBuffer \in Seq(1..written)
  BY DEF IInv, Types, ServerFlags, Streams
<1>4. CASE transport = "switching" /\ Len(outputBuffer) >= Capacity
  <2>1. ~(transport = "websocket") /\ ~(Len(outputBuffer) < Capacity)
    BY <1>3, <1>4, Known
  <2>2. fallbackNegotiation
    BY <1>4, <2>1, Zenon DEF routeTerminalOutput
  <2>3. QED BY <1>1, <1>2, <1>4, <2>2, Same, FallsBack
<1>5. CASE transport = "webrtc" /\ destroyAttachment
  BY <1>1, <1>2, <1>5, Same, Destroyed
<1> DEFINE r == toClient \o Pieces("output", <<written'>>)
           d == [channel EXCEPT ![negotiation].down = @ \o Pieces("output", <<written'>>)]
<1>6. ASSUME \/ transport = "websocket" /\ toClient' = r /\ UNCHANGED <<outputBuffer, channel>>
             \/ /\ transport = "switching" /\ Len(outputBuffer) < Capacity
                /\ outputBuffer' = Append(outputBuffer, written') /\ UNCHANGED <<toClient, channel>>
             \/ transport = "webrtc" /\ channel' = d /\ UNCHANGED <<outputBuffer, toClient>>,
             UNCHANGED <<attached, transport, negotiation, answering, lease>>
      PROVE  IInv'
  <2>1. UNCHANGED <<connected, phase, attempt, offered, answered, directActive, inputBuffer>>
    BY <1>1 DEF browser
  <2>2. /\ toClient' \in Seq(Message)
        /\ \A m \in Range(toClient') : m \in Range(toClient) \/ (m.kind = "output" /\ m.n = written')
        /\ \A k : k # "output" => /\ Has(toClient', k) <=> Has(toClient, k)
                                  /\ Single(toClient, k) => Single(toClient', k)
        /\ InTurn(toClient, "answer", "switch") => InTurn(toClient', "answer", "switch")
    <3>1. Grows(toClient, r, {"output"}, OfKind("output", {written'}))
      BY <1>2, Known, PieceSent DEF Kinds
    <3> HIDE DEF r
    <3>2. CASE toClient' = toClient
      BY <3>2, Known
    <3>3. CASE toClient' = r
      BY <3>1, <3>3 DEF Grows, OfKind
    <3>4. QED BY <1>6, <3>2, <3>3
  <2>3. /\ channel' \in Channels
        /\ \A b \in Attempts : /\ channel'[b].far = channel[b].far /\ channel'[b].near = channel[b].near
                               /\ channel'[b].up = channel[b].up
                               /\ \A m \in Range(channel'[b].down) :
                                    m \in Range(channel[b].down) \/ (m.kind = "output" /\ m.n = written')
                               /\ channel'[b].down # <<>> =>
                                    channel[b].down # <<>> \/ (transport = "webrtc" /\ b = negotiation)
    <3>1. CASE channel' = channel
      BY <3>1, Known
    <3>2. CASE transport = "webrtc" /\ channel' = d
      <4>1. negotiation \in Attempts
        BY <3>2, Known DEF IInv, Types, Rules
      <4> DEFINE q == channel[negotiation].down \o Pieces("output", <<written'>>)
      <4>2. Grows(channel[negotiation].down, q, {"output"}, OfKind("output", {written'}))
        BY <1>2, <4>1, Known, PieceSent DEF Kinds
      <4>3. channel' = [channel EXCEPT ![negotiation].down = q]
        BY <3>2
      <4> HIDE DEF q, d
      <4>4. q \in Seq(Message) /\ \A m \in Range(q) : m \in Range(channel[negotiation].down)
                                                      \/ (m.kind = "output" /\ m.n = written')
        BY <4>2 DEF Grows, OfKind
      <4>5. /\ Other(channel', negotiation) /\ channel'[negotiation].near = channel[negotiation].near
            /\ channel'[negotiation].far = channel[negotiation].far /\ channel'[negotiation].down = q
            /\ channel'[negotiation].up = channel[negotiation].up
        <5>1. channel \in Channels /\ q \in Seq(Message)
          BY <4>4, Known
        <5>2. QED BY <4>1, <4>3, <5>1, DownSet, ZenonT(40)
      <4>6. QED BY <3>2, <4>4, <4>5 DEF Other
    <3>3. QED BY <1>6, <3>1, <3>2
  <2>4. /\ outputBuffer' \in Seq(1..written') /\ Len(outputBuffer') <= Capacity
        /\ outputBuffer' # <<>> => transport = "switching"
    <3> HIDE DEF r, d
    <3>1. outputBuffer \in Seq(1..written')
      BY <1>2, <1>3, Known
    <3>2. CASE outputBuffer' = outputBuffer
      BY <3>1, <3>2 DEF IInv, Types, Streams, Rules
    <3>3. CASE /\ transport = "switching" /\ Len(outputBuffer) < Capacity
               /\ outputBuffer' = Append(outputBuffer, written')
      BY <1>2, <1>3, <3>1, <3>3, Known
    <3>4. QED BY <1>6, <3>2, <3>3
  <2> HIDE DEF r, d
  <2>5. Types'
    <3>1. ServerFlags' /\ BrowserFlags'
      BY <1>6, <2>1 DEF IInv, Types, ServerFlags, BrowserFlags
    <3>2. Wires'
      BY <1>1, <2>2, <2>3, Known DEF Wires
    <3>3. Streams'
      BY <1>1, <1>2, <2>1, <2>4 DEF IInv, Types, Streams
    <3>4. Rules'
      BY <1>6, <2>1, <2>4 DEF IInv, Types, Rules
    <3>5. QED BY <3>1, <3>2, <3>3, <3>4 DEF Types
  <2>6. Content'
    <3>1. \A m \in Range(toClient') : m.kind \in {"output", "unavailable", "answer", "switch"}
                                      /\ (m.kind = "output" => m.n \in 1..written')
      BY <1>2, <2>2 DEF IInv, Content
    <3>2. \A a \in Attempts : \A m \in Range(channel'[a].down) :
            m.kind \in {"output", "ready"} /\ (m.kind = "output" => m.n \in 1..written')
      BY <1>2, <2>3 DEF IInv, Content
    <3>3. QED BY <1>1, <2>3, <3>1, <3>2 DEF IInv, Content
  <2>7. Offers'
    <3>1. \A m \in Range(toClient') : m.kind = "answer" => m \in Range(toClient)
      BY <2>2
    <3>2. transport # "websocket" => channel'[negotiation].far = channel[negotiation].far
      BY <2>3, Known DEF IInv, Types, Rules
    <3>3. QED BY <1>1, <1>6, <2>1, <2>2, <2>3, <3>1, <3>2 DEF IInv, Offers
  <2>8. Switches'
    <3>1. Handed' => Handed
      BY <1>6, <2>1, <2>3 DEF Handed
    <3>2. negotiation # 0 => channel'[negotiation].far = channel[negotiation].far
      BY <2>3, Known
    <3>3. QED BY <1>1, <1>6, <2>1, <2>2, <3>1, <3>2 DEF IInv, Switches
  <2>9. Paths'
    BY <1>6, <2>1, <2>3 DEF IInv, Paths
  <2>10. Order'
    BY <1>1, <1>6, <2>1, <2>3 DEF IInv, Order
  <2>11. QED BY <2>5, <2>6, <2>7, <2>8, <2>9, <2>10 DEF IInv
<1>7. CASE transport = "websocket"
  BY <1>6, <1>7 DEF routeTerminalOutput, server
<1>8. CASE transport = "switching" /\ Len(outputBuffer) < Capacity
  <2> HIDE DEF r, d
  <2>1. /\ transport # "websocket" /\ transport # "webrtc" /\ ~(Len(outputBuffer) >= Capacity)
    BY <1>3, <1>8, Known
  <2>2. /\ outputBuffer' = Append(outputBuffer, written')
        /\ UNCHANGED <<attached, transport, negotiation, answering, lease, toClient, channel>>
    BY <1>8, <2>1, Zenon DEF routeTerminalOutput
  <2>3. QED BY <1>6, <1>8, <2>2
<1>9. CASE transport = "webrtc"
  BY <1>5, <1>6, <1>9 DEF routeTerminalOutput, server
<1>10. QED BY <1>3, <1>4, <1>7, <1>8, <1>9, Known

\* A negotiation that waits for its answer is not answered, and a switched one is.
LEMMA Waiting ==
  ASSUME IInv
  PROVE  /\ negotiation \in answering => transport = "websocket"
         /\ negotiation # 0 /\ channel[negotiation].far # "open" => transport = "websocket"
         /\ transport = "websocket" => lease = "none" /\ outputBuffer = <<>>
<1>1. transport # "websocket" => /\ negotiation # 0 /\ channel[negotiation].far = "open"
                                 /\ negotiation <= answered
  BY Known DEF IInv, Types, Rules, Offers
<1>2. negotiation \in answering => answered < negotiation
  BY DEF IInv, Offers
<1>3. QED BY <1>1, <1>2, Known DEF IInv, Types, Rules

\* The answer is created, or the negotiation over.
LEMMA CreateAnswerKeeps ==
  ASSUME IInv, NEW a \in Attempts, createAnswer(a)
  PROVE  IInv'
<1>1. /\ a \in answering /\ answering' = answering \ {a}
      /\ UNCHANGED <<attached, toServer, written, shown, typed, entered>>
      /\ UNCHANGED <<connected, phase, attempt, offered, answered, directActive, inputBuffer>>
  BY DEF createAnswer, browser, user
<1>2. CASE /\ ~(attached /\ negotiation = a)
           /\ UNCHANGED <<transport, negotiation, outputBuffer, lease, toClient, channel>>
  <2>1. Closes(channel')
    BY <1>2, Known, Closings
  <2>2. lease' \in {"none", "fresh", "due"}
    BY <1>2 DEF IInv, Types, ServerFlags
  <2>3. QED BY <1>1, <1>2, <2>1, <2>2, Same, NothingStarts
<1>3. CASE /\ attached /\ negotiation = a /\ disposeWebRtc
           /\ toClient' = toClient \o <<Say("unavailable")>> \o Pieces("output", outputBuffer)
  <2>1. /\ negotiation' = 0 /\ outputBuffer' = <<>> /\ transport' = "websocket" /\ lease' = "none"
        /\ channel' = Disposed
    BY <1>3 DEF disposeWebRtc
  <2>2. Closes(channel')
    BY <2>1, Known, Closings
  <2>3. Grows(toClient, toClient', {"unavailable", "output"}, Fallbacks(1..written))
    <3>1. outputBuffer \in Seq(1..written) /\ 1..written \in SUBSET Nat
      BY Known DEF IInv, Types, Streams
    <3>2. QED BY <1>3, <3>1, Known, FallbackSent
  <2>4. transport # "webrtc" /\ attached' \in BOOLEAN
    BY <1>1, <1>3, Waiting DEF IInv, Types, ServerFlags
  <2>5. QED BY <1>1, <1>3, <2>1, <2>2, <2>3, <2>4, Same, ServerGivesUp
<1>4. CASE /\ attached /\ negotiation = a
           /\ toClient' = Append(toClient, [kind |-> "answer", n |-> a])
           /\ UNCHANGED <<transport, negotiation, outputBuffer, lease, channel>>
  <2> DEFINE m == [kind |-> "answer", n |-> a]
  <2>1. m \in Message /\ m.kind = "answer" /\ m.n = a /\ a \in Nat
    BY Known, Messages DEF Kinds
  <2>2. toClient' = Append(toClient, m)
    BY <1>4
  <2> HIDE DEF m
  <2>3. /\ answered < a /\ a \in 1..offered
        /\ \A x \in Range(toClient) : x.kind = "answer" => x.n < a
    BY <1>1, <1>4, Known DEF IInv, Offers
  <2>4. /\ toClient' \in Seq(Message)
        /\ \A x \in Range(toClient') : x \in Range(toClient) \/ x = m
        /\ Has(toClient', "switch") <=> Has(toClient, "switch")
        /\ Single(toClient, "switch") => Single(toClient', "switch")
        /\ InTurn(toClient, "answer", "switch") => InTurn(toClient', "answer", "switch")
    <3>1. Grows(toClient, toClient', {"answer"}, {m})
      BY <2>1, <2>2, Known, MessageSent
    <3>2. InTurn(toClient, "answer", "switch") => InTurn(toClient', "answer", "switch")
      BY <2>1, <2>2, <2>3, Known, MessageSent
    <3>3. QED BY <3>1, <3>2 DEF Grows
  <2>5. Types'
    <3>1. ServerFlags' /\ BrowserFlags' /\ Wires' /\ Streams'
      BY <1>1, <1>4, <2>4 DEF IInv, Types, ServerFlags, BrowserFlags, Wires, Streams
    <3>2. Rules'
      BY <1>1, <1>4 DEF IInv, Types, Rules
    <3>3. QED BY <3>1, <3>2 DEF Types
  <2>6. Content'
    BY <1>1, <1>4, <2>1, <2>4 DEF IInv, Content
  <2>7. Offers'
    <3>1. ~(negotiation' \in answering') /\ answering' \subseteq 1..offered
      BY <1>1, <1>4 DEF IInv, Offers
    <3>2. \A x \in Range(toClient') : x.kind = "answer" =>
            /\ x.n \in 1..offered /\ answered < x.n /\ x.n <= negotiation
            /\ \A y \in Range(toServer) : y.kind = "offer" => x.n < y.n
      BY <1>4, <2>1, <2>3, <2>4, Known DEF IInv, Offers
    <3>3. QED BY <1>1, <1>4, <2>4, <3>1, <3>2 DEF IInv, Offers
  <2>8. Switches'
    BY <1>1, <1>4, <2>4 DEF IInv, Switches, Handed
  <2>9. Paths' /\ Order'
    BY <1>1, <1>4 DEF IInv, Paths, Order
  <2>10. QED BY <2>5, <2>6, <2>7, <2>8, <2>9 DEF IInv
<1>5. QED BY <1>2, <1>3, <1>4, Zenon DEF createAnswer

\* The channel of a peer reaches it, and the switch is announced where the peer is still wanted.
LEMMA AcceptDataChannelKeeps ==
  ASSUME IInv, NEW a \in Attempts, acceptDataChannel(a)
  PROVE  IInv'
<1>1. /\ channel[a].far = "new" /\ answered >= a
      /\ UNCHANGED <<attached, negotiation, answering, outputBuffer, lease, toServer>>
      /\ UNCHANGED <<connected, phase, attempt, offered, answered, directActive, inputBuffer>>
      /\ UNCHANGED <<written, shown, typed, entered>>
  BY DEF acceptDataChannel, browser, user
<1>2. CASE /\ ~(attached /\ negotiation = a)
           /\ channel' = [channel EXCEPT ![a].far = "closed"] /\ UNCHANGED <<transport, toClient>>
  <2>1. Closes(channel') /\ \A b \in Attempts \ {a} : channel'[b].far = channel[b].far
    BY <1>2, Known, Closings
  <2>2. transport # "websocket" => attached /\ negotiation \in Attempts
    BY Known DEF IInv, Types, Rules
  <2>3. transport # "websocket" => channel'[negotiation].far = channel[negotiation].far
    BY <1>2, <2>1, <2>2
  <2>4. lease' \in {"none", "fresh", "due"}
    BY <1>1 DEF IInv, Types, ServerFlags
  <2>5. QED BY <1>1, <1>2, <2>1, <2>3, <2>4, Same, NothingStarts
<1>3. CASE /\ attached /\ negotiation = a /\ channel' = [channel EXCEPT ![a].far = "open"]
           /\ transport' = "switching" /\ toClient' = Append(toClient, Say("switch"))
  <2>1. transport = "websocket" /\ lease = "none" /\ outputBuffer = <<>> /\ a # 0
    BY <1>1, <1>3, Known, Waiting
  <2>2. /\ Other(channel', a) /\ channel'[a].far = "open" /\ channel'[a].near = channel[a].near
        /\ channel'[a].down = channel[a].down /\ channel'[a].up = channel[a].up
    <3>1. channel \in Channels /\ "open" \in Ends
      BY Known DEF Ends
    <3>2. channel' = [channel EXCEPT ![a].far = "open"]
      BY <1>3
    <3>3. QED BY <3>1, <3>2, FarSet
  <2>3. /\ channel' \in Channels
        /\ \A b \in Attempts : /\ channel'[b].down = channel[b].down /\ channel'[b].up = channel[b].up
                               /\ channel'[b].near = channel[b].near
                               /\ b # a => channel'[b].far = channel[b].far
    BY <2>2 DEF Other
  <2>4. answered = a /\ ~Has(toClient, "answer")
    <3>1. answered <= a
      BY <1>3, <2>1 DEF IInv, Offers
    <3>2. answered = a
      BY <1>1, <3>1, Known
    <3>3. \A m \in Range(toClient) : m.kind = "answer" => answered < m.n /\ m.n <= a /\ m.n \in Nat
      BY <1>3, <2>1, Known DEF IInv, Offers
    <3>4. \A m \in Range(toClient) : m.kind # "answer"
      BY <3>2, <3>3, Known
    <3>5. QED BY <3>2, <3>4 DEF Has
  <2>5. ~Handed
    BY <1>3, <2>1 DEF IInv, Paths, Handed
  <2>6. ~Has(toClient, "switch") /\ ~Has(toServer, "activate")
    BY <1>1, <1>3, <2>1, <2>4 DEF IInv, Switches
  <2>7. /\ toClient' \in Seq(Message)
        /\ \A x \in Range(toClient') : x \in Range(toClient) \/ x.kind = "switch"
        /\ Single(toClient', "switch")
        /\ InTurn(toClient', "answer", "switch")
    <3>1. Say("switch") \in Message /\ Say("switch").kind = "switch"
      BY Messages DEF Kinds
    <3>2. Grows(toClient, toClient', {"switch"}, {Say("switch")})
      BY <1>3, <3>1, Known, MessageSent
    <3>3. Single(toClient', "switch")
      BY <1>3, <2>6, <3>1, Known, MessageSent DEF IInv, Switches
    <3>4. InTurn(toClient', "answer", "switch")
      <4>1. InTurn(toClient, "answer", "switch")
        BY DEF IInv, Offers
      <4>2. QED BY <1>3, <2>4, <3>1, <4>1, Known, MessageSent
    <3>5. QED BY <3>1, <3>2, <3>3, <3>4 DEF Grows
  <2>8. Types'
    <3>1. ServerFlags' /\ BrowserFlags'
      BY <1>1, <1>3 DEF IInv, Types, ServerFlags, BrowserFlags
    <3>2. Wires' /\ Streams'
      BY <1>1, <2>3, <2>7 DEF IInv, Types, Wires, Streams
    <3>3. Rules'
      BY <1>1, <1>3, <2>1 DEF IInv, Types, Rules
    <3>4. QED BY <3>1, <3>2, <3>3 DEF Types
  <2>9. Content'
    BY <1>1, <2>3, <2>7 DEF IInv, Content
  <2>10. Offers'
    <3>1. \A m \in Range(toClient') : m.kind = "answer" => m \in Range(toClient)
      BY <2>7
    <3>2. \A b \in Attempts : channel'[b].far = "open" \/ channel'[b].near = "open" => b <= answered
      <4>1. \A b \in Attempts : channel[b].far = "open" \/ channel[b].near = "open" => b <= answered
        BY DEF IInv, Offers
      <4>2. a <= answered
        BY <1>1, Known
      <4>3. QED BY <2>3, <4>1, <4>2
    <3>3. QED BY <1>1, <1>3, <2>2, <2>7, <3>1, <3>2 DEF IInv, Offers
  <2>11. Switches'
    <3>1. ~Handed'
      BY <1>1, <1>3, <2>3, <2>5 DEF Handed
    <3>2. QED BY <1>1, <1>3, <2>2, <2>4, <2>6, <2>7, <3>1, Known DEF IInv, Switches
  <2>12. Paths'
    BY <1>1, <2>1, <2>3 DEF IInv, Paths
  <2>13. Order'
    BY <1>1, <2>1, <2>3 DEF IInv, Order
  <2>14. QED BY <2>8, <2>9, <2>10, <2>11, <2>12, <2>13 DEF IInv
<1>4. QED BY <1>2, <1>3, Zenon DEF acceptDataChannel

\* A peer loses its connection or its channel.
LEMMA FarClosesKeeps ==
  ASSUME IInv, NEW a \in Attempts, farCloses(a)
  PROVE  IInv'
<1>1. /\ UNCHANGED <<browser, toServer, user>>
      /\ UNCHANGED <<connected, phase, attempt, offered, answered, directActive, inputBuffer>>
      /\ UNCHANGED <<written, shown, typed, entered>>
  BY DEF farCloses, browser, user
<1> DEFINE d == [channel EXCEPT ![a].far = "closed"]
<1>2. Closes(d) /\ \A b \in Attempts \ {a} : d[b].far = channel[b].far
  BY Known, Closings
<1> HIDE DEF d
<1>3. CASE negotiation # a /\ channel' = d /\ UNCHANGED <<server, toClient>>
  <2>1. UNCHANGED <<attached, transport, negotiation, answering, outputBuffer, lease>>
    BY <1>3 DEF server
  <2>2. lease \in {"none", "fresh", "due"} /\ (transport # "websocket" => negotiation \in Attempts)
    BY Known DEF IInv, Types, ServerFlags, Rules
  <2>3. transport # "websocket" => channel'[negotiation].far = channel[negotiation].far
    BY <1>2, <1>3, <2>2
  <2>4. QED BY <1>1, <1>2, <1>3, <2>1, <2>2, <2>3, Same, NothingStarts
<1>4. CASE negotiation = a /\ channel[a].far = "open" /\ pathLost
  <2>1. CASE transport = "webrtc"
    BY <1>1, <1>4, <2>1, Same, Destroyed DEF pathLost
  <2>2. CASE transport # "webrtc"
    BY <1>1, <1>4, <2>2, Same, FallsBack DEF pathLost
  <2>3. QED BY <2>1, <2>2
<1>5. CASE /\ negotiation = a /\ channel[a].far # "open"
           /\ attached' = attached /\ answering' = answering
           /\ negotiation' = 0 /\ outputBuffer' = <<>>
           /\ transport' = "websocket" /\ lease' = "none"
           /\ channel' = d
           /\ toClient' = Append(toClient, Say("unavailable"))
  <2>1. Grows(toClient, toClient', {"unavailable", "output"}, Fallbacks(1..written))
    <3>1. outputBuffer \in Seq(1..written) /\ 1..written \in SUBSET Nat
      BY Known DEF IInv, Types, Streams
    <3>2. QED BY <1>5, <3>1, Known, FallbackSent
  <2>2. transport # "webrtc" /\ attached' \in BOOLEAN
    BY <1>5, Known, Waiting DEF IInv, Types, ServerFlags
  <2>3. QED BY <1>1, <1>2, <1>5, <2>1, <2>2, Same, ServerGivesUp
<1>6. QED BY <1>3, <1>4, <1>5, Zenon DEF farCloses, d

\* The stream of the browser that is taken, and what the message was.
LEMMA ServerReads ==
  ASSUME IInv, toServer # <<>>, toServer' = Tail(toServer)
  PROVE  /\ Head(toServer) \in Message /\ Head(toServer) \in Range(toServer)
         /\ Head(toServer).kind \in {"input", "offer", "activate"}
         /\ Within(toServer, toServer')
         /\ Head(toServer).kind = "input" =>
              /\ Head(toServer).n \in Numbers(toServer) /\ Head(toServer).n \in 1..typed
              /\ Before({Head(toServer).n}, Numbers(toServer'))
         /\ Head(toServer).kind = "offer" =>
              /\ ~Has(toServer', "activate")
              /\ \A m \in Range(toServer') : m.kind = "offer" => Head(toServer).n < m.n
         /\ Head(toServer).kind = "activate" => Has(toServer, "activate") /\ ~Has(toServer', "activate")
<1> DEFINE h == Head(toServer)
<1>1. Within(toServer, toServer')
  BY Known, TakenWithin DEF Takes
<1>2. /\ h \in Message /\ Range(toServer) = {h} \cup Range(toServer')
      /\ \A k : Single(toServer, k) => ~(h.kind = k /\ Has(toServer', k))
      /\ Numbers(toServer) = {x \in {h.n} : h.kind = "input"} \cup Numbers(toServer')
      /\ Rising(toServer) => (h.kind = "input" => \A x \in Numbers(toServer') : h.n < x)
  BY Known, Taken
<1>3. h.kind = "offer" => /\ ~Has(toServer', "activate")
                          /\ \A m \in Range(toServer') : m.kind = "offer" => h.n < m.n
  <2>1. InTurn(toServer, "offer", "activate")
    BY DEF IInv, Offers
  <2>2. QED BY <2>1, Known, TakenInTurn
<1> HIDE DEF h
<1>4. h \in Range(toServer)
  BY <1>2
<1>5. h.kind \in {"input", "offer", "activate"} /\ (h.kind = "input" => h.n \in 1..typed)
  BY <1>4 DEF IInv, Content
<1>6. h.kind = "activate" => Has(toServer, "activate") /\ ~Has(toServer', "activate")
  BY <1>2, <1>4 DEF IInv, Switches, Has
<1>7. h.kind = "input" => h.n \in Numbers(toServer) /\ Before({h.n}, Numbers(toServer'))
  <2>1. Rising(toServer)
    BY DEF IInv, Order
  <2>2. QED BY <1>2, <2>1 DEF Before
<1>8. QED BY <1>1, <1>2, <1>3, <1>4, <1>5, <1>6, <1>7 DEF h

\* What the server leaves alone when it reads input.
LEMMA InputEntered ==
  ASSUME IInv, NEW n \in 1..typed,
         entered' = Append(entered, n),
         UNCHANGED <<server, browser, toClient, written, shown, typed>>,
         Within(toServer, toServer'),
         channel' \in Channels,
         \A a \in Attempts : /\ channel'[a].near = channel[a].near /\ channel'[a].far = channel[a].far
                             /\ channel'[a].down = channel[a].down
                             /\ channel[a].up = <<>> => channel'[a].up = <<>>
                             /\ Within(channel[a].up, channel'[a].up)
                             /\ Before({n}, Numbers(channel'[a].up)),
         \A x \in Range(entered) : x < n,
         Before({n}, Range(inputBuffer)),
         attached /\ transport # "webrtc" => Before({n}, Numbers(toServer'))
  PROVE  IInv'
<1>1. /\ UNCHANGED <<attached, transport, negotiation, answering, outputBuffer, lease>>
      /\ UNCHANGED <<connected, phase, attempt, offered, answered, directActive, inputBuffer>>
      /\ UNCHANGED <<toClient, written, shown, typed>>
  BY DEF server, browser
<1>2. /\ entered' \in Seq(1..typed) /\ Range(entered') = Range(entered) \cup {n}
      /\ Ascends(entered) => Ascends(entered')
  <2>1. entered \in Seq(1..typed)
    BY DEF IInv, Types, Streams
  <2>2. QED BY <2>1, Written
<1>3. Types'
  <2>1. ServerFlags' /\ BrowserFlags'
    BY <1>1 DEF IInv, Types, ServerFlags, BrowserFlags
  <2>2. Wires' /\ Streams'
    BY <1>1, <1>2 DEF IInv, Types, Wires, Streams, Within
  <2>3. Rules'
    BY <1>1 DEF IInv, Types, Rules
  <2>4. QED BY <2>1, <2>2, <2>3 DEF Types
<1>4. Content'
  BY <1>1 DEF IInv, Content, Within
<1>5. Offers'
  BY <1>1, Known DEF IInv, Offers, Within, Types, Rules
<1>6. Switches'
  <2>1. Handed' => Handed
    BY <1>1 DEF Handed
  <2>2. QED BY <1>1, <2>1, Known DEF IInv, Switches, Within
<1>7. Paths'
  BY <1>1 DEF IInv, Paths
<1>8. Order'
  <2>1. Ascends(entered') /\ Before(Range(entered'), Range(inputBuffer))
    BY <1>2 DEF IInv, Order, Before
  <2>2. attached /\ transport # "webrtc" => Before(Range(entered'), Numbers(toServer'))
    BY <1>2 DEF IInv, Order, Before, Within
  <2>3. \A a \in Attempts : Before(Range(entered'), Numbers(channel'[a].up))
    BY <1>2 DEF IInv, Order, Before, Within
  <2>4. QED BY <1>1, <2>1, <2>2, <2>3 DEF IInv, Order, Before, Within
<1>9. QED BY <1>3, <1>4, <1>5, <1>6, <1>7, <1>8 DEF IInv

\* A stream of which nothing was taken, in a form that can be cited for any.
LEMMA Whole ==
  ASSUME IInv
  PROVE  \A a \in Attempts : Within(channel[a].up, channel[a].up) /\ Within(channel[a].down, channel[a].down)
BY Known, TakenWithin

\* Input on the WebSocket, read or ignored.
LEMMA InputKeeps ==
  ASSUME IInv, message, Head(toServer).kind = "input" \/ ~attached
  PROVE  IInv'
<1> DEFINE h == Head(toServer)
<1>1. /\ toServer # <<>> /\ toServer' = Tail(toServer)
      /\ UNCHANGED <<browser, written, shown, typed>>
  BY DEF message
<1>2. /\ h \in Message /\ Within(toServer, toServer')
      /\ h.kind = "input" => /\ h.n \in Numbers(toServer) /\ h.n \in 1..typed
                             /\ Before({h.n}, Numbers(toServer'))
  BY <1>1, ServerReads
<1>3. /\ UNCHANGED <<server, toClient, channel>>
      /\ \/ entered' = entered
         \/ attached /\ h.kind = "input" /\ transport # "webrtc" /\ entered' = Append(entered, h.n)
  <2>1. CASE ~attached
    BY <2>1 DEF message
  <2>2. CASE attached /\ h.kind = "input"
    <3>1. h.kind # "offer" /\ h.kind # "activate"
      BY <2>2
    <3>2. /\ entered' = IF transport = "webrtc" THEN entered ELSE Append(entered, h.n)
          /\ UNCHANGED <<server, toClient, channel>>
      BY <2>2, <3>1, Zenon DEF message
    <3>3. QED BY <2>2, <3>2
  <2>3. QED BY <2>1, <2>2
<1> HIDE DEF h
<1>4. CASE entered' = entered
  <2>1. /\ UNCHANGED <<attached, transport, negotiation, answering, outputBuffer, lease>>
        /\ UNCHANGED <<connected, phase, attempt, offered, answered, directActive, inputBuffer>>
    BY <1>1, <1>3 DEF server, browser
  <2>2. Closes(channel') /\ lease' \in {"none", "fresh", "due"}
    BY <1>3, <2>1, Known, Closings DEF IInv, Types, ServerFlags
  <2>3. QED BY <1>1, <1>2, <1>3, <1>4, <2>1, <2>2, Same, NothingStarts
<1>5. CASE attached /\ h.kind = "input" /\ transport # "webrtc" /\ entered' = Append(entered, h.n)
  <2>1. /\ channel' \in Channels
        /\ \A a \in Attempts : Within(channel[a].up, channel'[a].up)
    BY <1>3, Known, Whole
  <2>2. \A a \in Attempts : channel[a].up = <<>>
    BY <1>5 DEF IInv, Paths
  <2>3. \A a \in Attempts : Before({h.n}, Numbers(channel'[a].up))
    BY <1>3, <2>2, Nothing DEF Before
  <2>4. /\ \A x \in Range(entered) : x < h.n
        /\ Before({h.n}, Range(inputBuffer))
    BY <1>2, <1>5 DEF IInv, Order, Before
  <2>5. QED BY <1>1, <1>2, <1>3, <1>5, <2>1, <2>3, <2>4, InputEntered
<1>6. QED BY <1>3, <1>4, <1>5

\* An offer is refused, or begins a negotiation.
LEMMA OfferKeeps ==
  ASSUME IInv, message, attached, Head(toServer).kind = "offer"
  PROVE  IInv'
<1> DEFINE h == Head(toServer)
<1>1. /\ toServer # <<>> /\ toServer' = Tail(toServer)
      /\ UNCHANGED <<browser, written, shown, typed, entered>>
      /\ Offered(h.n)
  <2>1. h.kind # "input" /\ h.kind # "activate"
    OBVIOUS
  <2>2. QED BY <2>1, Zenon DEF message
<1>2. /\ h \in Message /\ h \in Range(toServer) /\ h.kind = "offer" /\ Within(toServer, toServer')
      /\ ~Has(toServer', "activate")
      /\ \A m \in Range(toServer') : m.kind = "offer" => h.n < m.n
  BY <1>1, ServerReads
<1> HIDE DEF h
<1>3. UNCHANGED <<connected, phase, attempt, offered, answered, directActive, inputBuffer>>
  BY <1>1 DEF browser
<1>4. CASE toClient' = Append(toClient, Say("unavailable")) /\ UNCHANGED <<server, channel>>
  <2>1. /\ UNCHANGED <<attached, transport, negotiation, answering, outputBuffer, lease>>
    BY <1>4 DEF server
  <2>2. Closes(channel') /\ lease' \in {"none", "fresh", "due"}
    BY <1>4, <2>1, Known, Closings DEF IInv, Types, ServerFlags
  <2>3. Say("unavailable") \in Message /\ Say("unavailable").kind = "unavailable"
    BY Messages DEF Kinds
  <2>4. Grows(toClient, toClient', {"unavailable"}, {Say("unavailable")})
    BY <1>4, <2>3, Known, MessageSent
  <2>5. QED BY <1>1, <1>2, <1>3, <1>4, <2>1, <2>2, <2>4, Same, NothingStarts
<1>5. CASE /\ negotiation = 0 /\ negotiation' = h.n /\ answering' = answering \cup {h.n}
           /\ UNCHANGED <<attached, transport, outputBuffer, lease, toClient, channel>>
  <2>1. /\ h.n \in 1..offered /\ answered < h.n /\ h.n \in Attempts /\ h.n \in Nat
        /\ \A m \in Range(toClient) : m.kind = "answer" => m.n < h.n
    <3>1. h.n \in 1..offered /\ answered < h.n
      BY <1>2 DEF IInv, Offers
    <3>2. \A m \in Range(toClient) : m.kind = "answer" => m.n < h.n
      BY <1>2 DEF IInv, Offers
    <3>3. QED BY <3>1, <3>2, Known DEF Attempts
  <2>2. transport = "websocket" /\ phase # "active"
    BY <1>5 DEF IInv, Types, Rules, Paths
  <2>3. Types'
    <3>1. ServerFlags'
      <4>1. h.n \in 0..MaxAttempts /\ answering' \subseteq Attempts
        <5>1. h.n \in 0..MaxAttempts
          BY <2>1, TransportAssumption DEF Attempts
        <5>2. answering \subseteq Attempts
          BY DEF IInv, Types, ServerFlags
        <5>3. QED BY <1>5, <2>1, <5>1, <5>2
      <4>2. QED BY <1>5, <4>1 DEF IInv, Types, ServerFlags
    <3>2. BrowserFlags' /\ Wires' /\ Streams'
      BY <1>1, <1>2, <1>3, <1>5 DEF IInv, Types, BrowserFlags, Wires, Streams, Within
    <3>3. Rules'
      BY <1>3, <1>5, <2>2 DEF IInv, Types, Rules
    <3>4. QED BY <3>1, <3>2, <3>3 DEF Types
  <2>4. Content'
    BY <1>1, <1>2, <1>5 DEF IInv, Content, Within
  <2>5. Offers'
    <3>1. /\ negotiation' <= offered' /\ answering' \subseteq 1..offered'
          /\ negotiation' # 0 => answered' <= negotiation'
          /\ answered' < negotiation'
      <4>1. h.n <= offered /\ answered <= h.n /\ answering \subseteq 1..offered
        BY <2>1, Known DEF IInv, Offers
      <4>2. answering' \subseteq 1..offered
        BY <1>5, <2>1, <4>1
      <4>3. QED BY <1>3, <1>5, <2>1, <4>1, <4>2
    <3>2. \A m \in Range(toServer') : m.kind = "offer" => m.n \in 1..offered /\ answered < m.n /\ h.n < m.n
      BY <1>2 DEF IInv, Offers, Within
    <3>3. \A m \in Range(toClient) : m.kind = "answer" =>
            /\ m.n \in 1..offered /\ answered < m.n /\ m.n <= h.n
            /\ \A x \in Range(toServer') : x.kind = "offer" => m.n < x.n
      BY <1>2, <2>1, Known DEF IInv, Offers, Within
    <3>4. InTurn(toServer', "offer", "activate") /\ InTurn(toClient, "answer", "switch")
      BY <1>2 DEF IInv, Offers, Within
    <3>5. \A a \in Attempts : channel[a].far = "open" \/ channel[a].near = "open" => a <= answered
      BY DEF IInv, Offers
    <3>6. QED BY <1>3, <1>5, <2>1, <2>2, <3>1, <3>2, <3>3, <3>4, <3>5 DEF Offers
  <2>6. Switches'
    <3>1. Handed' => Handed
      BY <1>3, <1>5 DEF Handed
    <3>2. QED BY <1>2, <1>3, <1>5, <2>1, <2>2, <3>1, Known DEF IInv, Switches, Within
  <2>7. Paths'
    BY <1>3, <1>5, <2>2 DEF IInv, Paths
  <2>8. Order'
    BY <1>1, <1>2, <1>3, <1>5 DEF IInv, Order, Within, Before
  <2>9. QED BY <2>3, <2>4, <2>5, <2>6, <2>7, <2>8 DEF IInv
<1>6. QED BY <1>1, <1>4, <1>5, Zenon DEF Offered

\* The browser waits for the stream: it is handed over, or the switch is over.
LEMMA ActivateKeeps ==
  ASSUME IInv, message, attached, Head(toServer).kind = "activate"
  PROVE  IInv'
<1> DEFINE h == Head(toServer)
<1>1. /\ toServer # <<>> /\ toServer' = Tail(toServer)
      /\ UNCHANGED <<browser, written, shown, typed, entered>>
      /\ Activated
  <2>1. h.kind # "input" /\ h.kind # "offer"
    OBVIOUS
  <2>2. QED BY <2>1, Zenon DEF message
<1>2. Within(toServer, toServer') /\ Has(toServer, "activate") /\ ~Has(toServer', "activate")
  BY <1>1, ServerReads
<1> HIDE DEF h
<1>3. UNCHANGED <<connected, phase, attempt, offered, answered, directActive, inputBuffer>>
  BY <1>1 DEF browser
<1>4. transport # "webrtc" /\ ~Has(toClient, "switch")
  BY <1>2 DEF IInv, Switches
<1>5. CASE transport # "switching" /\ fallbackNegotiation
  BY <1>1, <1>2, <1>4, <1>5, Same, FallsBack
<1>6. CASE destroyAttachment
  BY <1>1, <1>2, <1>6, Same, Destroyed
<1>7. CASE /\ transport = "switching" /\ transport' = "webrtc" /\ lease' = "fresh"
           /\ channel' = [channel EXCEPT ![negotiation].down =
                            @ \o <<Say("ready")>> \o Pieces("output", outputBuffer)]
           /\ outputBuffer' = <<>>
           /\ UNCHANGED <<attached, negotiation, answering, toClient>>
  <2>1. negotiation \in Attempts /\ channel[negotiation].far = "open"
    BY <1>7, Known DEF IInv, Types, Rules, Offers
  <2> DEFINE q == channel[negotiation].down
             s == q \o <<Say("ready")>>
             r == s \o Pieces("output", outputBuffer)
  <2>2. q \in Seq(Message)
    BY <2>1, Known
  <2>3. Say("ready") \in Message /\ Say("ready").kind = "ready"
    BY Messages DEF Kinds
  <2>4. Grows(q, s, {"ready"}, {Say("ready")})
    <3>1. s = Append(q, Say("ready"))
      BY <2>2, <2>3, AppendIsConcat
    <3> HIDE DEF s, q
    <3>2. QED BY <2>2, <2>3, <3>1, MessageSent
  <2>5. s \in Seq(Message)
    BY <2>4 DEF Grows
  <2>6. Grows(s, r, {"output"}, OfKind("output", 1..written))
    <3>1. outputBuffer \in Seq(1..written) /\ 1..written \in SUBSET Nat /\ "output" \in Kinds
      BY Known DEF IInv, Types, Streams, Kinds
    <3> HIDE DEF s, q
    <3>2. QED BY <2>5, <3>1, PiecesSent
  <2>7. channel' = [channel EXCEPT ![negotiation].down = r]
    BY <1>7
  <2> HIDE DEF q, s, r
  <2>8. /\ r \in Seq(Message)
        /\ \A m \in Range(r) : \/ m \in Range(q) \/ m.kind = "ready"
                               \/ (m.kind = "output" /\ m.n \in 1..written)
    BY <2>3, <2>4, <2>6 DEF Grows, OfKind
  <2>9. /\ Other(channel', negotiation) /\ channel'[negotiation].near = channel[negotiation].near
        /\ channel'[negotiation].far = channel[negotiation].far /\ channel'[negotiation].down = r
        /\ channel'[negotiation].up = channel[negotiation].up
    <3>1. channel \in Channels /\ r \in Seq(Message)
      BY <2>8, Known
    <3>2. QED BY <2>1, <2>7, <3>1 DEF Channels, Other
  <2>10. /\ channel' \in Channels
         /\ \A b \in Attempts :
              /\ channel'[b].far = channel[b].far /\ channel'[b].near = channel[b].near
              /\ channel'[b].up = channel[b].up
              /\ b # negotiation => channel'[b].down = channel[b].down
              /\ \A m \in Range(channel'[b].down) : \/ m \in Range(channel[b].down) \/ m.kind = "ready"
                                                    \/ (m.kind = "output" /\ m.n \in 1..written)
    BY <2>8, <2>9 DEF Other, q
  <2>11. phase # "active" /\ \A b \in Attempts : channel[b].down = <<>> /\ channel[b].up = <<>>
    BY <1>4 DEF IInv, Paths
  <2>12. Types'
    <3>1. ServerFlags'
      BY <1>7 DEF IInv, Types, ServerFlags
    <3>2. BrowserFlags' /\ Wires'
      BY <1>1, <1>2, <1>3, <1>7, <2>10 DEF IInv, Types, BrowserFlags, Wires, Within
    <3>3. Streams'
      BY <1>1, <1>3, <1>7, Nothing DEF IInv, Types, Streams
    <3>4. Rules'
      BY <1>3, <1>7 DEF IInv, Types, Rules
    <3>5. QED BY <3>1, <3>2, <3>3, <3>4 DEF Types
  <2>13. Content'
    BY <1>1, <1>2, <1>7, <2>10 DEF IInv, Content, Within
  <2>14. Offers'
    BY <1>2, <1>3, <1>7, <2>1, <2>10 DEF IInv, Offers, Within
  <2>15. Switches'
    BY <1>2, <1>3, <1>4, <1>7, <2>1, <2>10 DEF IInv, Switches, Within
  <2>16. Paths'
    BY <1>3, <1>7, <2>10, <2>11 DEF IInv, Paths
  <2>17. Order'
    BY <1>1, <1>2, <1>3, <1>7, <2>10 DEF IInv, Order, Within, Before
  <2>18. QED BY <2>12, <2>13, <2>14, <2>15, <2>16, <2>17 DEF IInv
<1>8. QED BY <1>1, <1>5, <1>6, <1>7, Zenon DEF Activated

\* message
LEMMA MessageKeeps ==
  ASSUME IInv, message
  PROVE  IInv'
<1>1. Head(toServer).kind \in {"input", "offer", "activate"} /\ attached \in BOOLEAN
  BY ServerReads DEF message, IInv, Types, ServerFlags
<1>2. QED BY <1>1, InputKeeps, OfferKeeps, ActivateKeeps

\* handleDataChannelMessage: input on the channel, read by the attachment that uses it.
LEMMA HandleDataChannelMessageKeeps ==
  ASSUME IInv, NEW a \in Attempts, handleDataChannelMessage(a)
  PROVE  IInv'
<1> DEFINE u == channel[a].up
<1>1. /\ u # <<>> /\ UNCHANGED <<server, browser, toClient, toServer, written, shown, typed>>
      /\ channel' = [channel EXCEPT ![a].up = Tail(u)]
      /\ entered' = IF attached /\ negotiation = a /\ transport = "webrtc"
                    THEN Append(entered, Head(u).n) ELSE entered
  BY DEF handleDataChannelMessage
<1>2. u \in Seq(Message) /\ channel \in Channels
  BY Known
<1>3. /\ Head(u) \in Range(u) /\ Tail(u) \in Seq(Message)
      /\ Within(u, Tail(u))
  <2> HIDE DEF u
  <2>1. Head(u) \in Range(u) /\ Tail(u) \in Seq(Message)
    BY <1>1, <1>2, Taken
  <2>2. Takes(u, Tail(u))
    BY <1>1 DEF Takes
  <2>3. QED BY <1>2, <2>1, <2>2, TakenWithin
<1>4. /\ Head(u).kind = "input" /\ Head(u).n \in 1..typed
      /\ Head(u).n \in Numbers(u) /\ Before({Head(u).n}, Numbers(Tail(u)))
  <2>1. Head(u).kind = "input" /\ Head(u).n \in 1..typed
    BY <1>3 DEF IInv, Content
  <2>2. Rising(u)
    BY DEF IInv, Order
  <2>3. /\ Numbers(u) = {x \in {Head(u).n} : Head(u).kind = "input"} \cup Numbers(Tail(u))
        /\ Rising(u) => (Head(u).kind = "input" => \A x \in Numbers(Tail(u)) : Head(u).n < x)
    BY <1>1, <1>2, Taken
  <2> HIDE DEF u
  <2>4. QED BY <2>1, <2>2, <2>3 DEF Before
<1> HIDE DEF u
<1>5. /\ Other(channel', a) /\ channel'[a].near = channel[a].near /\ channel'[a].far = channel[a].far
      /\ channel'[a].down = channel[a].down /\ channel'[a].up = Tail(u)
  BY <1>1, <1>2, <1>3 DEF Channels, Other
<1>6. /\ channel' \in Channels
      /\ \A b \in Attempts : /\ channel'[b].near = channel[b].near /\ channel'[b].far = channel[b].far
                             /\ channel'[b].down = channel[b].down
                             /\ channel[b].up = <<>> => channel'[b].up = <<>>
                             /\ Within(channel[b].up, channel'[b].up)
  BY <1>1, <1>3, <1>5, Whole DEF Other, u
<1>7. UNCHANGED <<attached, transport, negotiation, answering, outputBuffer, lease>>
  BY <1>1 DEF server
<1>8. CASE entered' = entered
  <2>1. UNCHANGED <<connected, phase, attempt, offered, answered, directActive, inputBuffer>>
    BY <1>1 DEF browser
  <2>2. Types'
    BY <1>1, <1>6, <1>7, <1>8, <2>1
       DEF IInv, Types, ServerFlags, BrowserFlags, Wires, Streams, Rules
  <2>3. Content'
    BY <1>1, <1>6, <1>7, <2>1 DEF IInv, Content, Within
  <2>4. Offers' /\ Switches'
    <3>1. Handed' => Handed
      BY <1>6, <1>7, <2>1 DEF Handed
    <3>2. negotiation # 0 => channel'[negotiation].far = channel[negotiation].far
      BY <1>6, Known
    <3>3. transport # "websocket" => negotiation # 0
      BY DEF IInv, Types, Rules
    <3>4. Offers'
      BY <1>1, <1>6, <1>7, <2>1, <3>2, <3>3 DEF IInv, Offers
    <3>5. Switches'
      BY <1>1, <1>6, <1>7, <2>1, <3>1, <3>2 DEF IInv, Switches
    <3>6. QED BY <3>4, <3>5
  <2>5. Paths'
    BY <1>6, <1>7, <2>1 DEF IInv, Paths
  <2>6. Order'
    BY <1>1, <1>6, <1>7, <1>8, <2>1 DEF IInv, Order, Within, Before
  <2>7. QED BY <2>2, <2>3, <2>4, <2>5, <2>6 DEF IInv
<1>9. CASE attached /\ negotiation = a /\ transport = "webrtc" /\ entered' = Append(entered, Head(u).n)
  <2>1. \A b \in Attempts : Before({Head(u).n}, Numbers(channel'[b].up))
    <3>1. \A b \in Attempts \ {a} : channel'[b].up = <<>>
      BY <1>6, <1>9 DEF IInv, Paths
    <3>2. QED BY <1>4, <1>5, <3>1, Nothing DEF Before
  <2>2. (\A x \in Range(entered) : x < Head(u).n) /\ Before({Head(u).n}, Range(inputBuffer))
    BY <1>4 DEF IInv, Order, Before, u
  <2>3. Within(toServer, toServer')
    BY <1>1, Same
  <2>4. QED BY <1>1, <1>4, <1>6, <1>9, <2>1, <2>2, <2>3, InputEntered
<1>10. QED BY <1>1, <1>8, <1>9-----------------------------------------------------------------------------
(* The steps of the browser.                                               *)

\* fail, with what may happen beside.
LEMMA FailKeeps ==
  ASSUME IInv, NEW f \in BOOLEAN, fail(f), phase # "closed", phase = "active" => f,
         UNCHANGED <<server, attempt, offered, answered, toServer, written, entered>>,
         shown' \in Seq(1..written), Within(toClient, toClient'),
         typed' \in 0..MaxInput, typed <= typed'
  PROVE  IInv'
<1>1. /\ phase' = "idle" /\ inputBuffer' = <<>>
      /\ channel' = IF attempt = 0 THEN channel ELSE [channel EXCEPT ![attempt].near = "closed"]
      /\ directActive' = (directActive /\ ~f)
      /\ connected' = (connected /\ ~f)
  BY DEF fail
<1>2. Closes(channel') /\ \A b \in Attempts : channel'[b].far = channel[b].far
  <2>1. CASE attempt = 0
    BY <1>1, <2>1, Known, Closings
  <2>2. CASE attempt # 0
    BY <1>1, <2>2, Known, Closings
  <2>3. QED BY <2>1, <2>2
<1>3. directActive' = FALSE
  <2>1. directActive \in BOOLEAN /\ (directActive => phase = "active")
    BY DEF IInv, Types, BrowserFlags, Rules
  <2>2. QED BY <1>1, <2>1
<1>4. connected' \in BOOLEAN
  BY <1>1 DEF IInv, Types, BrowserFlags
<1>5. UNCHANGED <<attached, transport, negotiation, answering, outputBuffer, lease>>
  BY DEF server
<1>6. QED BY <1>1, <1>2, <1>3, <1>4, <1>5, BrowserGivesUp

\* The WebSocket closes.
LEMMA SocketClosesKeeps ==
  ASSUME IInv, socketCloses
  PROVE  IInv'
<1>1. /\ phase' = "closed" /\ inputBuffer' = <<>> /\ directActive' = FALSE /\ connected' = FALSE
      /\ channel' = IF attempt = 0 THEN channel ELSE [channel EXCEPT ![attempt].near = "closed"]
      /\ UNCHANGED <<attached, transport, negotiation, answering, outputBuffer, lease>>
      /\ UNCHANGED <<attempt, offered, answered, toClient, toServer, written, shown, typed, entered>>
  BY DEF socketCloses, server, user
<1>2. Closes(channel') /\ \A b \in Attempts : channel'[b].far = channel[b].far
  <2>1. CASE attempt = 0
    BY <1>1, <2>1, Known, Closings
  <2>2. CASE attempt # 0
    BY <1>1, <2>2, Known, Closings
  <2>3. QED BY <2>1, <2>2
<1>3. QED BY <1>1, <1>2, Same, BrowserGivesUp

\* The current attempt loses its connection or its channel.
LEMMA NearClosesKeeps ==
  ASSUME IInv, nearCloses
  PROVE  IInv'
<1>1. /\ phase \in {"finding", "switching", "active"} /\ fail(phase = "active")
      /\ UNCHANGED <<server, attempt, offered, answered, toClient, toServer, written, shown, typed, entered>>
  BY DEF nearCloses, user
<1> DEFINE f == phase = "active"
<1>2. f \in BOOLEAN /\ fail(f) /\ (phase = "active" => f)
  BY <1>1
<1> HIDE DEF f
<1>3. QED BY <1>1, <1>2, Same, FailKeeps

\* The browser's end of a channel opens.
LEMMA NearOpensKeeps ==
  ASSUME IInv, NEW a \in Attempts, nearOpens(a)
  PROVE  IInv'
<1>1. /\ answered = a /\ channel' = [channel EXCEPT ![a].near = "open"]
      /\ UNCHANGED <<attached, transport, negotiation, answering, outputBuffer, lease>>
      /\ UNCHANGED <<connected, phase, attempt, offered, answered, directActive, inputBuffer>>
      /\ UNCHANGED <<toClient, toServer, written, shown, typed, entered>>
  BY DEF nearOpens, server, browser, user
<1>2. channel' \in Channels
      /\ \A b \in Attempts : /\ channel'[b].far = channel[b].far
                             /\ channel'[b].down = channel[b].down /\ channel'[b].up = channel[b].up
                             /\ b # a => channel'[b].near = channel[b].near
  <2>1. channel \in Channels /\ "open" \in Ends
    BY Known DEF Ends
  <2>2. /\ Other(channel', a) /\ channel'[a].far = channel[a].far
        /\ channel'[a].down = channel[a].down /\ channel'[a].up = channel[a].up
    BY <1>1, <2>1 DEF Channels, Other
  <2>3. QED BY <2>2 DEF Other
<1>3. Types'
  BY <1>1, <1>2 DEF IInv, Types, ServerFlags, BrowserFlags, Wires, Streams, Rules
<1>4. Content'
  BY <1>1, <1>2 DEF IInv, Content
<1>5. Offers'
  <2>1. \A b \in Attempts : channel'[b].far = "open" \/ channel'[b].near = "open" => b <= answered
    BY <1>1, <1>2, Known DEF IInv, Offers
  <2>2. transport # "websocket" => channel'[negotiation].far = "open"
    BY <1>2, Known DEF IInv, Offers, Types, Rules
  <2>3. QED BY <1>1, <2>1, <2>2 DEF IInv, Offers
<1>6. Switches'
  <2>1. Handed' => Handed
    BY <1>1, <1>2 DEF Handed
  <2>2. negotiation # 0 => channel'[negotiation].far = channel[negotiation].far
    BY <1>2, Known
  <2>3. QED BY <1>1, <2>1, <2>2 DEF IInv, Switches
<1>7. Paths' /\ Order'
  BY <1>1, <1>2 DEF IInv, Paths, Order
<1>8. QED BY <1>3, <1>4, <1>5, <1>6, <1>7 DEF IInv

\* A new attempt.
LEMMA StartKeeps ==
  ASSUME IInv, start
  PROVE  IInv'
<1>1. /\ connected /\ phase = "idle" /\ attempt < MaxAttempts /\ phase' = "finding" /\ attempt' = attempt + 1
      /\ UNCHANGED <<attached, transport, negotiation, answering, outputBuffer, lease>>
      /\ UNCHANGED <<connected, offered, answered, directActive, inputBuffer, toClient, toServer, channel>>
      /\ UNCHANGED <<written, shown, typed, entered>>
  BY DEF start, server, user
<1>2. attempt' \in 0..MaxAttempts /\ offered \in 0..attempt' /\ attempt' # 0
  BY <1>1, Known
<1>3. Types'
  <2>1. ServerFlags' /\ Wires' /\ Streams'
    BY <1>1 DEF IInv, Types, ServerFlags, Wires, Streams
  <2>2. BrowserFlags'
    BY <1>1, <1>2 DEF IInv, Types, BrowserFlags
  <2>3. Rules'
    BY <1>1, <1>2 DEF IInv, Types, Rules
  <2>4. QED BY <2>1, <2>2, <2>3 DEF Types
<1>4. Content' /\ Offers' /\ Order'
  BY <1>1 DEF IInv, Content, Offers, Order
<1>5. Switches' /\ Paths'
  BY <1>1 DEF IInv, Switches, Paths, Handed
<1>6. QED BY <1>3, <1>4, <1>5 DEF IInv

\* The offer goes out, or the browser gives up.
LEMMA SendOfferKeeps ==
  ASSUME IInv, sendOffer
  PROVE  IInv'
<1>1. /\ phase = "finding" /\ offered < attempt
      /\ UNCHANGED <<server, attempt, answered, toClient, written, shown, typed, entered>>
  BY DEF sendOffer, user
<1>2. CASE fail(FALSE) /\ UNCHANGED <<offered, toServer>>
  BY <1>1, <1>2, Same, FailKeeps
<1>3. CASE /\ offered' = attempt /\ toServer' = Append(toServer, [kind |-> "offer", n |-> attempt])
           /\ UNCHANGED <<phase, channel, inputBuffer, directActive, connected>>
  <2> DEFINE m == [kind |-> "offer", n |-> attempt]
  <2>1. m \in Message /\ m.kind = "offer" /\ m.n = attempt /\ attempt \in Nat
    BY Known, Messages DEF Kinds
  <2>2. toServer' = Append(toServer, m)
    BY <1>3
  <2> HIDE DEF m
  <2>3. UNCHANGED <<attached, transport, negotiation, answering, outputBuffer, lease>>
    BY <1>1 DEF server
  <2>4. /\ answered < attempt /\ negotiation < attempt /\ attempt \in 1..offered'
        /\ \A x \in 1..offered : x \in 1..offered' /\ x < attempt
        /\ offered' \in 0..attempt /\ answered \in 0..offered'
    BY <1>1, <1>3, Known
  <2>5. /\ toServer' \in Seq(Message)
        /\ \A x \in Range(toServer') : x \in Range(toServer) \/ x = m
        /\ \A k \in {"activate", "switch"} : /\ Has(toServer', k) <=> Has(toServer, k)
                                             /\ Single(toServer, k) => Single(toServer', k)
        /\ Numbers(toServer') = Numbers(toServer)
        /\ Rising(toServer) => Rising(toServer')
        /\ InTurn(toServer, "offer", "activate") => InTurn(toServer', "offer", "activate")
    <3>1. Grows(toServer, toServer', {"offer"}, {m})
      BY <2>1, <2>2, Known, MessageSent
    <3>2. \A x \in Range(toServer) : x.kind = "offer" => x.n < attempt
      BY <2>4 DEF IInv, Offers
    <3>3. InTurn(toServer, "offer", "activate") => InTurn(toServer', "offer", "activate")
      BY <2>1, <2>2, <3>2, Known, MessageSent
    <3>4. QED BY <3>1, <3>3 DEF Grows
  <2>6. Types'
    <3>1. ServerFlags' /\ Wires' /\ Streams'
      BY <1>1, <1>3, <2>3, <2>5 DEF IInv, Types, ServerFlags, Wires, Streams
    <3>2. BrowserFlags' /\ Rules'
      BY <1>1, <1>3, <2>3, <2>4 DEF IInv, Types, BrowserFlags, Rules
    <3>3. QED BY <3>1, <3>2 DEF Types
  <2>7. Content'
    BY <1>1, <1>3, <2>1, <2>5 DEF IInv, Content
  <2>8. Offers'
    <3>1. negotiation <= offered' /\ answering \subseteq 1..offered'
      BY <2>4, Known DEF IInv, Offers
    <3>2. \A x \in Range(toServer') : x.kind = "offer" => x.n \in 1..offered' /\ answered < x.n /\ negotiation < x.n
      BY <2>1, <2>4, <2>5 DEF IInv, Offers
    <3>3. \A x \in Range(toClient) : x.kind = "answer" =>
            /\ x.n \in 1..offered' /\ answered < x.n
            /\ \A y \in Range(toServer') : y.kind = "offer" => x.n < y.n
      BY <2>1, <2>4, <2>5 DEF IInv, Offers
    <3>4. QED BY <1>1, <1>3, <2>3, <2>5, <3>1, <3>2, <3>3 DEF IInv, Offers
  <2>9. Switches'
    BY <1>1, <1>3, <2>3, <2>5 DEF IInv, Switches, Handed
  <2>10. Paths'
    BY <1>1, <1>3, <2>3 DEF IInv, Paths
  <2>11. Order'
    BY <1>1, <1>3, <2>3, <2>5 DEF IInv, Order
  <2>12. QED BY <2>6, <2>7, <2>8, <2>9, <2>10, <2>11 DEF IInv
<1>4. QED BY <1>2, <1>3, Zenon DEF sendOffer

\* The stream of the server that is taken, and what the message was.
LEMMA BrowserReads ==
  ASSUME IInv, toClient # <<>>, toClient' = Tail(toClient)
  PROVE  /\ Head(toClient) \in Message /\ Head(toClient) \in Range(toClient)
         /\ Head(toClient).kind \in {"output", "unavailable", "answer", "switch"}
         /\ Within(toClient, toClient')
         /\ Head(toClient).kind = "output" => Head(toClient).n \in 1..written
         /\ Head(toClient).kind = "answer" =>
              /\ ~Has(toClient', "switch")
              /\ \A m \in Range(toClient') : m.kind = "answer" => Head(toClient).n < m.n
         /\ Head(toClient).kind = "switch" => Has(toClient, "switch") /\ ~Has(toClient', "switch")
<1> DEFINE h == Head(toClient)
<1>1. Within(toClient, toClient')
  BY Known, TakenWithin DEF Takes
<1>2. /\ h \in Message /\ Range(toClient) = {h} \cup Range(toClient')
      /\ \A k : Single(toClient, k) => ~(h.kind = k /\ Has(toClient', k))
  BY Known, Taken
<1>3. h.kind = "answer" => /\ ~Has(toClient', "switch")
                           /\ \A m \in Range(toClient') : m.kind = "answer" => h.n < m.n
  <2>1. InTurn(toClient, "answer", "switch")
    BY DEF IInv, Offers
  <2>2. QED BY <2>1, Known, TakenInTurn
<1> HIDE DEF h
<1>4. h \in Range(toClient)
  BY <1>2
<1>5. h.kind \in {"output", "unavailable", "answer", "switch"} /\ (h.kind = "output" => h.n \in 1..written)
  BY <1>4 DEF IInv, Content
<1>6. h.kind = "switch" => Has(toClient, "switch") /\ ~Has(toClient', "switch")
  BY <1>2, <1>4 DEF IInv, Switches, Has
<1>7. QED BY <1>1, <1>2, <1>3, <1>4, <1>5, <1>6 DEF h

\* A message of the server that changes nothing but the screen.
LEMMA Passes ==
  ASSUME IInv, Within(toClient, toClient'), shown' \in Seq(1..written),
         UNCHANGED <<phase, channel, inputBuffer, directActive, connected, answered, toServer>>,
         UNCHANGED <<server, attempt, offered, written, typed, entered>>
  PROVE  IInv'
<1>1. UNCHANGED <<attached, transport, negotiation, answering, outputBuffer, lease>>
  BY DEF server
<1>2. Closes(channel') /\ lease' \in {"none", "fresh", "due"}
  BY <1>1, Known, Closings DEF IInv, Types, ServerFlags
<1>3. QED BY <1>1, <1>2, Same, NothingStarts

\* The answer is applied that was waited for.
LEMMA AnswerKeeps ==
  ASSUME IInv, toClient # <<>>, toClient' = Tail(toClient), Head(toClient).kind = "answer",
         Head(toClient).n = attempt, answered' = attempt,
         UNCHANGED <<phase, channel, inputBuffer, directActive, connected, toServer>>,
         UNCHANGED <<server, attempt, offered, written, shown, typed, entered>>
  PROVE  IInv'
<1> DEFINE h == Head(toClient)
<1>1. /\ h \in Range(toClient) /\ h.kind = "answer" /\ h.n = attempt
      /\ Within(toClient, toClient') /\ ~Has(toClient', "switch")
      /\ \A m \in Range(toClient') : m.kind = "answer" => attempt < m.n
  BY BrowserReads
<1> HIDE DEF h
<1>2. UNCHANGED <<attached, transport, negotiation, answering, outputBuffer, lease>>
  BY DEF server
<1>3. /\ attempt \in 1..offered /\ answered < attempt /\ attempt \in Nat
      /\ negotiation # 0 => attempt <= negotiation
      /\ negotiation \in answering => attempt < negotiation
      /\ \A x \in Range(toServer) : x.kind = "offer" => attempt < x.n
  BY <1>1, Known DEF IInv, Offers
<1>4. answered' \in 0..offered /\ \A b \in Attempts : b <= answered => b <= answered'
  BY <1>3, Known
<1>5. Types'
  <2>1. ServerFlags' /\ Wires' /\ Streams'
    BY <1>1, <1>2 DEF IInv, Types, ServerFlags, Wires, Streams, Within
  <2>2. BrowserFlags' /\ Rules'
    BY <1>2, <1>4 DEF IInv, Types, BrowserFlags, Rules
  <2>3. QED BY <2>1, <2>2 DEF Types
<1>6. Content'
  BY <1>1 DEF IInv, Content, Within
<1>7. Offers'
  <2>1. \A m \in Range(toServer) : m.kind = "offer" => m.n \in 1..offered /\ attempt < m.n /\ negotiation < m.n
    BY <1>3 DEF IInv, Offers
  <2>2. \A m \in Range(toClient') : m.kind = "answer" =>
          /\ m.n \in 1..offered /\ attempt < m.n
          /\ negotiation # 0 => m.n <= negotiation
          /\ negotiation \in answering => m.n < negotiation
          /\ \A x \in Range(toServer) : x.kind = "offer" => m.n < x.n
    BY <1>1 DEF IInv, Offers, Within
  <2>3. InTurn(toClient', "answer", "switch")
    BY <1>1 DEF IInv, Offers, Within
  <2>4. \A b \in Attempts : channel[b].far = "open" \/ channel[b].near = "open" => b <= answered'
    BY <1>4 DEF IInv, Offers
  <2>5. QED BY <1>2, <1>3, <2>1, <2>2, <2>3, <2>4 DEF IInv, Offers
<1>8. Switches'
  <2>1. Handed' => Handed
    BY <1>2 DEF Handed
  <2>2. negotiation # 0 => (answered < negotiation /\ ~Has(toServer, "activate"))
    BY <1>3, Known DEF IInv, Switches
  <2>3. QED BY <1>1, <1>2, <2>1, <2>2 DEF IInv, Switches, Within
<1>9. Paths' /\ Order'
  BY <1>2 DEF IInv, Paths, Order
<1>10. QED BY <1>5, <1>6, <1>7, <1>8, <1>9 DEF IInv

\* The switch is announced, and the browser turns to the channel.
LEMMA SwitchKeeps ==
  ASSUME IInv, connected, toClient # <<>>, toClient' = Tail(toClient), Head(toClient).kind = "switch",
         phase = "finding", channel[attempt].near = "open",
         phase' = "switching", toServer' = Append(toServer, Say("activate")),
         UNCHANGED <<channel, inputBuffer, directActive, connected>>,
         UNCHANGED <<server, attempt, offered, answered, written, shown, typed, entered>>
  PROVE  IInv'
<1>1. Within(toClient, toClient') /\ Has(toClient, "switch") /\ ~Has(toClient', "switch")
  BY BrowserReads
<1>2. UNCHANGED <<attached, transport, negotiation, answering, outputBuffer, lease>>
  BY DEF server
<1>3. /\ attempt \in Attempts /\ attempt <= answered /\ answered = offered /\ answered = attempt
      /\ negotiation <= answered
  <2>1. attempt \in Attempts
    BY Known DEF IInv, Types, Rules
  <2>2. attempt <= answered
    BY <2>1 DEF IInv, Offers
  <2>3. QED BY <2>1, <2>2, Known
<1>4. /\ ~Handed /\ ~Has(toServer, "activate") /\ Single(toServer, "activate")
      /\ ~(negotiation # 0 /\ answered = negotiation /\ channel[negotiation].far = "new")
  BY <1>1 DEF IInv, Switches
<1>5. ~Has(toServer, "offer")
  <2>1. \A m \in Range(toServer) : m.kind = "offer" => m.n \in 1..offered /\ answered < m.n
    BY DEF IInv, Offers
  <2>2. \A m \in Range(toServer) : m.kind # "offer"
    BY <1>3, <2>1, Known
  <2>3. QED BY <2>2 DEF Has
<1>6. /\ toServer' \in Seq(Message)
      /\ \A x \in Range(toServer') : x \in Range(toServer) \/ x.kind = "activate"
      /\ Single(toServer', "activate")
      /\ Numbers(toServer') = Numbers(toServer)
      /\ Rising(toServer) => Rising(toServer')
      /\ InTurn(toServer', "offer", "activate")
  <2>1. Say("activate") \in Message /\ Say("activate").kind = "activate"
    BY Messages DEF Kinds
  <2>2. Grows(toServer, toServer', {"activate"}, {Say("activate")})
    BY <2>1, Known, MessageSent
  <2>3. Single(toServer', "activate")
    BY <1>4, <2>1, Known, MessageSent
  <2>4. InTurn(toServer', "offer", "activate")
    <3>1. InTurn(toServer, "offer", "activate")
      BY DEF IInv, Offers
    <3>2. QED BY <1>5, <2>1, <3>1, Known, MessageSent
  <2>5. QED BY <2>1, <2>2, <2>3, <2>4 DEF Grows
<1>7. Types'
  <2>1. ServerFlags' /\ Wires' /\ Streams'
    BY <1>1, <1>2, <1>6 DEF IInv, Types, ServerFlags, Wires, Streams, Within
  <2>2. BrowserFlags' /\ Rules'
    BY <1>2, <1>3, Known DEF IInv, Types, BrowserFlags, Rules
  <2>3. QED BY <2>1, <2>2 DEF Types
<1>8. Content'
  <2>1. \A m \in Range(toServer') : /\ m.kind \in {"input", "offer", "activate"}
                                    /\ m.kind = "input" => m.n \in 1..typed
    BY <1>6 DEF IInv, Content
  <2>2. QED BY <1>1, <2>1 DEF IInv, Content, Within
<1>9. Offers'
  <2>1. \A x \in Range(toServer') : x.kind = "offer" => x \in Range(toServer)
    BY <1>6
  <2>2. QED BY <1>1, <1>2, <1>6, <2>1 DEF IInv, Offers, Within
<1>10. Switches'
  <2>1. ~Handed'
    BY <1>2, <1>4 DEF Handed
  <2>2. ~(negotiation # 0 /\ answered < negotiation)
    BY <1>3, Known
  <2>3. transport # "webrtc"
    BY <1>4 DEF Handed
  <2>4. QED BY <1>1, <1>2, <1>4, <1>6, <2>1, <2>2, <2>3 DEF IInv, Switches, Within
<1>11. Paths'
  BY <1>2 DEF IInv, Paths
<1>12. Order'
  BY <1>2, <1>6 DEF IInv, Order
<1>13. QED BY <1>7, <1>8, <1>9, <1>10, <1>11, <1>12 DEF IInv

\* socketMessage
LEMMA SocketMessageKeeps ==
  ASSUME IInv, socketMessage
  PROVE  IInv'
<1> DEFINE h == Head(toClient)
<1>1. /\ connected /\ toClient # <<>> /\ toClient' = Tail(toClient)
      /\ UNCHANGED <<server, attempt, offered, written, typed, entered>>
  BY DEF socketMessage
<1>2. /\ h.kind \in {"output", "unavailable", "answer", "switch"}
      /\ Within(toClient, toClient')
      /\ h.kind = "output" => h.n \in 1..written
      /\ h.kind = "switch" => Has(toClient, "switch")
  BY <1>1, BrowserReads
<1>3. CASE h.kind = "output"
  <2>1. h.kind # "unavailable" /\ h.kind # "answer" /\ h.kind # "switch"
    BY <1>3
  <2>2. (shown' = IF directActive THEN shown ELSE Append(shown, h.n)) /\ Ignored
    BY <1>3, <2>1, Zenon DEF socketMessage
  <2> HIDE DEF h
  <2>3. shown' \in Seq(1..written)
    <3>1. shown \in Seq(1..written) /\ h.n \in 1..written
      BY <1>2, <1>3 DEF IInv, Types, Streams
    <3>2. Append(shown, h.n) \in Seq(1..written)
      BY <3>1, Written
    <3>3. QED BY <2>2, <3>1, <3>2
  <2>4. QED BY <1>1, <1>2, <2>2, <2>3, Passes DEF Ignored
<1>4. CASE h.kind = "unavailable"
  <2>1. h.kind # "output" /\ h.kind # "answer" /\ h.kind # "switch"
    BY <1>4
  <2>2. /\ UNCHANGED shown
        /\ IF phase \in {"finding", "switching"}
           THEN fail(FALSE) /\ UNCHANGED <<answered, toServer>>
           ELSE Ignored
    BY <1>4, <2>1, Zenon DEF socketMessage
  <2> HIDE DEF h
  <2>3. CASE phase \in {"finding", "switching"}
    BY <1>1, <1>2, <2>2, <2>3, Same, FailKeeps
  <2>4. CASE phase \notin {"finding", "switching"}
    BY <1>1, <1>2, <2>2, <2>4, Same, Passes DEF Ignored
  <2>5. QED BY <2>3, <2>4
<1>5. CASE h.kind = "answer"
  <2>1. h.kind # "output" /\ h.kind # "unavailable" /\ h.kind # "switch"
    BY <1>5
  <2>2. onAnswer(h.n) /\ UNCHANGED shown
    BY <1>5, <2>1, Zenon DEF socketMessage
  <2>3. CASE phase = "finding" /\ h.n = attempt
    <3>1. /\ answered' = attempt /\ UNCHANGED toServer
          /\ UNCHANGED <<phase, channel, inputBuffer, directActive, connected>>
      BY <2>2, <2>3 DEF onAnswer
    <3>2. QED BY <1>1, <1>5, <2>2, <2>3, <3>1, AnswerKeeps
  <2> HIDE DEF h
  <2>4. CASE UNCHANGED <<toServer, answered, phase, channel, inputBuffer, directActive, connected>>
    BY <1>1, <1>2, <2>2, <2>4, Same, Passes
  <2>5. CASE UNCHANGED <<toServer, answered>> /\ phase = "finding" /\ fail(FALSE)
    BY <1>1, <1>2, <2>2, <2>5, Same, FailKeeps
  <2>6. QED BY <2>2, <2>3, <2>4, <2>5 DEF onAnswer
<1>6. CASE h.kind = "switch"
  <2>1. h.kind # "output" /\ h.kind # "unavailable" /\ h.kind # "answer"
    BY <1>6
  <2>2. onSwitch /\ UNCHANGED shown
    BY <1>6, <2>1, Zenon DEF socketMessage
  <2>3. CASE phase = "finding" /\ channel[attempt].near = "open"
    <3>1. /\ phase' = "switching" /\ toServer' = Append(toServer, Say("activate"))
          /\ UNCHANGED <<answered, channel, inputBuffer, directActive, connected>>
      BY <2>2, <2>3 DEF onSwitch
    <3>2. QED BY <1>1, <1>6, <2>2, <2>3, <3>1, SwitchKeeps
  <2>4. CASE ~(phase = "finding" /\ channel[attempt].near = "open")
    <3>1. fail(FALSE) /\ UNCHANGED <<answered, toServer>>
      BY <2>2, <2>4 DEF onSwitch
    <3>2. phase # "active"
      BY <1>2, <1>6 DEF IInv, Switches, Handed
    <3>3. CASE phase = "closed"
      BY <1>1, <1>2, <2>2, <3>1, <3>3, Same, Passes DEF fail
    <3>4. CASE phase # "closed"
      BY <1>1, <1>2, <2>2, <3>1, <3>2, <3>4, Same, FailKeeps
    <3>5. QED BY <3>3, <3>4
  <2>5. QED BY <2>3, <2>4
<1>7. QED BY <1>2, <1>3, <1>4, <1>5, <1>6

\* The first message of a channel is taken.
LEMMA DownTaken ==
  ASSUME IInv, NEW a \in Attempts, channel[a].down # <<>>
  PROVE  LET d == [channel EXCEPT ![a].down = Tail(channel[a].down)]
         IN /\ d \in Channels
            /\ \A b \in Attempts : /\ d[b].near = channel[b].near /\ d[b].far = channel[b].far
                                   /\ d[b].up = channel[b].up
                                   /\ Range(d[b].down) \subseteq Range(channel[b].down)
                                   /\ d[b].down # <<>> => channel[b].down # <<>>
<1> DEFINE q == channel[a].down
           r == Tail(q)
           d == [channel EXCEPT ![a].down = r]
<1>1. q \in Seq(Message) /\ channel \in Channels /\ q # <<>>
  BY Known
<1>2. r \in Seq(Message) /\ Range(r) \subseteq Range(q)
  <2> HIDE DEF q
  <2>1. QED BY <1>1, Taken
<1>3. d = [channel EXCEPT ![a].down = r]
  OBVIOUS
<1> HIDE DEF q, r, d
<1>4. /\ Other(d, a) /\ d[a].near = channel[a].near /\ d[a].far = channel[a].far
      /\ d[a].down = r /\ d[a].up = channel[a].up
  BY <1>1, <1>2, <1>3 DEF Channels, Other
<1>5. /\ d \in Channels
      /\ \A b \in Attempts : /\ d[b].near = channel[b].near /\ d[b].far = channel[b].far
                             /\ d[b].up = channel[b].up
                             /\ Range(d[b].down) \subseteq Range(channel[b].down)
                             /\ d[b].down # <<>> => channel[b].down # <<>>
  BY <1>1, <1>2, <1>4 DEF Other, q
<1>6. QED BY <1>5 DEF q, r, d

\* A message of the channel changes nothing but the screen.
LEMMA ChannelRead ==
  ASSUME IInv, NEW a \in Attempts, channel[a].down # <<>>,
         channel' = [channel EXCEPT ![a].down = Tail(channel[a].down)],
         shown' \in Seq(1..written),
         UNCHANGED <<phase, inputBuffer, directActive, connected>>,
         UNCHANGED <<server, attempt, offered, answered, toClient, toServer, written, typed, entered>>
  PROVE  IInv'
<1>1. /\ channel' \in Channels
      /\ \A b \in Attempts : /\ channel'[b].near = channel[b].near /\ channel'[b].far = channel[b].far
                             /\ channel'[b].up = channel[b].up
                             /\ Range(channel'[b].down) \subseteq Range(channel[b].down)
                             /\ channel'[b].down # <<>> => channel[b].down # <<>>
  <2> DEFINE d == [channel EXCEPT ![a].down = Tail(channel[a].down)]
  <2>1. /\ d \in Channels
        /\ \A b \in Attempts : /\ d[b].near = channel[b].near /\ d[b].far = channel[b].far
                               /\ d[b].up = channel[b].up
                               /\ Range(d[b].down) \subseteq Range(channel[b].down)
                               /\ d[b].down # <<>> => channel[b].down # <<>>
    BY DownTaken
  <2>2. channel' = d
    OBVIOUS
  <2> HIDE DEF d
  <2>3. QED BY <2>1, <2>2
<1>2. UNCHANGED <<attached, transport, negotiation, answering, outputBuffer, lease>>
  BY DEF server
<1>3. Types'
  BY <1>1, <1>2 DEF IInv, Types, ServerFlags, BrowserFlags, Wires, Streams, Rules
<1>4. Content'
  BY <1>1, <1>2 DEF IInv, Content
<1>5. Offers'
  <2>1. transport # "websocket" => channel'[negotiation].far = channel[negotiation].far
    BY <1>1, Known DEF IInv, Types, Rules
  <2>2. QED BY <1>1, <1>2, <2>1 DEF IInv, Offers
<1>6. Switches'
  <2>1. Handed' => Handed
    BY <1>1, <1>2 DEF Handed
  <2>2. negotiation # 0 => channel'[negotiation].far = channel[negotiation].far
    BY <1>1, Known
  <2>3. QED BY <1>2, <2>1, <2>2 DEF IInv, Switches
<1>7. Paths' /\ Order'
  BY <1>1, <1>2 DEF IInv, Paths, Order
<1>8. QED BY <1>3, <1>4, <1>5, <1>6, <1>7 DEF IInv

\* The same, and the input held back follows.
LEMMA BothTaken ==
  ASSUME IInv, attempt \in Attempts, channel[attempt].down # <<>>
  PROVE  LET u == channel[attempt].up
             s == u \o Pieces("input", inputBuffer)
             d == [channel EXCEPT ![attempt].down = Tail(channel[attempt].down),
                                  ![attempt].up = @ \o Pieces("input", inputBuffer)]
         IN /\ d \in Channels /\ d[attempt].up = s
            /\ \A b \in Attempts : /\ d[b].near = channel[b].near /\ d[b].far = channel[b].far
                                   /\ Range(d[b].down) \subseteq Range(channel[b].down)
                                   /\ d[b].down # <<>> => channel[b].down # <<>>
                                   /\ b # attempt => d[b].up = channel[b].up
            /\ Rising(s) /\ Numbers(s) = Numbers(u) \cup Range(inputBuffer)
            /\ \A m \in Range(s) : m \in Range(u) \/ (m.kind = "input" /\ m.n \in 1..typed)
<1> DEFINE u == channel[attempt].up
           s == u \o Pieces("input", inputBuffer)
           r == Tail(channel[attempt].down)
           c == [channel EXCEPT ![attempt].down = r]
           d == [channel EXCEPT ![attempt].down = r, ![attempt].up = @ \o Pieces("input", inputBuffer)]
<1>1. u \in Seq(Message) /\ Rising(u) /\ Ascends(inputBuffer) /\ Before(Numbers(u), Range(inputBuffer))
  BY Known DEF IInv, Order
<1>2. /\ s \in Seq(Message) /\ Rising(s) /\ Numbers(s) = Numbers(u) \cup Range(inputBuffer)
      /\ \A m \in Range(s) : m \in Range(u) \/ (m.kind = "input" /\ m.n \in 1..typed)
  <2>1. inputBuffer \in Seq(1..typed) /\ 1..typed \in SUBSET Nat /\ "input" \in Kinds
    BY Known DEF IInv, Types, Streams, Kinds
  <2> HIDE DEF u
  <2>2. Grows(u, s, {"input"}, OfKind("input", 1..typed))
    BY <1>1, <2>1, PiecesSent
  <2>3. Numbers(s) = Numbers(u) \cup Range(inputBuffer)
    BY <1>1, <2>1, PiecesSent
  <2>4. Rising(s)
    BY <1>1, <2>1, PiecesSent
  <2>5. QED BY <2>2, <2>3, <2>4 DEF Grows, OfKind
<1>3. /\ c \in Channels
      /\ \A b \in Attempts : /\ c[b].near = channel[b].near /\ c[b].far = channel[b].far
                             /\ c[b].up = channel[b].up
                             /\ Range(c[b].down) \subseteq Range(channel[b].down)
                             /\ c[b].down # <<>> => channel[b].down # <<>>
  BY DownTaken
<1>4. c[attempt].up = u
  BY <1>3
<1>5. d = [c EXCEPT ![attempt].up = s]
  OBVIOUS
<1> HIDE DEF u, s, r, c, d
<1>6. d \in Channels
  BY <1>2, <1>3, <1>5 DEF Channels
<1>7. /\ \A b \in Attempts \ {attempt} : d[b] = c[b]
      /\ d[attempt].near = c[attempt].near /\ d[attempt].far = c[attempt].far
      /\ d[attempt].down = c[attempt].down /\ d[attempt].up = s
  BY <1>3, <1>5 DEF Channels
<1>8. \A b \in Attempts : /\ d[b].near = channel[b].near /\ d[b].far = channel[b].far
                          /\ Range(d[b].down) \subseteq Range(channel[b].down)
                          /\ d[b].down # <<>> => channel[b].down # <<>>
                          /\ b # attempt => d[b].up = channel[b].up
  BY <1>3, <1>7
<1>9. QED BY <1>2, <1>6, <1>7, <1>8 DEF u, s, r, d

\* The server has handed the stream over, and the input held back follows on the channel.
LEMMA BecomesActive ==
  ASSUME IInv, phase = "switching", channel[attempt].down # <<>>,
         phase' = "active", directActive' = TRUE,
         channel' = [channel EXCEPT ![attempt].down = Tail(channel[attempt].down),
                                    ![attempt].up = @ \o Pieces("input", inputBuffer)],
         inputBuffer' = <<>>,
         UNCHANGED <<connected, shown>>,
         UNCHANGED <<server, attempt, offered, answered, toClient, toServer, written, typed, entered>>
  PROVE  IInv'
<1> DEFINE u == channel[attempt].up
           s == u \o Pieces("input", inputBuffer)
           d == [channel EXCEPT ![attempt].down = Tail(channel[attempt].down),
                                ![attempt].up = @ \o Pieces("input", inputBuffer)]
<1>1. attempt \in Attempts /\ connected
  BY Known DEF IInv, Types, Rules
<1>2. /\ Before(Range(entered), Numbers(u)) /\ Before(Range(entered), Range(inputBuffer))
  BY <1>1 DEF IInv, Order
<1>3. /\ d \in Channels /\ d[attempt].up = s
      /\ \A b \in Attempts : /\ d[b].near = channel[b].near /\ d[b].far = channel[b].far
                             /\ Range(d[b].down) \subseteq Range(channel[b].down)
                             /\ d[b].down # <<>> => channel[b].down # <<>>
                             /\ b # attempt => d[b].up = channel[b].up
      /\ Rising(s) /\ Numbers(s) = Numbers(u) \cup Range(inputBuffer)
      /\ \A m \in Range(s) : m \in Range(u) \/ (m.kind = "input" /\ m.n \in 1..typed)
  BY <1>1, BothTaken
<1>4. channel' = d
  OBVIOUS
<1> HIDE DEF u, s, d
<1>5. UNCHANGED <<attached, transport, negotiation, answering, outputBuffer, lease>>
  BY DEF server
<1>6. Handed /\ (attached => transport = "webrtc" /\ negotiation = attempt)
  BY <1>1 DEF IInv, Handed, Paths
<1>7. Types'
  <2>1. ServerFlags' /\ BrowserFlags' /\ Wires'
    BY <1>3, <1>4, <1>5 DEF IInv, Types, ServerFlags, BrowserFlags, Wires
  <2>2. Streams'
    BY <1>5, Nothing DEF IInv, Types, Streams
  <2>3. Rules'
    BY <1>1, <1>5 DEF IInv, Types, Rules
  <2>4. QED BY <2>1, <2>2, <2>3 DEF Types
<1>8. Content'
  <2>1. ASSUME NEW b \in Attempts, NEW m \in Range(d[b].up)
        PROVE  m.kind = "input" /\ m.n \in 1..typed
    <3>1. \A x \in Range(channel[b].up) : x.kind = "input" /\ x.n \in 1..typed
      BY DEF IInv, Content
    <3>2. CASE b = attempt
      BY <1>3, <2>1, <3>1, <3>2 DEF u
    <3>3. CASE b # attempt
      BY <1>3, <2>1, <3>1, <3>3
    <3>4. QED BY <3>2, <3>3
  <2>2. QED BY <1>3, <1>4, <1>5, <2>1 DEF IInv, Content
<1>9. Offers'
  <2>1. transport # "websocket" => channel'[negotiation].far = channel[negotiation].far
    BY <1>3, <1>4, Known DEF IInv, Types, Rules
  <2>2. QED BY <1>3, <1>4, <1>5, <2>1 DEF IInv, Offers
<1>10. Switches'
  <2>1. negotiation # 0 => channel'[negotiation].far = channel[negotiation].far
    BY <1>3, <1>4, Known
  <2>2. QED BY <1>5, <1>6, <2>1 DEF IInv, Switches
<1>11. Paths'
  BY <1>3, <1>4, <1>5, <1>6 DEF IInv, Paths
<1>12. Order'
  <2>1. Range(inputBuffer') = {} /\ Ascends(inputBuffer')
    BY Nothing
  <2>2. \A b \in Attempts : Rising(channel'[b].up) /\ Before(Range(entered), Numbers(channel'[b].up))
    BY <1>2, <1>3, <1>4 DEF IInv, Order, Before
  <2>3. QED BY <1>5, <2>1, <2>2 DEF IInv, Order, Before
<1>13. QED BY <1>7, <1>8, <1>9, <1>10, <1>11, <1>12 DEF IInv

\* handleChannelMessage
LEMMA HandleChannelMessageKeeps ==
  ASSUME IInv, handleChannelMessage
  PROVE  IInv'
<1> DEFINE h == Head(channel[attempt].down)
           r == Tail(channel[attempt].down)
<1>1. /\ attempt # 0 /\ channel[attempt].near = "open" /\ channel[attempt].down # <<>>
      /\ UNCHANGED <<server, attempt, offered, answered, toClient, toServer, written, typed, entered>>
  BY DEF handleChannelMessage
<1>2. attempt \in Attempts /\ channel[attempt].down \in Seq(Message)
  BY <1>1, Known
<1>3. h \in Range(channel[attempt].down)
  <2> DEFINE q == channel[attempt].down
  <2>1. q \in Seq(Message) /\ q # <<>> /\ h = Head(q)
    BY <1>1, <1>2
  <2> HIDE DEF q, h
  <2>2. h \in Range(q)
    BY <2>1, Taken
  <2>3. QED BY <2>2 DEF q
<1>4. CASE phase = "active"
  <2>1. /\ shown' = IF h.kind = "output" THEN Append(shown, h.n) ELSE shown
        /\ channel' = [channel EXCEPT ![attempt].down = r]
        /\ UNCHANGED <<phase, inputBuffer, directActive, connected>>
    BY <1>4 DEF handleChannelMessage
  <2>2. shown' \in Seq(1..written)
    <3> HIDE DEF h
    <3>1. shown \in Seq(1..written) /\ (h.kind = "output" => h.n \in 1..written)
      BY <1>2, <1>3 DEF IInv, Types, Streams, Content
    <3>2. h.kind = "output" => Append(shown, h.n) \in Seq(1..written)
      BY <3>1, Written
    <3>3. QED BY <2>1, <3>1, <3>2
  <2>3. QED BY <1>1, <1>2, <2>1, <2>2, ChannelRead
<1>5. CASE phase # "active"
  <2>1. /\ phase = "switching" /\ UNCHANGED shown
        /\ IF h.kind = "ready" THEN becomesActive(attempt, r) ELSE fail(FALSE)
    BY <1>5 DEF handleChannelMessage
  <2>2. CASE fail(FALSE) \/ fail(TRUE)
    BY <1>1, <2>1, <2>2, Same, FailKeeps
  <2>3. CASE becomesActive(attempt, r)
    <3>1. CASE fail(TRUE)
      BY <2>2, <3>1
    <3>2. CASE ~fail(TRUE)
      <4>1. /\ phase' = "active" /\ directActive' = TRUE
            /\ channel' = [channel EXCEPT ![attempt].down = r, ![attempt].up = @ \o Pieces("input", inputBuffer)]
            /\ inputBuffer' = <<>>
            /\ UNCHANGED connected
        BY <2>3, <3>2, Zenon DEF becomesActive
      <4>2. QED BY <1>1, <2>1, <4>1, BecomesActive
    <3>3. QED BY <3>1, <3>2
  <2>4. QED BY <2>1, <2>2, <2>3
<1>6. QED BY <1>4, <1>5

\* Input that goes on the channel.
LEMMA UpSent ==
  ASSUME IInv, attempt \in Attempts, NEW n \in Nat
  PROVE  LET u == channel[attempt].up
             s == u \o Pieces("input", <<n>>)
             d == [channel EXCEPT ![attempt].up = @ \o Pieces("input", <<n>>)]
         IN /\ d \in Channels /\ d[attempt].up = s
            /\ \A b \in Attempts : /\ d[b].near = channel[b].near /\ d[b].far = channel[b].far
                                   /\ d[b].down = channel[b].down
                                   /\ b # attempt => d[b].up = channel[b].up
            /\ Numbers(s) = Numbers(u) \cup {n}
            /\ Before(Numbers(u), {n}) => Rising(s)
            /\ \A m \in Range(s) : m \in Range(u) \/ (m.kind = "input" /\ m.n = n)
<1> DEFINE u == channel[attempt].up
           s == u \o Pieces("input", <<n>>)
           d == [channel EXCEPT ![attempt].up = @ \o Pieces("input", <<n>>)]
<1>1. u \in Seq(Message) /\ Rising(u) /\ channel \in Channels
  BY Known DEF IInv, Order
<1>2. d = [channel EXCEPT ![attempt].up = s]
  OBVIOUS
<1> HIDE DEF u
<1>3. /\ Grows(u, s, {"input"}, OfKind("input", {n}))
      /\ Numbers(s) = Numbers(u) \cup {n}
      /\ Before(Numbers(u), {n}) => Rising(s)
  <2>1. "input" \in Kinds
    BY DEF Kinds
  <2>2. Grows(u, s, {"input"}, OfKind("input", {n}))
    BY <1>1, <2>1, PieceSent
  <2>3. Numbers(s) = Numbers(u) \cup {n}
    BY <1>1, <2>1, PieceSent
  <2>4. ASSUME Before(Numbers(u), {n})
        PROVE  Rising(s)
    BY <1>1, <2>4, InputSent
  <2>5. QED BY <2>2, <2>3, <2>4
<1> HIDE DEF s, d
<1>4. s \in Seq(Message) /\ \A m \in Range(s) : m \in Range(u) \/ (m.kind = "input" /\ m.n = n)
  BY <1>3 DEF Grows, OfKind
<1>5. /\ Other(d, attempt) /\ d[attempt].near = channel[attempt].near /\ d[attempt].far = channel[attempt].far
      /\ d[attempt].down = channel[attempt].down /\ d[attempt].up = s
  BY <1>1, <1>2, <1>4 DEF Channels, Other
<1>6. /\ d \in Channels
      /\ \A b \in Attempts : /\ d[b].near = channel[b].near /\ d[b].far = channel[b].far
                             /\ d[b].down = channel[b].down
                             /\ b # attempt => d[b].up = channel[b].up
  BY <1>5 DEF Other
<1>7. QED BY <1>1, <1>3, <1>4, <1>5, <1>6 DEF u, s, d

\* Input, wherever the stream is.
LEMMA SendTerminalDataKeeps ==
  ASSUME IInv, sendTerminalData
  PROVE  IInv'
<1>1. /\ connected /\ typed < MaxInput /\ typed' = typed + 1
      /\ UNCHANGED <<server, attempt, offered, answered, toClient, written, shown, entered>>
  BY DEF sendTerminalData
<1>2. /\ typed' \in Nat /\ typed' \in 0..MaxInput /\ typed <= typed' /\ typed' \in 1..typed'
      /\ \A x \in 1..typed : x \in 1..typed' /\ x < typed'
  BY <1>1, Known, TransportAssumption DEF IInv, Types, Streams
<1>3. /\ Len(inputBuffer) \in Nat /\ inputBuffer \in Seq(1..typed) /\ Range(inputBuffer) \subseteq 1..typed
      /\ Range(entered) \subseteq 1..typed
      /\ Numbers(toServer) \subseteq 1..typed
      /\ \A a \in Attempts : Numbers(channel[a].up) \subseteq 1..typed
  <2>1. inputBuffer \in Seq(1..typed) /\ entered \in Seq(1..typed)
    BY DEF IInv, Types, Streams
  <2>2. Range(inputBuffer) \subseteq 1..typed /\ Range(entered) \subseteq 1..typed
    <3>1. Range(inputBuffer) \subseteq 1..typed
      BY <2>1, RangeWithin, Zenon
    <3>2. Range(entered) \subseteq 1..typed
      BY <2>1, RangeWithin, Zenon
    <3>3. QED BY <3>1, <3>2
  <2>3. Numbers(toServer) \subseteq 1..typed /\ \A a \in Attempts : Numbers(channel[a].up) \subseteq 1..typed
    BY DEF IInv, Content, Numbers
  <2>4. QED BY <2>1, <2>2, <2>3
<1>4. UNCHANGED <<attached, transport, negotiation, answering, outputBuffer, lease>>
  BY <1>1 DEF server
<1>5. CASE fail(TRUE) /\ UNCHANGED toServer /\ phase # "closed"
  BY <1>1, <1>2, <1>5, Same, FailKeeps
<1> DEFINE r == toServer \o Pieces("input", <<typed'>>)
           d == [channel EXCEPT ![attempt].up = @ \o Pieces("input", <<typed'>>)]
<1>6. ASSUME \/ /\ phase = "switching" /\ Len(inputBuffer) < Capacity
                /\ inputBuffer' = Append(inputBuffer, typed') /\ UNCHANGED <<channel, toServer>>
             \/ phase = "active" /\ channel' = d /\ UNCHANGED <<inputBuffer, toServer>>
             \/ phase # "switching" /\ toServer' = r /\ UNCHANGED <<inputBuffer, channel>>,
             UNCHANGED <<phase, directActive, connected>>
      PROVE  IInv'
  <2>1. /\ toServer' \in Seq(Message)
        /\ \A m \in Range(toServer') : m \in Range(toServer) \/ (m.kind = "input" /\ m.n = typed')
        /\ \A k : k # "input" => /\ Has(toServer', k) <=> Has(toServer, k)
                                 /\ Single(toServer, k) => Single(toServer', k)
        /\ InTurn(toServer, "offer", "activate") => InTurn(toServer', "offer", "activate")
        /\ Numbers(toServer') \subseteq Numbers(toServer) \cup {typed'}
        /\ Rising(toServer')
        /\ toServer' = toServer \/ phase # "switching"
    <3>1. /\ Grows(toServer, r, {"input"}, OfKind("input", {typed'}))
          /\ Numbers(r) = Numbers(toServer) \cup {typed'}
          /\ Rising(toServer) /\ Before(Numbers(toServer), {typed'}) => Rising(r)
      <4>1. "input" \in Kinds /\ toServer \in Seq(Message)
        BY Known DEF Kinds
      <4>2. Grows(toServer, r, {"input"}, OfKind("input", {typed'}))
        BY <1>2, <4>1, PieceSent
      <4>3. Numbers(r) = Numbers(toServer) \cup {typed'}
        BY <1>2, <4>1, PieceSent
      <4>4. ASSUME Rising(toServer), Before(Numbers(toServer), {typed'})
            PROVE  Rising(r)
        BY <1>2, <4>1, <4>4, InputSent
      <4>5. QED BY <4>2, <4>3, <4>4
    <3> HIDE DEF r
    <3>2. Rising(toServer) /\ Before(Numbers(toServer), {typed'})
      BY <1>2, <1>3 DEF IInv, Order, Before
    <3>3. CASE toServer' = toServer
      BY <3>2, <3>3, Known
    <3>4. CASE phase # "switching" /\ toServer' = r
      BY <3>1, <3>2, <3>4 DEF Grows, OfKind
    <3>5. QED BY <1>6, <3>3, <3>4
  <2>2. /\ channel' \in Channels
        /\ \A b \in Attempts :
             /\ channel'[b].far = channel[b].far /\ channel'[b].near = channel[b].near
             /\ channel'[b].down = channel[b].down
             /\ \A m \in Range(channel'[b].up) : m \in Range(channel[b].up) \/ (m.kind = "input" /\ m.n = typed')
             /\ Numbers(channel'[b].up) \subseteq Numbers(channel[b].up) \cup {typed'}
             /\ Rising(channel'[b].up)
             /\ channel'[b].up = channel[b].up \/ (phase = "active" /\ b = attempt)
    <3>1. \A b \in Attempts : Rising(channel[b].up)
      BY DEF IInv, Order
    <3>2. CASE channel' = channel
      BY <3>1, <3>2, Known
    <3>3. CASE phase = "active" /\ channel' = d
      <4>1. attempt \in Attempts
        BY <3>3, Known DEF IInv, Types, Rules
      <4> DEFINE s == channel[attempt].up \o Pieces("input", <<typed'>>)
      <4>2. /\ d \in Channels /\ d[attempt].up = s
            /\ \A b \in Attempts : /\ d[b].near = channel[b].near /\ d[b].far = channel[b].far
                                   /\ d[b].down = channel[b].down
                                   /\ b # attempt => d[b].up = channel[b].up
            /\ Numbers(s) = Numbers(channel[attempt].up) \cup {typed'}
            /\ Before(Numbers(channel[attempt].up), {typed'}) => Rising(s)
            /\ \A m \in Range(s) : m \in Range(channel[attempt].up) \/ (m.kind = "input" /\ m.n = typed')
        BY <1>2, <4>1, UpSent
      <4>3. Before(Numbers(channel[attempt].up), {typed'})
        BY <1>2, <1>3, <4>1 DEF Before
      <4> HIDE DEF s, d
      <4>4. QED BY <3>1, <3>3, <4>1, <4>2, <4>3
    <3>4. QED BY <1>6, <3>2, <3>3
  <2>3. /\ inputBuffer' \in Seq(1..typed') /\ Len(inputBuffer') <= Capacity
        /\ inputBuffer' # <<>> => phase = "switching"
        /\ Ascends(inputBuffer') /\ Range(inputBuffer') \subseteq Range(inputBuffer) \cup {typed'}
    <3> HIDE DEF r, d
    <3>1. inputBuffer \in Seq(1..typed') /\ Ascends(inputBuffer)
      BY <1>2, <1>3, Known DEF IInv, Order
    <3>2. CASE inputBuffer' = inputBuffer
      BY <3>1, <3>2 DEF IInv, Types, Streams, Rules
    <3>3. CASE /\ phase = "switching" /\ Len(inputBuffer) < Capacity
               /\ inputBuffer' = Append(inputBuffer, typed')
      <4>1. /\ inputBuffer' \in Seq(1..typed') /\ Range(inputBuffer') = Range(inputBuffer) \cup {typed'}
            /\ Ascends(inputBuffer') <=> (Ascends(inputBuffer) /\ \A y \in Range(inputBuffer) : y < typed')
        BY <1>2, <3>1, <3>3, Written
      <4>2. Len(inputBuffer') <= Capacity
        BY <1>3, <3>3, Known
      <4>3. QED BY <1>2, <1>3, <3>1, <3>3, <4>1, <4>2
    <3>4. QED BY <1>6, <3>2, <3>3
  <2>4. \/ inputBuffer' = inputBuffer /\ (phase # "switching" => inputBuffer = <<>>)
        \/ channel' = channel /\ toServer' = toServer
    BY <1>6 DEF IInv, Types, Rules
  <2> HIDE DEF r, d
  <2>5. Types'
    <3>1. ServerFlags' /\ BrowserFlags'
      BY <1>1, <1>4, <1>6 DEF IInv, Types, ServerFlags, BrowserFlags
    <3>2. Wires'
      BY <1>1, <2>1, <2>2, Known DEF Wires
    <3>3. Streams'
      <4>1. entered \in Seq(1..typed')
        BY <1>2 DEF IInv, Types, Streams
      <4>2. QED BY <1>1, <1>2, <1>4, <2>3, <4>1 DEF IInv, Types, Streams
    <3>4. Rules'
      BY <1>1, <1>4, <1>6, <2>3 DEF IInv, Types, Rules
    <3>5. QED BY <3>1, <3>2, <3>3, <3>4 DEF Types
  <2>6. Content'
    <3>1. \A m \in Range(toServer') : /\ m.kind \in {"input", "offer", "activate"}
                                      /\ m.kind = "input" => m.n \in 1..typed'
      BY <1>2, <2>1 DEF IInv, Content
    <3>2. \A a \in Attempts : \A m \in Range(channel'[a].up) : m.kind = "input" /\ m.n \in 1..typed'
      BY <1>2, <2>2 DEF IInv, Content
    <3>3. QED BY <1>1, <2>2, <3>1, <3>2 DEF IInv, Content
  <2>7. Offers'
    <3>1. \A m \in Range(toServer') : m.kind = "offer" => m \in Range(toServer)
      BY <2>1
    <3>2. transport # "websocket" => channel'[negotiation].far = channel[negotiation].far
      BY <2>2, Known DEF IInv, Types, Rules
    <3>3. QED BY <1>1, <1>4, <2>1, <2>2, <3>1, <3>2 DEF IInv, Offers
  <2>8. Switches'
    <3>1. Handed' => Handed
      BY <1>4, <1>6, <2>2 DEF Handed
    <3>2. negotiation # 0 => channel'[negotiation].far = channel[negotiation].far
      BY <2>2, Known
    <3>3. QED BY <1>1, <1>4, <2>1, <3>1, <3>2 DEF IInv, Switches
  <2>9. Paths'
    BY <1>1, <1>4, <1>6, <2>2 DEF IInv, Paths
  <2>10. Order'
    <3>1. Before(Range(entered), Range(inputBuffer'))
      BY <1>2, <1>3, <2>3 DEF IInv, Order, Before
    <3>2. Before(Numbers(toServer'), Range(inputBuffer'))
      <4>1. CASE inputBuffer' = <<>>
        BY <4>1, Nothing DEF Before
      <4>2. CASE toServer' = toServer
        BY <1>2, <1>3, <2>3, <4>2 DEF IInv, Order, Before
      <4>3. QED BY <2>1, <2>3, <4>1, <4>2
    <3>3. attached /\ transport # "webrtc" => Before(Range(entered), Numbers(toServer'))
      BY <1>2, <1>3, <2>1 DEF IInv, Order, Before
    <3>4. ASSUME NEW a \in Attempts
          PROVE  /\ Before(Range(entered), Numbers(channel'[a].up))
                 /\ Before(Numbers(channel'[a].up), Range(inputBuffer'))
      <4>1. Before(Range(entered), Numbers(channel'[a].up))
        BY <1>2, <1>3, <2>2 DEF IInv, Order, Before
      <4>2. CASE inputBuffer' = <<>>
        BY <4>1, <4>2, Nothing DEF Before
      <4>3. CASE channel'[a].up = channel[a].up
        <5>1. Before(Numbers(channel[a].up), Range(inputBuffer'))
          BY <1>2, <1>3, <2>3 DEF IInv, Order, Before
        <5>2. QED BY <4>1, <4>3, <5>1
      <4>4. QED BY <2>2, <2>3, <4>2, <4>3
    <3>5. Ascends(entered) /\ Ascends(inputBuffer') /\ Rising(toServer') /\ UNCHANGED <<entered, attached, transport>>
      BY <1>1, <1>4, <2>1, <2>3 DEF IInv, Order
    <3>6. \A a \in Attempts : Rising(channel'[a].up)
      BY <2>2
    <3>7. QED BY <3>1, <3>2, <3>3, <3>4, <3>5, <3>6 DEF Order
  <2>11. QED BY <2>5, <2>6, <2>7, <2>8, <2>9, <2>10 DEF IInv
<1>7. phase \in {"idle", "finding", "switching", "active", "closed"}
  BY DEF IInv, Types, BrowserFlags
<1>8. CASE phase = "switching" /\ Len(inputBuffer) < Capacity
  <2> HIDE DEF r, d
  <2>1. phase # "active" /\ ~(Len(inputBuffer) >= Capacity)
    BY <1>3, <1>8, Known
  <2>2. /\ inputBuffer' = Append(inputBuffer, typed')
        /\ UNCHANGED <<phase, channel, directActive, connected, toServer>>
    BY <1>8, <2>1, Zenon DEF sendTerminalData
  <2>3. QED BY <1>6, <1>8, <2>2
<1>9. CASE phase = "switching" /\ Len(inputBuffer) >= Capacity
  <2> HIDE DEF r, d
  <2>1. phase # "active" /\ ~(Len(inputBuffer) < Capacity)
    BY <1>3, <1>9, Known
  <2>2. fail(TRUE) /\ UNCHANGED toServer
    BY <1>9, <2>1, Zenon DEF sendTerminalData
  <2>3. QED BY <1>5, <1>9, <2>2
<1>10. CASE phase = "active"
  <2>1. phase # "switching"
    BY <1>10
  <2>2. /\ \/ channel' = d /\ UNCHANGED <<phase, inputBuffer, directActive, connected>>
           \/ fail(TRUE)
        /\ UNCHANGED toServer
    BY <1>10, <2>1, Zenon DEF sendTerminalData
  <2> HIDE DEF r, d
  <2>3. QED BY <1>5, <1>6, <1>10, <2>2
<1>11. CASE phase # "active" /\ phase # "switching"
  <2>1. toServer' = r /\ UNCHANGED <<phase, channel, inputBuffer, directActive, connected>>
    BY <1>11, Zenon DEF sendTerminalData
  <2> HIDE DEF r, d
  <2>2. QED BY <1>6, <1>11, <2>1
<1>12. Len(inputBuffer) < Capacity \/ Len(inputBuffer) >= Capacity
  BY <1>3, Known
<1>13. QED BY <1>8, <1>9, <1>10, <1>11, <1>12
-----------------------------------------------------------------------------
(* The theorems.                                                           *)

\* Nothing was written or typed, and nobody negotiates.
LEMMA InitHolds ==
  ASSUME Init
  PROVE  IInv
<1>1. /\ attached = TRUE /\ transport = "websocket" /\ negotiation = 0 /\ answering = {}
      /\ outputBuffer = <<>> /\ lease = "none"
      /\ connected = TRUE /\ phase = "idle" /\ attempt = 0 /\ offered = 0 /\ answered = 0
      /\ directActive = FALSE /\ inputBuffer = <<>>
      /\ toClient = <<>> /\ toServer = <<>>
      /\ written = 0 /\ shown = <<>> /\ typed = 0 /\ entered = <<>>
  BY DEF Init
<1>2. /\ channel \in Channels
      /\ \A a \in Attempts : /\ channel[a].near = "new" /\ channel[a].far = "new"
                             /\ channel[a].down = <<>> /\ channel[a].up = <<>>
  BY DEF Init, Channels, Ends
<1>3. /\ \A k, l : Single(<<>>, k) /\ InTurn(<<>>, k, l)
      /\ Rising(<<>>)
      /\ \A A : Before({}, A) /\ Before(A, {})
  BY DEF Single, InTurn, Rising, Before
<1>4. Types
  <2>1. ServerFlags /\ BrowserFlags
    <3>1. 0 \in 0..MaxAttempts /\ 0 \in 0..0
      BY TransportAssumption
    <3>2. QED BY <1>1, <3>1 DEF ServerFlags, BrowserFlags
  <2>2. Wires
    BY <1>1, <1>2 DEF Wires
  <2>3. Streams
    BY <1>1, Nothing, TransportAssumption DEF Streams
  <2>4. Rules
    BY <1>1 DEF Rules
  <2>5. QED BY <2>1, <2>2, <2>3, <2>4 DEF Types
<1>5. Content
  BY <1>1, <1>2, Nothing DEF Content
<1>6. Offers
  BY <1>1, <1>2, <1>3, Nothing DEF Offers
<1>7. Switches
  BY <1>1, <1>2, <1>3, Nothing DEF Switches
<1>8. Paths
  BY <1>1, <1>2 DEF Paths
<1>9. Order
  BY <1>1, <1>2, <1>3, Nothing DEF Order
<1>10. QED BY <1>4, <1>5, <1>6, <1>7, <1>8, <1>9 DEF IInv

\* A step that leaves everything alone.
LEMMA StutterKeeps ==
  ASSUME IInv, UNCHANGED vars
  PROVE  IInv'
<1>1. /\ UNCHANGED <<attached, transport, negotiation, answering, outputBuffer, lease>>
      /\ UNCHANGED <<connected, phase, attempt, offered, answered, directActive, inputBuffer>>
      /\ UNCHANGED <<toClient, toServer, channel, written, shown, typed, entered>>
  BY DEF vars, server, browser, user
<1>2. Closes(channel') /\ lease' \in {"none", "fresh", "due"}
  BY <1>1, Known, Closings DEF IInv, Types, ServerFlags
<1>3. QED BY <1>1, <1>2, Same, NothingStarts

\* Every step keeps the invariant.
LEMMA NextKeeps ==
  ASSUME IInv, [Next]_vars
  PROVE  IInv'
<1>1. CASE ServerStep
  <2>1. CASE negotiationTimer \/ AttachmentEnds \/ LeaseElapses \/ LeaseExpires \/ renewLease
    BY <2>1, TimersKeep
  <2>2. CASE message \/ routeTerminalOutput
    BY <2>2, MessageKeeps, RouteTerminalOutputKeeps
  <2>3. CASE \E a \in Attempts :
               createAnswer(a) \/ acceptDataChannel(a) \/ farCloses(a) \/ handleDataChannelMessage(a)
    BY <2>3, CreateAnswerKeeps, AcceptDataChannelKeeps, FarClosesKeeps, HandleDataChannelMessageKeeps
  <2>4. QED BY <1>1, <2>1, <2>2, <2>3, Zenon DEF ServerStep
<1>2. CASE BrowserStep
  <2>1. CASE start \/ sendOffer \/ socketMessage \/ handleChannelMessage
    BY <2>1, StartKeeps, SendOfferKeeps, SocketMessageKeeps, HandleChannelMessageKeeps
  <2>2. CASE sendTerminalData \/ nearCloses \/ socketCloses
    BY <2>2, SendTerminalDataKeeps, NearClosesKeeps, SocketClosesKeeps
  <2>3. CASE \E a \in Attempts : nearOpens(a)
    BY <2>3, NearOpensKeeps
  <2>4. QED BY <1>2, <2>1, <2>2, <2>3, Zenon DEF BrowserStep
<1>3. CASE UNCHANGED vars
  BY <1>3, StutterKeeps
<1>4. QED BY <1>1, <1>2, <1>3 DEF Next

\* The invariant is one of the specification.
LEMMA Invariant ==
  Spec => []IInv
<1>1. Init => IInv
  BY InitHolds
<1>2. IInv /\ [Next]_vars => IInv'
  BY NextKeeps
<1>3. QED BY <1>1, <1>2, PTL DEF Spec

\* Input reaches the program in the order it was typed and never twice (handleDataChannelMessage and
\* message of TerminalAttachmentManager): over the WebSocket, over the channel, across a switch and
\* after a failed one, for any number of attempts and any capacity of the buffers.
THEOREM InputStaysInOrder ==
  Spec => []InputInOrder
<1>1. IInv => InputInOrder
  BY DEF IInv, Order, Ascends, InputInOrder
<1>2. QED BY <1>1, Invariant, PTL

\* A browser that sends on the direct path (directActive of useTerminalAttachment) has a server that
\* listens on it for the same negotiation, or whose attachment is over; and every flag, buffer and
\* stream has its type.
THEOREM PathsStayAgreed ==
  Spec => []PathsAgree
<1>1. IInv => PathsAgree
  <2>1. IInv => TypeOK
    BY TypesAre DEF IInv
  <2>2. IInv => (directActive => ~attached \/ (transport = "webrtc" /\ negotiation = attempt))
    BY DEF IInv, Types, Rules, Paths
  <2>3. QED BY <2>1, <2>2 DEF PathsAgree
<1>2. QED BY <1>1, Invariant, PTL

-----------------------------------------------------------------------------
(* Output arrives in order and without a gap (OutputPiped).                *)

\* The switch to the channel is under way to the server, or made.
Turned == transport = "webrtc" \/ (transport = "switching" /\ Has(toServer, "activate"))

\* Where output may be: none follows the announcement of a switch on the WebSocket, none is left
\* there once the stream is handed over, and the channel carries it only to an end that was opened,
\* of an attempt the browser did not give up.
Flow ==
  /\ transport # "websocket" => FollowedBy(toClient, "output", "switch")
  /\ Handed => ~Has(toClient, "output")
  /\ Turned => /\ channel[negotiation].near # "new"
               /\ attempt = negotiation /\ channel[negotiation].near = "open" => phase \in {"switching", "active"}
  /\ \A a \in Attempts : /\ channel[a].down # <<>> => channel[a].near # "new"
                         /\ a < attempt \/ (a = attempt /\ phase \in {"idle", "closed"}) => channel[a].near = "closed"

\* What a connection carries of the output: by its first message, and as messages
LEMMA OutputIn ==
  ASSUME NEW q \in Seq(Message)
  PROVE  /\ OutputOn(q) \in Seq(Nat)
         /\ ~Has(q, "output") => OutputOn(q) = <<>>
         /\ \A m \in Message : m.kind # "output" => OutputOn(Append(q, m)) = OutputOn(q)
         /\ q # <<>> /\ Head(q).kind # "output" => OutputOn(Tail(q)) = OutputOn(q)
         /\ q # <<>> /\ Head(q).kind = "output" =>
              /\ OutputOn(q) = <<Head(q).n>> \o OutputOn(Tail(q))
              /\ Head(q).n \in Nat
         /\ q # <<>> => OutputOn(Tail(q)) \in Seq(Nat)
<1>1. \A m \in Message : m.n \in Nat
  BY DEF Message
<1>2. QED BY <1>1, StreamIn

\* and pieces are sent.
LEMMA OutputJoined ==
  ASSUME NEW q \in Seq(Message), NEW b \in Seq(Nat)
  PROVE  /\ OutputOn(q \o Pieces("output", b)) = OutputOn(q) \o b
         /\ \A m \in Message : m.kind # "output" => OutputOn(q \o <<m>> \o Pieces("output", b)) = OutputOn(q) \o b
<1> DEFINE p == Pieces("output", b)
<1>1. p \in Seq(Message) /\ Packs(p, "output", b)
  <2>1. "output" \in Kinds
    BY DEF Kinds
  <2>2. p \in Seq(Message)
    BY <2>1, PiecesParts
  <2>3. QED BY <2>2 DEF Packs, Pieces
<1>2. \A m \in Message : m.n \in Nat
  BY DEF Message
<1> HIDE DEF p
<1>3. /\ OutputOn(q \o p) = OutputOn(q) \o b
      /\ \A m \in Message : m.kind # "output" => OutputOn(q \o <<m>> \o p) = OutputOn(q) \o b
  BY <1>1, <1>2, StreamJoined
<1>4. QED BY <1>3 DEF p

\* The queue of the pipe, of the connections.
Queue(ws, held, direct) == OutputOn(ws) \o held \o OutputOn(direct)

\* It is one.
LEMMA QueueIs ==
  /\ OnItsWay = IF connected THEN Queue(toClient, outputBuffer, Direct) ELSE <<>>
  /\ OnItsWay' = IF connected' THEN Queue(toClient', outputBuffer', Direct') ELSE <<>>
BY DEF OnItsWay, Queue, OutputOn

\* A step of the pipe, or none.
Piped == Pipe!Next \/ UNCHANGED Pipe!vars

\* The connection ends with what is left of the queue.
LEMMA Cuts ==
  ASSUME OnItsWay' \in Seq(Nat), NEW r \in Seq(Nat), OnItsWay = OnItsWay' \o r,
         ~Joined', written' \in {written, written + 1}, shown' = shown
  PROVE  Piped
<1>1. \E kept \in 0..Len(OnItsWay) : OnItsWay' = SubSeq(OnItsWay, 1, kept)
  BY PrefixKept
<1>2. Joined' = FALSE
  BY DEF Joined
<1>3. Pipe!Cut
  BY <1>1, <1>2 DEF Pipe!Cut
<1>4. QED BY <1>3 DEF Piped, Pipe!Next

\* Nothing happens to the stream.
LEMMA Rests ==
  ASSUME Joined' <=> Joined, OnItsWay' = OnItsWay, UNCHANGED <<written, shown>>
  PROVE  Piped
<1>1. Joined' = Joined
  BY DEF Joined
<1>2. QED BY <1>1 DEF Piped, Pipe!vars

\* The terminal writes to the end of the queue, or to no queue, or meets the full buffer of a switch.
LEMMA Writes ==
  ASSUME Joined' <=> Joined, written' = written + 1, shown' = shown,
         \/ Joined /\ OnItsWay' = Append(OnItsWay, written')
         \/ (Joined => BufferFull) /\ OnItsWay' = OnItsWay
  PROVE  Piped
<1>1. Joined' = Joined
  BY DEF Joined
<1>2. Pipe!Write
  BY <1>1 DEF Pipe!Write
<1>3. QED BY <1>2 DEF Piped, Pipe!Next

\* The screen shows the first piece of the queue.
LEMMA Shows ==
  ASSUME Joined' <=> Joined, UNCHANGED written, NEW n \in Nat, OnItsWay' \in Seq(Nat),
         OnItsWay = <<n>> \o OnItsWay', shown' = Append(shown, n)
  PROVE  Piped
<1>1. Joined' = Joined
  BY DEF Joined
<1>2. \A s \in Seq(Nat) : <<n>> \o s # <<>> /\ Head(<<n>> \o s) = n /\ Tail(<<n>> \o s) = s
  BY HeadJoined
<1>3. OnItsWay # <<>> /\ Head(OnItsWay) = n /\ Tail(OnItsWay) = OnItsWay'
  BY <1>2
<1>4. Pipe!Show
  BY <1>1, <1>3 DEF Pipe!Show
<1>5. QED BY <1>4 DEF Piped, Pipe!Next

\* What the invariant says of the three parts of the queue.
LEMMA Ways ==
  ASSUME IInv
  PROVE  /\ toClient \in Seq(Message) /\ toServer \in Seq(Message) /\ Direct \in Seq(Message)
         /\ outputBuffer \in Seq(Nat) /\ OutputOn(toClient) \in Seq(Nat) /\ OutputOn(Direct) \in Seq(Nat)
         /\ OnItsWay \in Seq(Nat)
         /\ attached /\ transport # "webrtc" => /\ OutputOn(Direct) = <<>>
                                                /\ \A a \in Attempts : channel[a].down = <<>>
         /\ transport # "switching" => outputBuffer = <<>>
         /\ ~attached => transport = "websocket"
         /\ attempt # 0 => attempt \in Attempts
         /\ transport # "websocket" => negotiation \in Attempts /\ negotiation <= attempt
<1>1. toClient \in Seq(Message) /\ toServer \in Seq(Message) /\ Direct \in Seq(Message)
  BY Known DEF Direct
<1>2. outputBuffer \in Seq(Nat)
  <2>1. outputBuffer \in Seq(1..written) /\ 1..written \subseteq Nat
    BY Known DEF IInv, Types, Streams
  <2>2. QED BY <2>1, SeqMonotonic
<1>3. OutputOn(toClient) \in Seq(Nat) /\ OutputOn(Direct) \in Seq(Nat)
  BY <1>1, OutputIn
<1>4. Queue(toClient, outputBuffer, Direct) \in Seq(Nat)
  BY <1>2, <1>3, QueueParts DEF Queue
<1>5. <<>> \in Seq(Nat)
  OBVIOUS
<1>6. OnItsWay \in Seq(Nat)
  BY <1>4, <1>5, QueueIs
<1>7. ASSUME attached, transport # "webrtc"
      PROVE  OutputOn(Direct) = <<>> /\ \A a \in Attempts : channel[a].down = <<>>
  <2>1. \A a \in Attempts : channel[a].down = <<>>
    BY <1>7 DEF IInv, Paths
  <2>2. Direct = <<>>
    BY <2>1, Known DEF Direct
  <2>3. QED BY <1>1, <2>1, <2>2, OutputIn, Nothing
<1>8. transport # "switching" => outputBuffer = <<>>
  BY DEF IInv, Types, Rules
<1>9. ~attached => transport = "websocket"
  BY DEF IInv, Types, Rules
<1>10. transport # "websocket" => negotiation \in Attempts /\ negotiation <= attempt
  <2>1. transport # "websocket" => negotiation # 0
    BY DEF IInv, Types, Rules
  <2>2. negotiation <= attempt
    BY Known
  <2>3. QED BY <2>1, <2>2, Known
<1>11. QED BY <1>1, <1>2, <1>3, <1>6, <1>7, <1>8, <1>9, <1>10, Known

\* The channel of the browser carries what it did.
LEMMA DirectSame ==
  ASSUME IInv, attempt' = attempt,
         attempt # 0 => /\ channel'[attempt].near = "open" <=> channel[attempt].near = "open"
                        /\ channel'[attempt].down = channel[attempt].down
  PROVE  Direct' = Direct
BY DEF Direct

\* The server's ends of channels close: what is under way on them stays.
LEMMA Closed ==
  ASSUME IInv
  PROVE  \A d \in {channel, Disposed} \cup {[channel EXCEPT ![a].far = "closed"] : a \in Attempts} :
           \A b \in Attempts : d[b].near = channel[b].near /\ d[b].down = channel[b].down
<1>1. ASSUME NEW a \in Attempts, NEW e \in Ends, NEW b \in Attempts
      PROVE  LET d == [channel EXCEPT ![a].far = e]
             IN d[b].near = channel[b].near /\ d[b].down = channel[b].down
  <2> DEFINE d == [channel EXCEPT ![a].far = e]
  <2>1. channel \in Channels
    BY Known
  <2>2. /\ Other(d, a) /\ d[a].near = channel[a].near /\ d[a].down = channel[a].down
    BY <2>1, FarSet
  <2> HIDE DEF d
  <2>3. d[b].near = channel[b].near /\ d[b].down = channel[b].down
    BY <2>2 DEF Other
  <2>4. QED BY <2>3 DEF d
<1>2. \A a \in Attempts : channel[a].far \in Ends /\ "closed" \in Ends
  BY Known DEF Ends
<1>3. ASSUME NEW a \in Attempts, NEW b \in Attempts
      PROVE  Hangup(a)[b].near = channel[b].near /\ Hangup(a)[b].down = channel[b].down
  <2>1. CASE channel[a].far = "open"
    <3>1. Hangup(a) = [channel EXCEPT ![a].far = "closed"]
      BY <2>1 DEF Hangup
    <3>2. QED BY <1>1, <1>2, <3>1
  <2>2. CASE channel[a].far # "open"
    <3>1. Hangup(a) = [channel EXCEPT ![a].far = channel[a].far]
      BY <2>2 DEF Hangup
    <3>2. QED BY <1>1, <1>2, <3>1
  <2>3. QED BY <2>1, <2>2
<1>4. \A b \in Attempts : Disposed[b].near = channel[b].near /\ Disposed[b].down = channel[b].down
  BY <1>3, Known DEF Disposed
<1>5. \A a \in Attempts, b \in Attempts :
        LET d == [channel EXCEPT ![a].far = "closed"]
        IN d[b].near = channel[b].near /\ d[b].down = channel[b].down
  BY <1>1, <1>2
<1>6. SUFFICES ASSUME NEW d \in {channel, Disposed} \cup {[channel EXCEPT ![a].far = "closed"] : a \in Attempts},
                      NEW b \in Attempts
               PROVE  d[b].near = channel[b].near /\ d[b].down = channel[b].down
  OBVIOUS
<1>7. CASE d \in {channel, Disposed}
  BY <1>4, <1>7
<1>8. ASSUME NEW a \in Attempts, d = [channel EXCEPT ![a].far = "closed"]
      PROVE  d[b].near = channel[b].near /\ d[b].down = channel[b].down
  BY <1>5, <1>8
<1>9. QED BY <1>6, <1>7, <1>8

-----------------------------------------------------------------------------
(* Steps that give the direct path up.                                     *)

\* The server's: output that was held back goes to the WebSocket, or is lost with the attachment.
LEMMA ServerFlows ==
  ASSUME IInv, Flow, transport' = "websocket", UNCHANGED <<attempt, phase>>,
         \A b \in Attempts : channel'[b].near = channel[b].near /\ channel'[b].down = channel[b].down,
         Handed => ~Has(toClient', "output")
  PROVE  Flow'
<1>1. Handed' => Handed
  BY DEF Handed
<1>2. ~Turned'
  BY DEF Turned
<1>3. QED BY <1>1, <1>2 DEF Flow

\* The browser's: it closes its end of the channel.
LEMMA BrowserFlows ==
  ASSUME IInv, Flow, phase' \in {"idle", "closed"}, UNCHANGED <<attempt, transport, negotiation>>,
         \A b \in Attempts : /\ channel'[b].down = channel[b].down
                             /\ channel'[b].near = IF b = attempt THEN "closed" ELSE channel[b].near,
         FollowedBy(toClient, "output", "switch") => FollowedBy(toClient', "output", "switch"),
         Has(toClient', "output") => Has(toClient, "output"),
         Has(toServer', "activate") => Has(toServer, "activate")
  PROVE  Flow'
<1>1. Handed' => Handed
  BY DEF Handed
<1>2. Turned' => Turned
  BY DEF Turned
<1>3. Turned => negotiation \in Attempts
  BY Ways DEF Turned
<1>4. Turned' => /\ channel'[negotiation].near # "new"
                 /\ ~(attempt = negotiation /\ channel'[negotiation].near = "open")
  BY <1>2, <1>3 DEF Flow
<1>5. \A a \in Attempts : /\ channel'[a].down # <<>> => channel'[a].near # "new"
                          /\ a < attempt \/ a = attempt => channel'[a].near = "closed"
  BY DEF Flow
<1>6. QED BY <1>1, <1>4, <1>5 DEF Flow

\* Neither half gives anything up, and the stream stays where it is.
LEMMA QuietFlows ==
  ASSUME IInv, Flow, UNCHANGED <<attempt, phase, transport>>,
         transport # "websocket" => negotiation' = negotiation,
         \A b \in Attempts : /\ channel'[b].near = channel[b].near
                             /\ channel'[b].down # <<>> =>
                                  channel[b].down # <<>> \/ (transport = "webrtc" /\ b = negotiation),
         transport # "websocket" /\ FollowedBy(toClient, "output", "switch")
           => FollowedBy(toClient', "output", "switch"),
         Handed /\ Has(toClient', "output") => Has(toClient, "output"),
         Has(toServer', "activate") => Has(toServer, "activate")
  PROVE  Flow'
<1>1. Handed' => Handed
  BY DEF Handed
<1>2. Turned' => Turned
  BY DEF Turned
<1>3. Turned => negotiation \in Attempts /\ negotiation' = negotiation
  BY Ways DEF Turned
<1>4. Turned' => /\ channel'[negotiation'].near # "new"
                 /\ attempt = negotiation' /\ channel'[negotiation'].near = "open" => phase \in {"switching", "active"}
  BY <1>2, <1>3 DEF Flow
<1>5. transport = "webrtc" => channel[negotiation].near # "new"
  BY DEF Flow, Turned
<1>6. \A a \in Attempts : channel'[a].down # <<>> => channel'[a].near # "new"
  BY <1>5 DEF Flow
<1>7. \A a \in Attempts : a < attempt \/ (a = attempt /\ phase \in {"idle", "closed"}) => channel'[a].near = "closed"
  BY DEF Flow
<1>8. QED BY <1>1, <1>4, <1>6, <1>7 DEF Flow

\* destroyAttachment cuts the pipe.
LEMMA DestroyedFlows ==
  ASSUME IInv, Flow, destroyAttachment, UNCHANGED <<browser, shown>>, written' \in {written, written + 1}
  PROVE  Flow' /\ Piped
<1>1. /\ outputBuffer' = <<>> /\ transport' = "websocket" /\ attached' = FALSE /\ channel' = Disposed
      /\ toClient' = toClient /\ UNCHANGED <<connected, phase, attempt>>
  BY DEF destroyAttachment, disposeWebRtc, browser
<1>2. \A b \in Attempts : channel'[b].near = channel[b].near /\ channel'[b].down = channel[b].down
  BY <1>1, Closed
<1>3. Flow'
  BY <1>1, <1>2, ServerFlows DEF Flow
<1>4. Direct' = Direct
  BY <1>1, <1>2, Ways, DirectSame
<1> DEFINE A == OutputOn(toClient)
           B == outputBuffer
           D == OutputOn(Direct)
<1>5. A \in Seq(Nat) /\ B \in Seq(Nat) /\ D \in Seq(Nat) /\ <<>> \in Seq(Nat)
  BY Ways
<1>6. D = <<>> \/ B = <<>>
  BY Ways
<1>7. /\ OnItsWay = IF connected THEN A \o B \o D ELSE <<>>
      /\ OnItsWay' = IF connected THEN A \o <<>> \o D ELSE <<>>
  <2>1. OnItsWay' = IF connected THEN Queue(toClient, <<>>, Direct) ELSE <<>>
    BY <1>1, <1>4, QueueIs
  <2>2. QED BY <2>1, QueueIs DEF Queue
<1> HIDE DEF A, B, D
<1>8. \E r \in Seq(Nat) : OnItsWay = OnItsWay' \o r
  <2>1. CASE ~connected
    <3>1. <<>> \o <<>> = <<>>
      BY <1>5, ConcatEmptySeq
    <3>2. QED BY <1>5, <1>7, <2>1, <3>1
  <2>2. CASE connected /\ B = <<>>
    <3>1. A \o <<>> \o D \in Seq(Nat)
      BY <1>5, QueueParts
    <3>2. A \o <<>> \o D \o <<>> = A \o <<>> \o D
      BY <3>1, ConcatEmptySeq
    <3>3. QED BY <1>5, <1>7, <2>2, <3>2
  <2>3. CASE connected /\ D = <<>>
    <3>1. A \o B \o <<>> = A \o B /\ A \o <<>> \o <<>> = A
      BY <1>5, QueueParts
    <3>2. QED BY <1>5, <1>7, <2>3, <3>1
  <2>4. QED BY <1>6, <2>1, <2>2, <2>3
<1>9. OnItsWay' \in Seq(Nat)
  <2>1. A \o <<>> \o D \in Seq(Nat)
    BY <1>5, QueueParts
  <2>2. QED BY <1>5, <1>7, <2>1
<1>10. ~Joined'
  BY <1>1 DEF Joined
<1>11. Piped
  BY <1>8, <1>9, <1>10, Cuts
<1>12. QED BY <1>3, <1>11

\* fallbackNegotiation moves what was held back to the WebSocket: nothing happens to the queue.
LEMMA FallsBackFlows ==
  ASSUME IInv, Flow, disposeWebRtc, attached' = attached, transport # "webrtc",
         toClient' = toClient \o <<Say("unavailable")>> \o Pieces("output", outputBuffer),
         UNCHANGED browser
  PROVE  Flow' /\ OnItsWay' = OnItsWay /\ (Joined' <=> Joined)
<1>1. /\ outputBuffer' = <<>> /\ transport' = "websocket" /\ channel' = Disposed
      /\ UNCHANGED <<connected, phase, attempt>>
  BY DEF disposeWebRtc, browser
<1>2. \A b \in Attempts : channel'[b].near = channel[b].near /\ channel'[b].down = channel[b].down
  BY <1>1, Closed
<1> DEFINE A == OutputOn(toClient)
           B == outputBuffer
           D == OutputOn(Direct)
<1>3. A \in Seq(Nat) /\ B \in Seq(Nat) /\ D \in Seq(Nat) /\ <<>> \in Seq(Nat)
  BY Ways
<1>4. OutputOn(toClient') = A \o B
  <2>1. Say("unavailable") \in Message /\ Say("unavailable").kind # "output"
    BY Messages DEF Kinds
  <2>2. QED BY <2>1, Ways, OutputJoined
<1>5. B = <<>> \/ (D = <<>> /\ ~Handed)
  <2>1. B # <<>> => attached
    BY Ways
  <2>2. attached => D = <<>> /\ \A a \in Attempts : channel[a].down = <<>>
    BY Ways
  <2>3. attached => phase # "active"
    BY DEF IInv, Paths
  <2>4. QED BY <2>1, <2>2, <2>3 DEF Handed
<1>6. Flow'
  <2>1. ASSUME Handed
        PROVE  ~Has(toClient', "output")
    <3>1. B = <<>> /\ ~Has(toClient, "output")
      BY <1>5, <2>1 DEF Flow
    <3>2. Grows(toClient, toClient', {"unavailable", "output"}, Fallbacks({}))
      <4>1. outputBuffer \in Seq({}) /\ {} \in SUBSET Nat
        BY <3>1
      <4>2. QED BY <4>1, Ways, FallbackSent
    <3>3. Range(toClient') \subseteq Range(toClient) \cup Fallbacks({})
      BY <3>2 DEF Grows
    <3>4. QED BY <3>1, <3>3 DEF Has, Fallbacks
  <2>2. QED BY <1>1, <1>2, <2>1, ServerFlows
<1>7. Direct' = Direct
  BY <1>1, <1>2, Ways, DirectSame
<1>8. /\ OnItsWay = IF connected THEN A \o B \o D ELSE <<>>
      /\ OnItsWay' = IF connected THEN A \o B \o <<>> \o D ELSE <<>>
  <2>1. OnItsWay' = IF connected THEN OutputOn(toClient') \o <<>> \o OutputOn(Direct) ELSE <<>>
    BY <1>1, <1>7, QueueIs DEF Queue
  <2>2. QED BY <1>4, <2>1, QueueIs DEF Queue
<1> HIDE DEF A, B, D
<1>9. OnItsWay' = OnItsWay
  <2>1. A \o B \o <<>> = A \o B
    BY <1>3, QueueParts
  <2>2. QED BY <1>8, <2>1
<1>10. Joined' <=> Joined
  BY <1>1 DEF Joined
<1>11. QED BY <1>6, <1>9, <1>10

\* fail closes the browser's end of the channel, and takes the WebSocket with an active path.
LEMMA FailFlows ==
  ASSUME IInv, Flow, NEW f \in BOOLEAN, fail(f),
         UNCHANGED <<attached, transport, negotiation, outputBuffer, attempt, written, shown>>,
         OutputOn(toClient') = OutputOn(toClient),
         FollowedBy(toClient, "output", "switch") => FollowedBy(toClient', "output", "switch"),
         Has(toClient', "output") => Has(toClient, "output"),
         Has(toServer', "activate") => Has(toServer, "activate")
  PROVE  Flow' /\ Piped
<1> DEFINE A == OutputOn(toClient)
           B == outputBuffer
           D == OutputOn(Direct)
<1>1. A \in Seq(Nat) /\ B \in Seq(Nat) /\ D \in Seq(Nat) /\ <<>> \in Seq(Nat) /\ OnItsWay \in Seq(Nat)
  BY Ways
<1>2. CASE phase = "closed"
  <2>1. UNCHANGED <<phase, channel, connected>>
    BY <1>2 DEF fail
  <2>2. Flow'
    BY <2>1, QuietFlows
  <2>3. Direct' = Direct
    BY <2>1, DirectSame
  <2>4. OnItsWay' = OnItsWay
    BY <2>1, <2>3, QueueIs DEF Queue
  <2>5. Joined' <=> Joined
    BY <2>1 DEF Joined
  <2>6. QED BY <2>2, <2>4, <2>5, Rests
<1>3. CASE phase # "closed"
  <2>1. /\ phase' = "idle" /\ connected' = (connected /\ ~f)
        /\ channel' = IF attempt = 0 THEN channel ELSE [channel EXCEPT ![attempt].near = "closed"]
    BY <1>3 DEF fail
  <2>2. \A b \in Attempts : /\ channel'[b].down = channel[b].down
                            /\ channel'[b].near = IF b = attempt THEN "closed" ELSE channel[b].near
    <3>1. CASE attempt = 0
      BY <2>1, <3>1, Known
    <3>2. CASE attempt # 0
      <4>1. attempt \in Attempts /\ channel \in Channels /\ "closed" \in Ends
        BY <3>2, Known DEF Ends
      <4>2. channel' = [channel EXCEPT ![attempt].near = "closed"]
        BY <2>1, <3>2
      <4>3. /\ Other(channel', attempt) /\ channel'[attempt].near = "closed"
            /\ channel'[attempt].down = channel[attempt].down
        BY <4>1, <4>2, NearSet
      <4>4. QED BY <4>3 DEF Other
    <3>3. QED BY <3>1, <3>2
  <2>3. Flow'
    BY <2>1, <2>2, BrowserFlows
  <2>4. OutputOn(Direct') = <<>>
    <3>1. Direct' = <<>>
      BY <2>2, Known DEF Direct
    <3>2. OutputOn(<<>>) = <<>>
      <4>1. <<>> \in Seq(Message)
        OBVIOUS
      <4>2. QED BY <4>1, OutputIn, Nothing
    <3>3. QED BY <3>1, <3>2
  <2>5. /\ OnItsWay = IF connected THEN A \o B \o D ELSE <<>>
        /\ OnItsWay' = IF connected' THEN A \o B \o <<>> ELSE <<>>
    BY <2>4, QueueIs DEF Queue
  <2>6. Joined' => attached /\ transport # "webrtc" /\ connected'
    BY <2>1 DEF Joined
  <2>7. connected' => connected
    BY <2>1 DEF IInv, Types, BrowserFlags
  <2>8. attached /\ transport # "webrtc" => D = <<>>
    BY Ways
  <2> HIDE DEF A, B, D
  <2>9. CASE ~connected'
    <3>1. OnItsWay' = <<>> /\ ~Joined'
      BY <2>5, <2>6, <2>9
    <3>2. <<>> \o OnItsWay = OnItsWay
      BY <1>1, ConcatEmptySeq
    <3>3. QED BY <1>1, <2>3, <3>1, <3>2, Cuts
  <2>10. CASE connected' /\ attached /\ transport # "webrtc"
    <3>1. OnItsWay' = OnItsWay
      BY <2>5, <2>7, <2>8, <2>10
    <3>2. Joined' <=> Joined
      BY <2>7, <2>10 DEF Joined
    <3>3. QED BY <2>3, <3>1, <3>2, Rests
  <2>11. CASE connected' /\ ~(attached /\ transport # "webrtc")
    <3>1. A \o B \o <<>> = A \o B /\ A \o B \in Seq(Nat)
      BY <1>1, QueueParts
    <3>2. OnItsWay' \in Seq(Nat) /\ OnItsWay = OnItsWay' \o D
      BY <2>5, <2>7, <2>11, <3>1
    <3>3. ~Joined'
      BY <2>6, <2>11
    <3>4. QED BY <1>1, <2>3, <3>2, <3>3, Cuts
  <2>12. QED BY <2>9, <2>10, <2>11
<1>4. QED BY <1>2, <1>3

-----------------------------------------------------------------------------
(* The server's steps.                                                     *)

\* Timers, leases and the end of an attachment.
LEMMA TimersFlow ==
  ASSUME IInv, Flow, negotiationTimer \/ AttachmentEnds \/ LeaseElapses \/ LeaseExpires \/ renewLease
  PROVE  Flow' /\ Piped
<1>1. CASE negotiationTimer
  <2>1. /\ fallbackNegotiation /\ transport # "webrtc" /\ UNCHANGED browser /\ UNCHANGED <<written, shown>>
    BY <1>1 DEF negotiationTimer, user
  <2>2. Flow' /\ OnItsWay' = OnItsWay /\ (Joined' <=> Joined)
    BY <2>1, FallsBackFlows DEF fallbackNegotiation
  <2>3. QED BY <2>1, <2>2, Rests
<1>2. CASE AttachmentEnds \/ LeaseExpires
  <2>1. destroyAttachment /\ UNCHANGED browser /\ UNCHANGED <<written, shown>>
    BY <1>2 DEF AttachmentEnds, LeaseExpires, user
  <2>2. QED BY <2>1, DestroyedFlows
<1>3. CASE LeaseElapses \/ renewLease
  <2>1. UNCHANGED <<attached, transport, negotiation, outputBuffer, connected, phase, attempt,
                    written, shown, toClient, toServer, channel>>
    BY <1>3 DEF LeaseElapses, renewLease, browser, user
  <2>2. Flow'
    BY <2>1, QuietFlows
  <2>3. OnItsWay' = OnItsWay /\ (Joined' <=> Joined)
    BY <2>1 DEF OnItsWay, Direct, Joined
  <2>4. QED BY <2>1, <2>2, <2>3, Rests
<1>4. QED BY <1>1, <1>2, <1>3

\* Everything of the queue and of the two halves stays.
LEMMA Stays ==
  ASSUME IInv, UNCHANGED <<attached, connected, transport, outputBuffer, phase, attempt, written, shown>>,
         transport # "websocket" => negotiation' = negotiation,
         OutputOn(toClient') = OutputOn(toClient),
         \A b \in Attempts : channel'[b].near = channel[b].near /\ channel'[b].down = channel[b].down
  PROVE  Piped
<1>1. Direct' = Direct
  BY Ways, DirectSame
<1>2. OnItsWay' = OnItsWay
  BY <1>1, QueueIs DEF Queue
<1>3. Joined' <=> Joined
  BY Ways DEF Joined
<1>4. QED BY <1>2, <1>3, Rests

\* A message without output, or a switch, does not disturb it.
LEMMA SentBeside ==
  ASSUME IInv, NEW m \in Message, m.kind # "output"
  PROVE  /\ OutputOn(Append(toClient, m)) = OutputOn(toClient)
         /\ FollowedBy(toClient, "output", "switch") => FollowedBy(Append(toClient, m), "output", "switch")
         /\ Has(Append(toClient, m), "output") => Has(toClient, "output")
<1>1. OutputOn(Append(toClient, m)) = OutputOn(toClient)
  BY Ways, OutputIn
<1>2. FollowedBy(toClient, "output", "switch") => FollowedBy(Append(toClient, m), "output", "switch")
  BY Ways, FollowedParts
<1>3. Has(Append(toClient, m), "output") => Has(toClient, "output")
  BY Ways, Sent
<1>4. QED BY <1>1, <1>2, <1>3

\* A message of the WebSocket is read that moves no output.
LEMMA ReadBeside ==
  ASSUME IInv, Flow, message, ~attached \/ Head(toServer).kind # "activate"
  PROVE  Flow' /\ Piped
<1> DEFINE h == Head(toServer)
<1>1. /\ toServer # <<>> /\ toServer' = Tail(toServer)
      /\ UNCHANGED <<connected, phase, attempt, written, shown>>
  BY DEF message, browser
<1>2. Has(toServer', "activate") => Has(toServer, "activate")
  BY <1>1, Known, Taken
<1>3. h.kind \in {"input", "offer", "activate"}
  <2>1. h \in Range(toServer)
    BY <1>1, Known, Taken
  <2>2. QED BY <2>1 DEF IInv, Content
<1>4. ASSUME UNCHANGED <<attached, transport, outputBuffer, channel>>,
             transport # "websocket" => negotiation' = negotiation,
             \/ toClient' = toClient
             \/ \E m \in Message : m.kind # "output" /\ toClient' = Append(toClient, m)
      PROVE  Flow' /\ Piped
  <2>1. /\ OutputOn(toClient') = OutputOn(toClient)
        /\ FollowedBy(toClient, "output", "switch") => FollowedBy(toClient', "output", "switch")
        /\ Has(toClient', "output") => Has(toClient, "output")
    <3>1. CASE toClient' = toClient
      BY <3>1
    <3>2. ASSUME NEW m \in Message, m.kind # "output", toClient' = Append(toClient, m)
          PROVE  /\ OutputOn(toClient') = OutputOn(toClient)
                 /\ FollowedBy(toClient, "output", "switch") => FollowedBy(toClient', "output", "switch")
                 /\ Has(toClient', "output") => Has(toClient, "output")
      BY <3>2, SentBeside
    <3>3. QED BY <1>4, <3>1, <3>2
  <2>2. Flow'
    BY <1>1, <1>2, <1>4, <2>1, QuietFlows
  <2>3. Piped
    BY <1>1, <1>4, <2>1, Stays
  <2>4. QED BY <2>2, <2>3
<1>5. CASE UNCHANGED <<server, toClient, channel>>
  BY <1>4, <1>5 DEF server
<1>6. CASE attached /\ h.kind = "offer"
  <2>1. Offered(h.n)
    <3>1. h.kind # "input" /\ h.kind # "activate"
      BY <1>6
    <3>2. QED BY <1>6, <3>1, Zenon DEF message
  <2>2. Say("unavailable") \in Message /\ Say("unavailable").kind # "output"
    BY Messages DEF Kinds
  <2>3. CASE toClient' = Append(toClient, Say("unavailable")) /\ UNCHANGED <<server, channel>>
    BY <1>4, <2>2, <2>3 DEF server
  <2>4. CASE negotiation = 0 /\ UNCHANGED <<attached, transport, outputBuffer, lease, toClient, channel>>
    <3>1. transport = "websocket"
      BY <2>4, Ways, Known
    <3>2. QED BY <1>4, <2>4, <3>1
  <2> HIDE DEF h
  <2>5. QED BY <2>1, <2>3, <2>4 DEF Offered
<1>7. CASE attached /\ h.kind = "input"
  <2>1. h.kind # "offer" /\ h.kind # "activate"
    BY <1>7
  <2>2. UNCHANGED <<server, toClient, channel>>
    BY <1>7, <2>1, Zenon DEF message
  <2>3. QED BY <1>5, <2>2
<1>8. CASE ~attached
  BY <1>5, <1>8 DEF message
<1>9. QED BY <1>3, <1>6, <1>7, <1>8

\* The answer is sent, or the negotiation is over.
LEMMA CreateAnswerFlows ==
  ASSUME IInv, Flow, NEW a \in Attempts, createAnswer(a)
  PROVE  Flow' /\ Piped
<1>1. /\ a \in answering /\ attached' = attached /\ UNCHANGED browser
      /\ UNCHANGED <<connected, phase, attempt, toServer, written, shown>>
  BY DEF createAnswer, browser, user
<1>2. ASSUME UNCHANGED <<transport, negotiation, outputBuffer, lease, channel>>,
             \/ toClient' = toClient
             \/ \E m \in Message : m.kind # "output" /\ toClient' = Append(toClient, m)
      PROVE  Flow' /\ Piped
  <2>1. /\ OutputOn(toClient') = OutputOn(toClient)
        /\ FollowedBy(toClient, "output", "switch") => FollowedBy(toClient', "output", "switch")
        /\ Has(toClient', "output") => Has(toClient, "output")
    <3>1. CASE toClient' = toClient
      BY <3>1
    <3>2. ASSUME NEW m \in Message, m.kind # "output", toClient' = Append(toClient, m)
          PROVE  /\ OutputOn(toClient') = OutputOn(toClient)
                 /\ FollowedBy(toClient, "output", "switch") => FollowedBy(toClient', "output", "switch")
                 /\ Has(toClient', "output") => Has(toClient, "output")
      BY <3>2, SentBeside
    <3>3. QED BY <1>2, <3>1, <3>2
  <2>2. Flow'
    BY <1>1, <1>2, <2>1, QuietFlows
  <2>3. Piped
    BY <1>1, <1>2, <2>1, Stays
  <2>4. QED BY <2>2, <2>3
<1>3. CASE attached /\ negotiation = a
           /\ disposeWebRtc
           /\ toClient' = toClient \o <<Say("unavailable")>> \o Pieces("output", outputBuffer)
  <2>1. transport # "webrtc"
    BY <1>1, <1>3, Waiting
  <2>2. Flow' /\ OnItsWay' = OnItsWay /\ (Joined' <=> Joined)
    BY <1>1, <1>3, <2>1, FallsBackFlows
  <2>3. QED BY <1>1, <2>2, Rests
<1>4. CASE /\ toClient' = Append(toClient, [kind |-> "answer", n |-> a])
           /\ UNCHANGED <<transport, negotiation, outputBuffer, lease, channel>>
  <2>1. \E m \in Message : m.kind # "output" /\ toClient' = Append(toClient, m)
    <3> DEFINE m == [kind |-> "answer", n |-> a]
    <3>1. m \in Message /\ m.kind # "output" /\ toClient' = Append(toClient, m)
      BY <1>4, Known, Messages DEF Kinds
    <3> HIDE DEF m
    <3>2. QED BY <3>1
  <2>2. QED BY <1>2, <1>4, <2>1
<1>5. QED BY <1>2, <1>3, <1>4, Zenon DEF createAnswer

\* A switch is announced, or the channel of a negotiation that is over closed.
LEMMA AcceptDataChannelFlows ==
  ASSUME IInv, Flow, NEW a \in Attempts, acceptDataChannel(a)
  PROVE  Flow' /\ Piped
<1>1. /\ channel[a].far = "new" /\ answered >= a
      /\ UNCHANGED <<attached, negotiation, outputBuffer, connected, phase, attempt, toServer, written, shown>>
  BY DEF acceptDataChannel, browser, user
<1>2. ASSUME NEW e \in Ends, channel' = [channel EXCEPT ![a].far = e]
      PROVE  \A b \in Attempts : channel'[b].near = channel[b].near /\ channel'[b].down = channel[b].down
  <2>1. /\ Other(channel', a) /\ channel'[a].near = channel[a].near /\ channel'[a].down = channel[a].down
    <3>1. channel \in Channels
      BY Known
    <3>2. QED BY <1>2, <3>1, FarSet
  <2>2. QED BY <2>1 DEF Other
<1>3. CASE channel' = [channel EXCEPT ![a].far = "closed"] /\ UNCHANGED <<transport, toClient>>
  <2>1. \A b \in Attempts : channel'[b].near = channel[b].near /\ channel'[b].down = channel[b].down
    BY <1>2, <1>3 DEF Ends
  <2>2. Flow'
    BY <1>1, <1>3, <2>1, QuietFlows
  <2>3. QED BY <1>1, <1>3, <2>1, <2>2, Stays
<1>4. CASE /\ attached /\ negotiation = a /\ channel' = [channel EXCEPT ![a].far = "open"]
           /\ transport' = "switching" /\ toClient' = Append(toClient, Say("switch"))
  <2>1. \A b \in Attempts : channel'[b].near = channel[b].near /\ channel'[b].down = channel[b].down
    BY <1>2, <1>4 DEF Ends
  <2>2. transport = "websocket" /\ outputBuffer = <<>> /\ a # 0
    BY <1>1, <1>4, Known, Waiting
  <2>3. Say("switch") \in Message /\ Say("switch").kind = "switch"
    BY Messages DEF Kinds
  <2>4. OutputOn(toClient') = OutputOn(toClient) /\ (Has(toClient', "output") => Has(toClient, "output"))
    BY <1>4, <2>3, SentBeside
  <2>5. FollowedBy(toClient', "output", "switch")
    BY <1>4, <2>3, Ways, FollowedParts
  <2>6. ~Turned'
    <3>1. answered = a
      <4>1. answered <= a
        BY <1>4, <2>2 DEF IInv, Offers
      <4>2. QED BY <1>1, <4>1, Known
    <3>2. ~Has(toServer, "activate")
      BY <1>1, <1>4, <2>2, <3>1 DEF IInv, Switches
    <3>3. QED BY <1>1, <1>4, <3>2 DEF Turned
  <2>7. Handed' => Handed
    BY <1>1, <1>4, <2>1, <2>2 DEF Handed
  <2>8. Flow'
    BY <1>1, <2>1, <2>4, <2>5, <2>6, <2>7 DEF Flow
  <2>9. Direct' = Direct
    BY <1>1, <2>1, Ways, DirectSame
  <2>10. OnItsWay' = OnItsWay
    BY <1>1, <2>4, <2>9, QueueIs DEF Queue
  <2>11. Joined' <=> Joined
    BY <1>1, <1>4, <2>2 DEF Joined
  <2>12. QED BY <1>1, <2>8, <2>10, <2>11, Rests
<1>5. QED BY <1>3, <1>4, Zenon DEF acceptDataChannel

\* Input is read from the channel.
LEMMA HandleDataChannelMessageFlows ==
  ASSUME IInv, Flow, NEW a \in Attempts, handleDataChannelMessage(a)
  PROVE  Flow' /\ Piped
<1>1. /\ channel[a].up # <<>> /\ channel' = [channel EXCEPT ![a].up = Tail(@)]
      /\ UNCHANGED <<attached, transport, negotiation, outputBuffer, connected, phase, attempt,
                     toClient, toServer, written, shown>>
  BY DEF handleDataChannelMessage, server, browser
<1>2. \A b \in Attempts : channel'[b].near = channel[b].near /\ channel'[b].down = channel[b].down
  <2> DEFINE r == Tail(channel[a].up)
  <2>1. channel \in Channels /\ r \in Seq(Message) /\ channel' = [channel EXCEPT ![a].up = r]
    <3>1. channel[a].up \in Seq(Message)
      BY Known
    <3>2. QED BY <1>1, <3>1, Known
  <2> HIDE DEF r
  <2>2. Other(channel', a) /\ channel'[a].near = channel[a].near /\ channel'[a].down = channel[a].down
    BY <2>1, UpSet
  <2>3. QED BY <2>2 DEF Other
<1>3. Flow'
  BY <1>1, <1>2, QuietFlows
<1>4. QED BY <1>1, <1>2, <1>3, Stays

\* A peer is lost.
LEMMA FarClosesFlows ==
  ASSUME IInv, Flow, NEW a \in Attempts, farCloses(a)
  PROVE  Flow' /\ Piped
<1>1. UNCHANGED <<browser, connected, phase, attempt, toServer, written, shown>>
  BY DEF farCloses, browser, user
<1>2. CASE pathLost
  <2>1. CASE transport = "webrtc"
    BY <1>1, <1>2, <2>1, DestroyedFlows DEF pathLost
  <2>2. CASE transport # "webrtc"
    <3>1. fallbackNegotiation
      BY <1>2, <2>2 DEF pathLost
    <3>2. Flow' /\ OnItsWay' = OnItsWay /\ (Joined' <=> Joined)
      BY <1>1, <2>2, <3>1, FallsBackFlows DEF fallbackNegotiation
    <3>3. QED BY <1>1, <3>2, Rests
  <2>3. QED BY <2>1, <2>2
<1>3. ASSUME channel' = [channel EXCEPT ![a].far = "closed"]
      PROVE  \A b \in Attempts : channel'[b].near = channel[b].near /\ channel'[b].down = channel[b].down
  BY <1>3, Closed
<1>4. CASE /\ negotiation = a /\ channel[a].far # "open"
           /\ attached' = attached /\ outputBuffer' = <<>> /\ transport' = "websocket"
           /\ channel' = [channel EXCEPT ![a].far = "closed"]
           /\ toClient' = Append(toClient, Say("unavailable"))
  <2>1. transport = "websocket" /\ outputBuffer = <<>>
    BY <1>4, Known, Waiting
  <2>2. \A b \in Attempts : channel'[b].near = channel[b].near /\ channel'[b].down = channel[b].down
    BY <1>3, <1>4
  <2>3. Say("unavailable") \in Message /\ Say("unavailable").kind # "output"
    BY Messages DEF Kinds
  <2>4. /\ OutputOn(toClient') = OutputOn(toClient)
        /\ FollowedBy(toClient, "output", "switch") => FollowedBy(toClient', "output", "switch")
        /\ Has(toClient', "output") => Has(toClient, "output")
    BY <1>4, <2>3, SentBeside
  <2>5. Flow'
    BY <1>1, <1>4, <2>1, <2>2, <2>4, QuietFlows
  <2>6. Piped
    BY <1>1, <1>4, <2>1, <2>2, <2>4, Stays
  <2>7. QED BY <2>5, <2>6
<1>5. CASE channel' = [channel EXCEPT ![a].far = "closed"] /\ UNCHANGED <<server, toClient>>
  <2>1. \A b \in Attempts : channel'[b].near = channel[b].near /\ channel'[b].down = channel[b].down
    BY <1>3, <1>5
  <2>2. UNCHANGED <<attached, transport, negotiation, outputBuffer, toClient>>
    BY <1>5 DEF server
  <2>3. Flow'
    BY <1>1, <2>1, <2>2, QuietFlows
  <2>4. QED BY <1>1, <2>1, <2>2, <2>3, Stays
<1>6. QED BY <1>2, <1>4, <1>5, Zenon DEF farCloses

\* The switch is made: what was held back goes on the channel.
LEMMA HandedOver ==
  ASSUME IInv, Flow, transport = "switching", Has(toServer, "activate"),
         transport' = "webrtc", outputBuffer' = <<>>,
         channel' = [channel EXCEPT ![negotiation].down = @ \o <<Say("ready")>> \o Pieces("output", outputBuffer)],
         UNCHANGED <<attached, negotiation, toClient, connected, phase, attempt, written, shown>>
  PROVE  Flow' /\ Piped
<1> DEFINE A == OutputOn(toClient)
           B == outputBuffer
<1>1. /\ A \in Seq(Nat) /\ B \in Seq(Nat) /\ <<>> \in Seq(Nat)
      /\ negotiation \in Attempts /\ attached
  BY Ways
<1>2. \A b \in Attempts : channel[b].down = <<>>
  BY <1>1, Ways
<1>3. ~Has(toClient, "output")
  <2>1. ~Has(toClient, "switch") /\ FollowedBy(toClient, "output", "switch")
    BY DEF IInv, Switches, Flow
  <2>2. QED BY <2>1, Ways, FollowedParts
<1>4. /\ channel[negotiation].near # "new"
      /\ attempt = negotiation /\ channel[negotiation].near = "open" => phase \in {"switching", "active"}
  BY DEF Flow, Turned
<1> DEFINE q == <<>> \o <<Say("ready")>> \o Pieces("output", B)
<1>5. q \in Seq(Message) /\ OutputOn(q) = B
  <2>1. Say("ready") \in Message /\ Say("ready").kind # "output" /\ <<>> \in Seq(Message)
    BY Messages DEF Kinds
  <2>2. OutputOn(q) = OutputOn(<<>>) \o B
    BY <1>1, <2>1, OutputJoined
  <2>3. OutputOn(<<>>) = <<>>
    BY <2>1, OutputIn, Nothing
  <2>4. Pieces("output", B) \in Seq(Message)
    <3>1. "output" \in Kinds
      BY DEF Kinds
    <3>2. QED BY <1>1, <3>1, PiecesParts
  <2>5. <<>> \o <<Say("ready")>> \in Seq(Message)
    BY <2>1
  <2>6. <<>> \o B = B
    BY <1>1, ConcatEmptySeq
  <2>7. QED BY <2>2, <2>3, <2>4, <2>5, <2>6, ConcatProperties
<1>6. channel' = [channel EXCEPT ![negotiation].down = q]
  BY <1>1, <1>2
<1> HIDE DEF q
<1>7. /\ channel'[negotiation].near = channel[negotiation].near /\ channel'[negotiation].down = q
      /\ \A b \in Attempts \ {negotiation} : channel'[b] = channel[b]
  <2>1. channel \in Channels /\ q \in Seq(Message) /\ negotiation \in Attempts
    BY <1>1, <1>5, Known
  <2>2. /\ Other(channel', negotiation) /\ channel'[negotiation].near = channel[negotiation].near
        /\ channel'[negotiation].far = channel[negotiation].far /\ channel'[negotiation].down = q
        /\ channel'[negotiation].up = channel[negotiation].up
    <3> DEFINE d == [channel EXCEPT ![negotiation].down = q]
    <3>1. d = [channel EXCEPT ![negotiation].down = q]
      OBVIOUS
    <3>2. channel' = d
      BY <1>6
    <3> HIDE DEF d
    <3>3. /\ Other(d, negotiation) /\ d[negotiation].near = channel[negotiation].near
          /\ d[negotiation].far = channel[negotiation].far /\ d[negotiation].down = q
          /\ d[negotiation].up = channel[negotiation].up
      BY <2>1, <3>1, DownSet, ZenonT(40)
    <3>4. QED BY <3>2, <3>3
  <2>3. QED BY <2>2 DEF Other
<1>8. Flow'
  BY <1>1, <1>3, <1>4, <1>7 DEF Flow
<1>9. OutputOn(Direct) = <<>> /\ A \o B \o <<>> = A \o B /\ A \o <<>> \o B = A \o B /\ A \o <<>> \o <<>> = A
  <2>1. A \o <<>> = A /\ A \o B \in Seq(Nat)
    BY <1>1, ConcatEmptySeq, ConcatProperties
  <2>2. QED BY <1>1, <2>1, Ways, ConcatEmptySeq
<1>10. /\ OnItsWay = IF connected THEN A \o B ELSE <<>>
       /\ OnItsWay' = IF connected THEN A \o <<>> \o OutputOn(Direct') ELSE <<>>
  BY <1>9, QueueIs DEF Queue
<1> HIDE DEF A, B
<1>11. CASE attempt = negotiation /\ channel[negotiation].near = "open"
  <2>1. Direct' = q
    BY <1>1, <1>7, <1>11, Known DEF Direct
  <2>2. OnItsWay' = OnItsWay
    BY <1>5, <1>9, <1>10, <2>1
  <2>3. Joined' <=> Joined
    BY <1>4, <1>7, <1>11 DEF Joined
  <2>4. QED BY <1>8, <2>2, <2>3, Rests
<1>12. CASE ~(attempt = negotiation /\ channel[negotiation].near = "open")
  <2>1. OutputOn(Direct') = <<>>
    <3>1. Direct' = <<>>
      BY <1>2, <1>7, <1>12, Known DEF Direct
    <3>2. <<>> \in Seq(Message)
      OBVIOUS
    <3>3. QED BY <3>1, <3>2, OutputIn, Nothing
  <2>2. ~Joined'
    BY <1>7, <1>12 DEF Joined
  <2>3. \E r \in Seq(Nat) : OnItsWay = OnItsWay' \o r
    <3>1. CASE connected
      BY <1>1, <1>9, <1>10, <2>1, <3>1
    <3>2. CASE ~connected
      <4>1. <<>> \o <<>> = <<>>
        BY <1>1, ConcatEmptySeq
      <4>2. QED BY <1>1, <1>10, <3>2, <4>1
    <3>3. QED BY <3>1, <3>2
  <2>4. OnItsWay' \in Seq(Nat)
    BY <1>1, <1>9, <1>10, <2>1
  <2>5. QED BY <1>8, <2>2, <2>3, <2>4, Cuts
<1>13. QED BY <1>11, <1>12

\* The browser asks for the switch.
LEMMA ActivateFlows ==
  ASSUME IInv, Flow, message, attached, Head(toServer).kind = "activate"
  PROVE  Flow' /\ Piped
<1>1. /\ toServer # <<>> /\ toServer' = Tail(toServer) /\ UNCHANGED browser
      /\ UNCHANGED <<connected, phase, attempt, written, shown>>
      /\ Activated
  <2>1. Head(toServer).kind # "input" /\ Head(toServer).kind # "offer"
    OBVIOUS
  <2>2. Activated
    BY <2>1, Zenon DEF message
  <2>3. QED BY <2>2 DEF message, browser
<1>2. Has(toServer, "activate")
  BY <1>1, Known, Taken
<1>3. transport # "webrtc"
  BY <1>2 DEF IInv, Switches
<1>4. CASE fallbackNegotiation
  <2>1. Flow' /\ OnItsWay' = OnItsWay /\ (Joined' <=> Joined)
    BY <1>1, <1>3, <1>4, FallsBackFlows DEF fallbackNegotiation
  <2>2. QED BY <1>1, <2>1, Rests
<1>5. CASE destroyAttachment
  BY <1>1, <1>5, DestroyedFlows
<1>6. CASE /\ transport = "switching" /\ transport' = "webrtc" /\ lease' = "fresh"
           /\ channel' = [channel EXCEPT ![negotiation].down =
                            @ \o <<Say("ready")>> \o Pieces("output", outputBuffer)]
           /\ outputBuffer' = <<>>
           /\ UNCHANGED <<attached, negotiation, answering, toClient>>
  BY <1>1, <1>2, <1>6, HandedOver
<1>7. QED BY <1>1, <1>4, <1>5, <1>6, Zenon DEF Activated

\* The next frame of the WebSocket.
LEMMA MessageFlows ==
  ASSUME IInv, Flow, message
  PROVE  Flow' /\ Piped
BY ReadBeside, ActivateFlows

\* The terminal writes.
LEMMA RouteTerminalOutputFlows ==
  ASSUME IInv, Flow, routeTerminalOutput
  PROVE  Flow' /\ Piped
<1>1. /\ attached /\ written' = written + 1
      /\ UNCHANGED <<browser, connected, phase, attempt, toServer, shown>>
  BY DEF routeTerminalOutput, browser
<1>2. written' \in Nat /\ written' \in {written, written + 1} /\ Len(outputBuffer) \in Nat /\ Capacity \in Nat
  BY <1>1, Known DEF IInv, Types, Streams
<1>3. transport \in {"websocket", "switching", "webrtc"}
  BY DEF IInv, Types, ServerFlags
<1> DEFINE A == OutputOn(toClient)
           B == outputBuffer
           D == OutputOn(Direct)
           n == written'
           r == toClient \o Pieces("output", <<n>>)
<1>4. /\ A \in Seq(Nat) /\ B \in Seq(Nat) /\ D \in Seq(Nat) /\ n \in Nat /\ <<n>> \in Seq(Nat)
      /\ transport # "webrtc" => D = <<>>
      /\ transport # "switching" => B = <<>>
  BY <1>1, <1>2, Ways
<1>5. OnItsWay = IF connected THEN A \o B \o D ELSE <<>>
  BY QueueIs DEF Queue
<1>6. ~connected => OnItsWay' = <<>> /\ ~Joined /\ ~Joined'
  BY <1>1, QueueIs DEF Joined
<1>7. CASE transport = "switching" /\ Len(outputBuffer) >= Capacity
  <2>1. ~(transport = "websocket") /\ ~(Len(outputBuffer) < Capacity)
    BY <1>2, <1>7
  <2>2. fallbackNegotiation
    BY <1>7, <2>1, Zenon DEF routeTerminalOutput
  <2>3. Flow' /\ OnItsWay' = OnItsWay /\ (Joined' <=> Joined)
    BY <1>1, <1>7, <2>2, FallsBackFlows DEF fallbackNegotiation
  <2>4. BufferFull
    BY <1>7 DEF BufferFull
  <2>5. QED BY <1>1, <2>3, <2>4, Writes
<1>8. CASE transport = "websocket"
  <2>1. toClient' = r /\ UNCHANGED <<attached, transport, negotiation, outputBuffer, channel>>
    BY <1>8 DEF routeTerminalOutput, server
  <2>2. ~Handed
    BY <1>1, <1>8 DEF IInv, Paths, Handed
  <2> HIDE DEF n, r
  <2>3. Flow'
    BY <1>1, <1>8, <2>1, <2>2, QuietFlows
  <2>4. OutputOn(toClient') = A \o <<n>>
    BY <1>4, <2>1, Ways, OutputJoined DEF r
  <2>5. Direct' = Direct
    BY <1>1, <2>1, DirectSame
  <2>6. OnItsWay' = IF connected THEN (A \o <<n>>) \o B \o D ELSE <<>>
    BY <1>1, <2>1, <2>4, <2>5, QueueIs DEF Queue
  <2>7. B = <<>> /\ D = <<>>
    BY <1>4, <1>8
  <2>8. Joined' <=> Joined
    BY <1>1, <1>8, <2>1 DEF Joined
  <2> HIDE DEF A, B, D
  <2>9. connected => OnItsWay' = Append(OnItsWay, n)
    <3>1. Append(A, n) \o <<>> \o <<>> = Append(A \o <<>> \o <<>>, n) /\ Append(A, n) = A \o <<n>>
      BY <1>4, QueueWritten
    <3>2. QED BY <1>5, <2>6, <2>7, <3>1
  <2>10. connected => Joined
    BY <1>1, <1>8 DEF Joined
  <2>11. CASE connected
    BY <1>1, <2>3, <2>8, <2>9, <2>10, <2>11, Writes DEF n
  <2>12. CASE ~connected
    <3>1. OnItsWay' = OnItsWay
      BY <1>5, <1>6, <2>12
    <3>2. QED BY <1>1, <1>6, <2>3, <2>8, <2>12, <3>1, Writes
  <2>13. QED BY <2>11, <2>12
<1>9. CASE transport = "switching" /\ Len(outputBuffer) < Capacity
  <2>1. transport # "websocket" /\ transport # "webrtc" /\ ~(Len(outputBuffer) >= Capacity)
    BY <1>2, <1>9
  <2>2. /\ outputBuffer' = Append(outputBuffer, written')
        /\ UNCHANGED <<attached, transport, negotiation, answering, lease, toClient, channel>>
    BY <1>9, <2>1, Zenon DEF routeTerminalOutput
  <2>3. Flow'
    BY <1>1, <2>2, QuietFlows
  <2>4. Direct' = Direct
    BY <1>1, <2>2, DirectSame
  <2>5. OnItsWay' = IF connected THEN A \o Append(B, n) \o D ELSE <<>>
    BY <1>1, <2>2, <2>4, QueueIs DEF Queue
  <2>6. D = <<>>
    BY <1>4, <1>9
  <2>7. (Joined' <=> Joined) /\ (connected => Joined)
    BY <1>1, <1>9, <2>2 DEF Joined
  <2> HIDE DEF A, B, D, n
  <2>8. connected => OnItsWay' = Append(OnItsWay, n)
    <3>1. A \o Append(B, n) \o <<>> = Append(A \o B \o <<>>, n)
      BY <1>4, QueueWritten, SMTT(40)
    <3>2. QED BY <1>5, <2>5, <2>6, <3>1
  <2>9. CASE connected
    BY <1>1, <2>3, <2>7, <2>8, <2>9, Writes DEF n
  <2>10. CASE ~connected
    <3>1. OnItsWay' = OnItsWay
      BY <1>5, <1>6, <2>10
    <3>2. QED BY <1>1, <1>6, <2>3, <2>7, <2>10, <3>1, Writes
  <2>11. QED BY <2>9, <2>10
<1>10. CASE transport = "webrtc"
  <2>1. CASE destroyAttachment
    BY <1>1, <1>2, <2>1, DestroyedFlows
  <2>2. CASE /\ channel' = [channel EXCEPT ![negotiation].down = @ \o Pieces("output", <<n>>)]
             /\ UNCHANGED <<server, toClient>>
    <3>1. negotiation \in Attempts
      BY <1>10, Ways
    <3> DEFINE p == channel[negotiation].down
               q == p \o Pieces("output", <<n>>)
    <3>2. channel' = [channel EXCEPT ![negotiation].down = q]
      BY <2>2
    <3>3. UNCHANGED <<attached, transport, negotiation, outputBuffer, toClient>>
      BY <2>2 DEF server
    <3>4. p \in Seq(Message)
      BY <3>1, Known
    <3> HIDE DEF p
    <3>5. q \in Seq(Message) /\ OutputOn(q) = OutputOn(p) \o <<n>> /\ OutputOn(p) \in Seq(Nat)
      <4>1. "output" \in Kinds
        BY DEF Kinds
      <4>2. Pieces("output", <<n>>) \in Seq(Message)
        <5> DEFINE s == <<n>>
        <5>1. s \in Seq(Nat) /\ Nat \in SUBSET Nat
          BY <1>4
        <5> HIDE DEF s
        <5>2. Pieces("output", s) \in Seq(Message)
          BY <4>1, <5>1, PiecesParts
        <5>3. QED BY <5>2 DEF s
      <4>3. OutputOn(q) = OutputOn(p) \o <<n>> /\ OutputOn(p) \in Seq(Nat)
        BY <1>4, <3>4, OutputJoined, OutputIn
      <4>4. QED BY <3>4, <4>2, <4>3, ConcatProperties
    <3> HIDE DEF q, n
    <3>6. /\ Other(channel', negotiation) /\ channel'[negotiation].near = channel[negotiation].near
          /\ channel'[negotiation].down = q
      <4> DEFINE d == [channel EXCEPT ![negotiation].down = q]
      <4>1. channel \in Channels /\ d = [channel EXCEPT ![negotiation].down = q] /\ channel' = d
        BY <3>2, Known
      <4> HIDE DEF d
      <4>2. /\ Other(d, negotiation) /\ d[negotiation].near = channel[negotiation].near
            /\ d[negotiation].down = q
        BY <3>1, <3>5, <4>1, DownSet, ZenonT(40)
      <4>3. QED BY <4>1, <4>2
    <3>7. \A b \in Attempts : /\ channel'[b].near = channel[b].near
                              /\ b # negotiation => channel'[b].down = channel[b].down
      BY <3>6 DEF Other
    <3>8. Flow'
      BY <1>1, <1>10, <3>3, <3>7, QuietFlows
    <3>9. Joined' <=> Joined
      BY <1>1, <1>10, <3>1, <3>3, <3>7 DEF Joined
    <3>10. CASE Joined
      <4>1. connected /\ attempt = negotiation /\ attempt # 0 /\ channel[attempt].near = "open"
        BY <1>10, <3>1, <3>10, Known DEF Joined
      <4>2. Direct = p /\ Direct' = q
        BY <1>1, <3>1, <3>6, <3>7, <4>1 DEF Direct, p
      <4>3. OnItsWay' = A \o B \o (D \o <<n>>)
        BY <1>1, <3>3, <3>5, <4>1, <4>2, QueueIs DEF Queue
      <4> HIDE DEF A, B, D
      <4>4. Append(D, n) = D \o <<n>>
        BY <1>4, QueueWritten
      <4>5. OnItsWay' = Append(OnItsWay, n)
        <5>1. A \o B \o Append(D, n) = Append(A \o B \o D, n)
          <6>1. A \in Seq(Nat) /\ B \in Seq(Nat) /\ D \in Seq(Nat) /\ n \in Nat
            BY <1>4
          <6>2. QED BY <6>1, QueueWritten, ZenonT(40)
        <5>2. QED BY <1>5, <4>1, <4>3, <4>4, <5>1
      <4>6. QED BY <1>1, <3>8, <3>9, <3>10, <4>5, Writes DEF n
    <3>11. CASE ~Joined
      <4>1. CASE ~connected
        <5>1. OnItsWay' = OnItsWay
          BY <1>5, <1>6, <4>1
        <5>2. QED BY <1>1, <3>8, <3>9, <3>11, <5>1, Writes
      <4>2. CASE connected
        <5>1. Turned
          BY <1>10 DEF Turned
        <5>2. ~(attempt = negotiation /\ channel[attempt].near = "open")
          BY <1>1, <3>11, <4>2, <5>1 DEF Joined, Flow
        <5>3. Direct' = Direct
          BY <1>1, <3>7, <5>2, Known DEF Direct
        <5>4. OnItsWay' = OnItsWay
          BY <1>1, <3>3, <5>3, QueueIs DEF Queue
        <5>5. QED BY <1>1, <3>8, <3>9, <3>11, <5>4, Writes
      <4>3. QED BY <4>1, <4>2
    <3>12. QED BY <3>10, <3>11
  <2>3. QED BY <1>10, <2>1, <2>2, Zenon DEF routeTerminalOutput
<1>11. Len(outputBuffer) < Capacity \/ Len(outputBuffer) >= Capacity
  BY <1>2
<1>12. QED BY <1>3, <1>7, <1>8, <1>9, <1>10, <1>11

-----------------------------------------------------------------------------
(* The browser's steps.                                                    *)

\* A retry starts after the channel before it was closed.
LEMMA StartFlows ==
  ASSUME IInv, Flow, start
  PROVE  Flow' /\ Piped
<1>1. /\ phase = "idle" /\ attempt < MaxAttempts /\ phase' = "finding" /\ attempt' = attempt + 1
      /\ UNCHANGED <<attached, transport, negotiation, outputBuffer, connected, toClient, toServer,
                     channel, written, shown>>
  BY DEF start, server, user
<1>2. /\ attempt \in Nat /\ attempt' \in Attempts /\ negotiation \in Nat /\ negotiation < attempt'
      /\ answered < attempt' /\ \A a \in Attempts : a \in Nat
  BY <1>1, Known, TransportAssumption DEF Attempts
<1>3. \A a \in Attempts : a < attempt' => channel[a].near = "closed"
  <2>1. \A a \in Attempts : a < attempt' => a < attempt \/ a = attempt
    BY <1>1, <1>2
  <2>2. QED BY <1>1, <2>1 DEF Flow
<1>4. Flow'
  <2>1. (Handed' => Handed) /\ (Turned' => Turned)
    BY <1>1 DEF Handed, Turned
  <2>2. \A a \in Attempts : a < attempt' \/ (a = attempt' /\ phase' \in {"idle", "closed"}) => channel[a].near = "closed"
    BY <1>1, <1>3
  <2>3. QED BY <1>1, <1>2, <2>1, <2>2 DEF Flow
<1>5. Direct = <<>>
  <2>1. attempt # 0 => channel[attempt].near = "closed"
    BY <1>1, Known DEF Flow
  <2>2. QED BY <2>1 DEF Direct
<1>6. Direct' = <<>>
  <2>1. channel[attempt'].near # "open"
    BY <1>2, Known DEF IInv, Offers
  <2>2. QED BY <1>1, <2>1 DEF Direct
<1>7. OnItsWay' = OnItsWay
  BY <1>1, <1>5, <1>6, QueueIs DEF Queue
<1>8. Joined' <=> Joined
  BY <1>1, <1>2 DEF Joined
<1>9. QED BY <1>1, <1>4, <1>7, <1>8, Rests

\* An offer is sent, or cannot be.
LEMMA SendOfferFlows ==
  ASSUME IInv, Flow, sendOffer
  PROVE  Flow' /\ Piped
<1>1. UNCHANGED <<attached, transport, negotiation, outputBuffer, attempt, toClient, written, shown>>
  BY DEF sendOffer, server, user
<1>2. CASE /\ toServer' = Append(toServer, [kind |-> "offer", n |-> attempt])
           /\ UNCHANGED <<phase, channel, inputBuffer, directActive, connected>>
  <2> DEFINE m == [kind |-> "offer", n |-> attempt]
  <2>1. m \in Message /\ m.kind = "offer" /\ toServer' = Append(toServer, m)
    BY <1>2, Known, Messages DEF Kinds
  <2> HIDE DEF m
  <2>2. Has(toServer', "activate") => Has(toServer, "activate")
    BY <2>1, Known, Sent
  <2>3. Flow'
    BY <1>1, <1>2, <2>2, QuietFlows
  <2>4. Piped
    BY <1>1, <1>2, Stays
  <2>5. QED BY <2>3, <2>4
<1>3. CASE fail(FALSE) /\ UNCHANGED toServer
  BY <1>1, <1>3, FailFlows
<1>4. QED BY <1>2, <1>3 DEF sendOffer

\* What was read of the WebSocket.
LEMMA ClientReads ==
  ASSUME IInv, Flow, toClient # <<>>, toClient' = Tail(toClient)
  PROVE  /\ Head(toClient).kind \in {"output", "unavailable", "answer", "switch"}
         /\ FollowedBy(toClient, "output", "switch") => FollowedBy(toClient', "output", "switch")
         /\ Has(toClient', "output") => Has(toClient, "output")
         /\ Head(toClient).kind # "output" => OutputOn(toClient') = OutputOn(toClient)
         /\ Has(toClient, Head(toClient).kind)
<1>1. Head(toClient) \in Range(toClient) /\ \A k : Has(toClient, k) <=> (Head(toClient).kind = k \/ Has(toClient', k))
  BY Known, Taken
<1>2. Head(toClient).kind \in {"output", "unavailable", "answer", "switch"}
  BY <1>1 DEF IInv, Content
<1>3. FollowedBy(toClient, "output", "switch") => FollowedBy(toClient', "output", "switch")
  BY Known, FollowedParts
<1>4. Head(toClient).kind # "output" => OutputOn(toClient') = OutputOn(toClient)
  BY Known, OutputIn
<1>5. QED BY <1>1, <1>2, <1>3, <1>4

\* A frame changes nothing of what is shown, or makes the browser give the direct path up.
LEMMA FrameRead ==
  ASSUME IInv, Flow, toClient # <<>>, toClient' = Tail(toClient), Head(toClient).kind # "output",
         UNCHANGED <<server, attempt, written, shown, toServer>>,
         fail(FALSE) \/ UNCHANGED <<phase, channel, inputBuffer, directActive, connected>>
  PROVE  Flow' /\ Piped
<1>1. UNCHANGED <<attached, transport, negotiation, outputBuffer>>
  BY DEF server
<1>2. /\ FollowedBy(toClient, "output", "switch") => FollowedBy(toClient', "output", "switch")
      /\ Has(toClient', "output") => Has(toClient, "output")
      /\ OutputOn(toClient') = OutputOn(toClient)
  BY ClientReads
<1>3. CASE fail(FALSE)
  BY <1>1, <1>2, <1>3, FailFlows
<1>4. CASE UNCHANGED <<phase, channel, inputBuffer, directActive, connected>>
  <2>1. Flow'
    BY <1>1, <1>2, <1>4, QuietFlows
  <2>2. Piped
    BY <1>1, <1>2, <1>4, Stays
  <2>3. QED BY <2>1, <2>2
<1>5. QED BY <1>3, <1>4

\* The switch is asked for.
LEMMA SwitchFlows ==
  ASSUME IInv, Flow, toClient # <<>>, toClient' = Tail(toClient), Head(toClient).kind = "switch",
         UNCHANGED <<server, attempt, written, shown, connected, channel>>,
         phase = "finding", channel[attempt].near = "open", phase' = "switching"
  PROVE  Flow' /\ Piped
<1>1. UNCHANGED <<attached, transport, negotiation, outputBuffer>>
  BY DEF server
<1>2. /\ FollowedBy(toClient, "output", "switch") => FollowedBy(toClient', "output", "switch")
      /\ OutputOn(toClient') = OutputOn(toClient) /\ Has(toClient, "switch")
  BY ClientReads
<1>3. ~Handed /\ transport # "webrtc"
  BY <1>2 DEF IInv, Switches, Handed
<1>4. ~Handed'
  BY <1>1, <1>3 DEF Handed
<1>5. attempt \in Attempts
  BY Known DEF IInv, Types, Rules
<1>6. Turned' => channel[negotiation].near # "new"
  <2>1. Turned' => negotiation \in Attempts /\ negotiation <= attempt
    BY <1>1, Ways DEF Turned
  <2>2. ASSUME Turned', negotiation # attempt
        PROVE  channel[negotiation].near = "closed"
    <3>1. negotiation < attempt
      BY <2>1, <2>2, Known
    <3>2. QED BY <2>1, <2>2, <3>1 DEF Flow
  <2>3. QED BY <2>2
<1>7. Flow'
  BY <1>1, <1>2, <1>4, <1>6 DEF Flow
<1>8. OnItsWay' = OnItsWay
  <2>1. Direct' = Direct
    BY DirectSame
  <2>2. QED BY <1>1, <1>2, <2>1, QueueIs DEF Queue
<1>9. Joined' <=> Joined
  BY <1>1, <1>3 DEF Joined
<1>10. QED BY <1>7, <1>8, <1>9, Rests

\* Output of the WebSocket is shown: the stream is not handed over.
LEMMA OutputFlows ==
  ASSUME IInv, Flow, socketMessage, Head(toClient).kind = "output"
  PROVE  Flow' /\ Piped
<1>1. /\ connected /\ toClient # <<>> /\ toClient' = Tail(toClient)
      /\ UNCHANGED <<attached, transport, negotiation, outputBuffer, attempt, written>>
  BY DEF socketMessage, server
<1>2. /\ shown' = IF directActive THEN shown ELSE Append(shown, Head(toClient).n)
      /\ UNCHANGED <<phase, channel, connected, toServer>>
  <2>1. Head(toClient).kind # "unavailable" /\ Head(toClient).kind # "answer" /\ Head(toClient).kind # "switch"
    OBVIOUS
  <2>2. /\ shown' = IF directActive THEN shown ELSE Append(shown, Head(toClient).n)
        /\ Ignored
    BY <2>1, Zenon DEF socketMessage
  <2>3. QED BY <2>2 DEF Ignored
<1>3. /\ FollowedBy(toClient, "output", "switch") => FollowedBy(toClient', "output", "switch")
      /\ Has(toClient', "output") => Has(toClient, "output")
      /\ Has(toClient, "output")
  BY <1>1, ClientReads
<1>4. Flow'
  BY <1>1, <1>2, <1>3, QuietFlows
<1>5. ~directActive
  <2>1. phase # "active"
    BY <1>3 DEF Flow, Handed
  <2>2. QED BY <2>1 DEF IInv, Types, Rules
<1> DEFINE n == Head(toClient).n
           A == OutputOn(toClient')
           B == outputBuffer
           D == OutputOn(Direct)
<1>6. OutputOn(toClient) = <<n>> \o A /\ n \in Nat /\ A \in Seq(Nat)
  BY <1>1, Known, OutputIn
<1>7. B \in Seq(Nat) /\ D \in Seq(Nat) /\ <<n>> \in Seq(Nat)
  BY <1>6, Ways
<1>8. Direct' = Direct
  BY <1>1, <1>2, DirectSame
<1>9. OnItsWay = (<<n>> \o A) \o B \o D /\ OnItsWay' = A \o B \o D
  BY <1>1, <1>2, <1>6, <1>8, QueueIs DEF Queue
<1>10. shown' = Append(shown, n) /\ (Joined' <=> Joined)
  BY <1>1, <1>2, <1>5 DEF Joined
<1> HIDE DEF n, A, B, D
<1>11. (<<n>> \o A) \o B \o D = <<n>> \o (A \o B \o D) /\ A \o B \o D \in Seq(Nat)
  <2>1. /\ A \o B \in Seq(Nat) /\ A \o B \o D \in Seq(Nat)
        /\ (<<n>> \o A) \o B = <<n>> \o (A \o B)
    BY <1>6, <1>7, QueueParts
  <2>2. (<<n>> \o (A \o B)) \o D = <<n>> \o ((A \o B) \o D)
    <3> DEFINE r == A \o B
    <3>1. <<n>> \in Seq(Nat) /\ r \in Seq(Nat) /\ D \in Seq(Nat)
      BY <1>7, <2>1
    <3> HIDE DEF r
    <3>2. (<<n>> \o r) \o D = <<n>> \o (r \o D)
      BY <3>1, ConcatAssociative, SMTT(60)
    <3>3. QED BY <3>2 DEF r
  <2>3. QED BY <2>1, <2>2
<1>12. Piped
  BY <1>1, <1>6, <1>9, <1>10, <1>11, Shows
<1>13. QED BY <1>4, <1>12

\* The next frame of the WebSocket.
LEMMA SocketMessageFlows ==
  ASSUME IInv, Flow, socketMessage
  PROVE  Flow' /\ Piped
<1> DEFINE h == Head(toClient)
<1>1. /\ connected /\ toClient # <<>> /\ toClient' = Tail(toClient)
      /\ UNCHANGED <<server, attempt, offered, written, typed, entered>>
  BY DEF socketMessage
<1>2. h.kind \in {"output", "unavailable", "answer", "switch"}
  BY <1>1, ClientReads
<1>3. CASE h.kind = "output"
  BY <1>3, OutputFlows
<1>4. CASE h.kind = "unavailable"
  <2>1. h.kind # "output" /\ h.kind # "answer" /\ h.kind # "switch"
    BY <1>4
  <2>2. /\ UNCHANGED shown
        /\ IF phase \in {"finding", "switching"}
           THEN fail(FALSE) /\ UNCHANGED <<answered, toServer>>
           ELSE Ignored
    BY <1>4, <2>1, Zenon DEF socketMessage
  <2> HIDE DEF h
  <2>3. fail(FALSE) \/ UNCHANGED <<phase, channel, inputBuffer, directActive, connected>>
    BY <2>2 DEF Ignored
  <2>4. UNCHANGED <<shown, toServer>>
    BY <2>2 DEF Ignored
  <2>5. QED BY <1>1, <2>1, <2>3, <2>4, FrameRead DEF h
<1>5. CASE h.kind = "answer"
  <2>1. h.kind # "output" /\ h.kind # "unavailable" /\ h.kind # "switch"
    BY <1>5
  <2>2. onAnswer(h.n) /\ UNCHANGED shown
    BY <1>5, <2>1, Zenon DEF socketMessage
  <2> HIDE DEF h
  <2>3. fail(FALSE) \/ UNCHANGED <<phase, channel, inputBuffer, directActive, connected>>
    BY <2>2 DEF onAnswer
  <2>4. UNCHANGED <<shown, toServer>>
    BY <2>2 DEF onAnswer
  <2>5. QED BY <1>1, <2>1, <2>3, <2>4, FrameRead DEF h
<1>6. CASE h.kind = "switch"
  <2>1. h.kind # "output" /\ h.kind # "unavailable" /\ h.kind # "answer"
    BY <1>6
  <2>2. onSwitch /\ UNCHANGED shown
    BY <1>6, <2>1, Zenon DEF socketMessage
  <2>3. CASE phase = "finding" /\ channel[attempt].near = "open"
    <3>1. phase' = "switching" /\ UNCHANGED <<channel, connected>>
      BY <2>2, <2>3 DEF onSwitch
    <3>2. QED BY <1>1, <1>6, <2>2, <2>3, <3>1, SwitchFlows
  <2>4. CASE ~(phase = "finding" /\ channel[attempt].near = "open")
    <3>1. fail(FALSE) /\ UNCHANGED toServer
      BY <2>2, <2>4 DEF onSwitch
    <3>2. QED BY <1>1, <2>1, <2>2, <3>1, FrameRead
  <2>5. QED BY <2>3, <2>4
<1>7. QED BY <1>2, <1>3, <1>4, <1>5, <1>6

\* The browser's end opens, of a channel that carries nothing yet.
LEMMA NearOpensFlows ==
  ASSUME IInv, Flow, NEW a \in Attempts, nearOpens(a)
  PROVE  Flow' /\ Piped
<1>1. /\ channel[a].near = "new" /\ channel' = [channel EXCEPT ![a].near = "open"]
      /\ UNCHANGED <<attached, transport, negotiation, outputBuffer, connected, phase, attempt,
                     toClient, toServer, written, shown>>
  BY DEF nearOpens, server, browser, user
<1>2. /\ channel'[a].near = "open" /\ channel'[a].down = channel[a].down
      /\ \A b \in Attempts \ {a} : channel'[b] = channel[b]
  <2> DEFINE d == [channel EXCEPT ![a].near = "open"]
  <2>1. channel \in Channels /\ "open" \in Ends /\ d = [channel EXCEPT ![a].near = "open"] /\ channel' = d
    BY <1>1, Known DEF Ends
  <2> HIDE DEF d
  <2>2. Other(d, a) /\ d[a].near = "open" /\ d[a].down = channel[a].down
    BY <2>1, NearSet
  <2>3. QED BY <2>1, <2>2 DEF Other
<1>3. channel[a].down = <<>>
  BY <1>1 DEF Flow
<1>4. (Turned' <=> Turned) /\ (Handed' => Handed)
  BY <1>1, <1>2, <1>3 DEF Turned, Handed
<1>5. Turned => negotiation # a /\ negotiation \in Attempts
  BY <1>1, Ways DEF Turned, Flow
<1>6. Turned' => channel'[negotiation] = channel[negotiation]
  BY <1>2, <1>4, <1>5
<1>7. Flow'
  BY <1>1, <1>2, <1>3, <1>4, <1>6 DEF Flow
<1>8. Direct' = Direct
  BY <1>1, <1>2, <1>3, Known DEF Direct
<1>9. OnItsWay' = OnItsWay
  BY <1>1, <1>8, QueueIs DEF Queue
<1>10. Joined' <=> Joined
  BY <1>1, <1>4, <1>6 DEF Joined, Turned
<1>11. QED BY <1>1, <1>7, <1>9, <1>10, Rests

\* The attempt loses its connection or its channel.
LEMMA NearClosesFlows ==
  ASSUME IInv, Flow, nearCloses
  PROVE  Flow' /\ Piped
<1>1. /\ fail(phase = "active")
      /\ UNCHANGED <<attached, transport, negotiation, outputBuffer, attempt, toClient, toServer, written, shown>>
  BY DEF nearCloses, server, user
<1>2. (phase = "active") \in BOOLEAN
  OBVIOUS
<1>3. QED BY <1>1, <1>2, FailFlows

\* The WebSocket closes, and nobody waits for output any more.
LEMMA SocketClosesFlows ==
  ASSUME IInv, Flow, socketCloses
  PROVE  Flow' /\ Piped
<1>1. /\ connected' = FALSE /\ phase' = "closed"
      /\ channel' = IF attempt = 0 THEN channel ELSE [channel EXCEPT ![attempt].near = "closed"]
      /\ UNCHANGED <<attached, transport, negotiation, outputBuffer, attempt, toClient, toServer, written, shown>>
  BY DEF socketCloses, server, user
<1>2. \A b \in Attempts : /\ channel'[b].down = channel[b].down
                          /\ channel'[b].near = IF b = attempt THEN "closed" ELSE channel[b].near
  <2>1. CASE attempt = 0
    BY <1>1, <2>1, Known
  <2>2. CASE attempt # 0
    <3> DEFINE d == [channel EXCEPT ![attempt].near = "closed"]
    <3>1. attempt \in Attempts /\ channel \in Channels /\ "closed" \in Ends /\ channel' = d
      BY <1>1, <2>2, Known DEF Ends
    <3>2. d = [channel EXCEPT ![attempt].near = "closed"]
      OBVIOUS
    <3> HIDE DEF d
    <3>3. Other(d, attempt) /\ d[attempt].near = "closed" /\ d[attempt].down = channel[attempt].down
      BY <3>1, <3>2, NearSet
    <3>4. QED BY <3>1, <3>3 DEF Other
  <2>3. QED BY <2>1, <2>2
<1>3. Flow'
  BY <1>1, <1>2, BrowserFlows
<1>4. OnItsWay' = <<>> /\ ~Joined'
  BY <1>1, QueueIs DEF Joined
<1>5. OnItsWay \in Seq(Nat) /\ <<>> \in Seq(Nat)
  BY Ways
<1>6. <<>> \o OnItsWay = OnItsWay
  BY <1>5, ConcatEmptySeq
<1>7. Piped
  BY <1>1, <1>4, <1>5, <1>6, Cuts
<1>8. QED BY <1>3, <1>7

\* The channel carries all of the queue once it carries anything, to a browser that reads it.
LEMMA AllDirect ==
  ASSUME IInv, Flow, attempt # 0, channel[attempt].near = "open", channel[attempt].down # <<>>, connected
  PROVE  /\ OutputOn(toClient) = <<>> /\ outputBuffer = <<>> /\ Direct = channel[attempt].down
         /\ OnItsWay = OutputOn(Direct) /\ OutputOn(Direct) \in Seq(Nat) /\ Handed
<1>1. attempt \in Attempts /\ Handed
  BY Known DEF Handed
<1>2. OutputOn(toClient) = <<>>
  <2>1. ~Has(toClient, "output")
    BY <1>1 DEF Flow
  <2>2. QED BY <2>1, Ways, OutputIn
<1>3. outputBuffer = <<>>
  <2>1. attached => transport = "webrtc"
    BY <1>1 DEF IInv, Paths
  <2>2. transport # "switching"
    BY <2>1, Ways
  <2>3. QED BY <2>2, Ways
<1>4. Direct = channel[attempt].down
  BY DEF Direct
<1>5. OutputOn(Direct) \in Seq(Nat)
  BY Ways
<1>6. OnItsWay = <<>> \o <<>> \o OutputOn(Direct)
  BY <1>2, <1>3, QueueIs DEF Queue
<1>7. <<>> \o <<>> \o OutputOn(Direct) = OutputOn(Direct)
  <2>1. <<>> \in Seq(Nat)
    OBVIOUS
  <2>2. QED BY <1>5, <2>1, QueueParts
<1>8. QED BY <1>1, <1>2, <1>3, <1>4, <1>5, <1>6, <1>7

\* A message of the channel was read.
LEMMA DirectRead ==
  ASSUME IInv, Flow, attempt # 0, channel[attempt].near = "open", channel[attempt].down # <<>>,
         connected, phase \in {"switching", "active"}, phase' \in {phase, "active"},
         UNCHANGED <<server, connected, attempt, toClient, toServer, written>>,
         channel'[attempt].down = Tail(channel[attempt].down),
         channel'[attempt].near = channel[attempt].near,
         \A b \in Attempts \ {attempt} : channel'[b] = channel[b],
         LET h == Head(channel[attempt].down)
         IN shown' = IF h.kind = "output" THEN Append(shown, h.n) ELSE shown
  PROVE  Flow' /\ Piped
<1> DEFINE q == channel[attempt].down
           h == Head(q)
<1>1. UNCHANGED <<attached, transport, negotiation, outputBuffer>>
  BY DEF server
<1>2. attempt \in Attempts /\ q \in Seq(Message) /\ q # <<>>
  BY Known
<1>3. /\ OutputOn(toClient) = <<>> /\ outputBuffer = <<>> /\ OnItsWay = OutputOn(q)
      /\ OutputOn(q) \in Seq(Nat) /\ Handed
  BY AllDirect
<1>4. Direct' = Tail(q)
  BY <1>2 DEF Direct
<1> HIDE DEF q
<1>5. /\ OutputOn(Tail(q)) \in Seq(Nat)
      /\ h.kind # "output" => OutputOn(Tail(q)) = OutputOn(q)
      /\ h.kind = "output" => OutputOn(q) = <<h.n>> \o OutputOn(Tail(q)) /\ h.n \in Nat
  BY <1>2, OutputIn
<1>6. OnItsWay' = OutputOn(Tail(q))
  <2>1. OnItsWay' = <<>> \o <<>> \o OutputOn(Tail(q))
    BY <1>1, <1>3, <1>4, QueueIs DEF Queue
  <2>2. <<>> \o <<>> \o OutputOn(Tail(q)) = OutputOn(Tail(q))
    <3>1. <<>> \in Seq(Nat)
      OBVIOUS
    <3>2. QED BY <1>5, <3>1, QueueParts
  <2>3. QED BY <2>1, <2>2
<1>7. Flow'
  <2>1. ~Has(toClient, "output")
    BY <1>3 DEF Flow
  <2>2. \A b \in Attempts : /\ channel'[b].near = channel[b].near
                            /\ channel'[b].down # <<>> => channel[b].down # <<>>
    BY <1>2 DEF q
  <2>3. Turned => negotiation \in Attempts
    BY Ways DEF Turned
  <2>4. Turned' => Turned
    BY <1>1 DEF Turned
  <2>5. QED BY <1>1, <2>1, <2>2, <2>3, <2>4 DEF Flow
<1>8. Joined' <=> Joined
  BY <1>1 DEF Joined
<1>9. CASE h.kind = "output"
  <2>1. shown' = Append(shown, h.n)
    BY <1>9 DEF q
  <2> DEFINE n == h.n
  <2>2. n \in Nat /\ shown' = Append(shown, n) /\ OnItsWay = <<n>> \o OnItsWay' /\ OnItsWay' \in Seq(Nat)
    BY <1>3, <1>5, <1>6, <1>9, <2>1
  <2> HIDE DEF n
  <2>3. Piped
    BY <1>8, <2>2, Shows
  <2>4. QED BY <1>7, <2>3
<1>10. CASE h.kind # "output"
  <2>1. shown' = shown
    BY <1>10 DEF q
  <2>2. OnItsWay' = OnItsWay
    BY <1>3, <1>5, <1>6, <1>10
  <2>3. QED BY <1>7, <1>8, <2>1, <2>2, Rests
<1>11. QED BY <1>9, <1>10

\* The next message of the channel.
LEMMA HandleChannelMessageFlows ==
  ASSUME IInv, Flow, handleChannelMessage
  PROVE  Flow' /\ Piped
<1> DEFINE h == Head(channel[attempt].down)
           r == Tail(channel[attempt].down)
<1>1. /\ attempt # 0 /\ channel[attempt].near = "open" /\ channel[attempt].down # <<>>
      /\ UNCHANGED <<server, attempt, offered, answered, toClient, toServer, written, typed, entered>>
  BY DEF handleChannelMessage
<1>2. /\ attempt \in Attempts /\ channel[attempt].down \in Seq(Message) /\ r \in Seq(Message)
      /\ channel \in Channels
  <2>1. attempt \in Attempts /\ channel[attempt].down \in Seq(Message) /\ channel \in Channels
    BY <1>1, Known
  <2>2. QED BY <1>1, <2>1
<1>3. UNCHANGED <<attached, transport, negotiation, outputBuffer>>
  BY <1>1 DEF server
<1>4. CASE phase = "active"
  <2>1. /\ shown' = IF h.kind = "output" THEN Append(shown, h.n) ELSE shown
        /\ channel' = [channel EXCEPT ![attempt].down = r]
        /\ UNCHANGED <<phase, inputBuffer, directActive, connected>>
    BY <1>4 DEF handleChannelMessage
  <2>2. /\ channel'[attempt].down = r /\ channel'[attempt].near = channel[attempt].near
        /\ \A b \in Attempts \ {attempt} : channel'[b] = channel[b]
    <3> DEFINE d == [channel EXCEPT ![attempt].down = r]
    <3>1. channel' = d /\ d = [channel EXCEPT ![attempt].down = r]
      BY <2>1
    <3> HIDE DEF d, r
    <3>2. Other(d, attempt) /\ d[attempt].near = channel[attempt].near /\ d[attempt].down = r
      BY <1>2, <3>1, DownSet, ZenonT(40)
    <3>3. QED BY <3>1, <3>2 DEF Other
  <2>3. connected
    BY <1>4 DEF IInv, Types, Rules
  <2>4. QED BY <1>1, <1>4, <2>1, <2>2, <2>3, DirectRead
<1>5. CASE phase # "active"
  <2>1. /\ phase = "switching" /\ UNCHANGED shown
        /\ IF h.kind = "ready" THEN becomesActive(attempt, r) ELSE fail(FALSE)
    BY <1>5 DEF handleChannelMessage
  <2>2. CASE fail(FALSE) \/ fail(TRUE)
    BY <1>1, <1>3, <2>1, <2>2, FailFlows
  <2>3. CASE /\ h.kind = "ready" /\ phase' = "active" /\ UNCHANGED connected
             /\ channel' = [channel EXCEPT ![attempt].down = r, ![attempt].up = @ \o Pieces("input", inputBuffer)]
    <3>1. /\ channel'[attempt].down = r /\ channel'[attempt].near = channel[attempt].near
          /\ \A b \in Attempts \ {attempt} : channel'[b] = channel[b]
      BY <1>2, <2>3 DEF Channels
    <3>2. connected
      BY <2>1 DEF IInv, Types, Rules
    <3>3. shown' = IF h.kind = "output" THEN Append(shown, h.n) ELSE shown
      BY <2>1, <2>3
    <3>4. QED BY <1>1, <2>1, <2>3, <3>1, <3>2, <3>3, DirectRead
  <2>4. QED BY <2>1, <2>2, <2>3, Zenon DEF becomesActive
<1>6. QED BY <1>4, <1>5

\* Input moves no output.
LEMMA SendTerminalDataFlows ==
  ASSUME IInv, Flow, sendTerminalData
  PROVE  Flow' /\ Piped
<1>1. /\ connected /\ typed' = typed + 1
      /\ UNCHANGED <<attached, transport, negotiation, outputBuffer, attempt, toClient, written, shown>>
  BY DEF sendTerminalData, server
<1>2. Len(inputBuffer) \in Nat /\ Capacity \in Nat /\ typed' \in Nat
  BY <1>1, Known DEF IInv, Types, Streams
<1>3. ASSUME UNCHANGED <<phase, connected>>, Has(toServer', "activate") => Has(toServer, "activate"),
             \A b \in Attempts : channel'[b].near = channel[b].near /\ channel'[b].down = channel[b].down
      PROVE  Flow' /\ Piped
  <2>1. Flow'
    BY <1>1, <1>3, QuietFlows
  <2>2. Piped
    BY <1>1, <1>3, Stays
  <2>3. QED BY <2>1, <2>2
<1>4. CASE fail(TRUE) /\ UNCHANGED toServer
  BY <1>1, <1>4, FailFlows
<1>5. CASE phase = "switching" /\ Len(inputBuffer) < Capacity
  <2>1. phase # "active" /\ ~(Len(inputBuffer) >= Capacity)
    BY <1>2, <1>5
  <2>2. UNCHANGED <<phase, channel, directActive, connected, toServer>>
    BY <1>5, <2>1, Zenon DEF sendTerminalData
  <2>3. QED BY <1>3, <2>2
<1>6. CASE phase = "switching" /\ Len(inputBuffer) >= Capacity
  <2>1. phase # "active" /\ ~(Len(inputBuffer) < Capacity)
    BY <1>2, <1>6
  <2>2. fail(TRUE) /\ UNCHANGED toServer
    BY <1>6, <2>1, Zenon DEF sendTerminalData
  <2>3. QED BY <1>4, <2>2
<1>7. CASE phase = "active"
  <2>1. phase # "switching"
    BY <1>7
  <2>2. /\ \/ /\ channel' = [channel EXCEPT ![attempt].up = @ \o Pieces("input", <<typed'>>)]
              /\ UNCHANGED <<phase, inputBuffer, directActive, connected>>
           \/ fail(TRUE)
        /\ UNCHANGED toServer
    BY <1>7, <2>1, Zenon DEF sendTerminalData
  <2>3. CASE /\ channel' = [channel EXCEPT ![attempt].up = @ \o Pieces("input", <<typed'>>)]
             /\ UNCHANGED <<phase, inputBuffer, directActive, connected>>
    <3>1. attempt \in Attempts
      BY <1>7, Known DEF IInv, Types, Rules
    <3>2. \A b \in Attempts : channel'[b].near = channel[b].near /\ channel'[b].down = channel[b].down
      BY <1>2, <2>3, <3>1, UpSent
    <3>3. QED BY <1>3, <2>2, <2>3, <3>2
  <2>4. QED BY <1>4, <2>2, <2>3
<1>8. CASE phase # "active" /\ phase # "switching"
  <2>1. /\ toServer' = toServer \o Pieces("input", <<typed'>>)
        /\ UNCHANGED <<phase, channel, inputBuffer, directActive, connected>>
    BY <1>8, Zenon DEF sendTerminalData
  <2>2. Has(toServer', "activate") => Has(toServer, "activate")
    <3>1. Grows(toServer, toServer', {"input"}, OfKind("input", {typed'}))
      BY <1>2, <2>1, Known, PieceSent DEF Kinds
    <3>2. QED BY <3>1 DEF Grows
  <2>3. QED BY <1>3, <2>1, <2>2
<1>9. Len(inputBuffer) < Capacity \/ Len(inputBuffer) >= Capacity
  BY <1>2
<1>10. QED BY <1>5, <1>6, <1>7, <1>8, <1>9

\* Nothing is under way at first.
LEMMA InitFlows ==
  ASSUME Init
  PROVE  Flow /\ Pipe!Init
<1>1. /\ attached = TRUE /\ transport = "websocket" /\ negotiation = 0 /\ outputBuffer = <<>>
      /\ connected = TRUE /\ phase = "idle" /\ attempt = 0
      /\ toClient = <<>> /\ toServer = <<>> /\ written = 0 /\ shown = <<>>
      /\ \A a \in Attempts : channel[a].near = "new" /\ channel[a].down = <<>>
  BY DEF Init
<1>2. Flow
  <2>1. ~Turned /\ ~Handed
    BY <1>1 DEF Turned, Handed
  <2>2. \A a \in Attempts : a # 0 /\ ~(a < 0)
    BY TransportAssumption DEF Attempts
  <2>3. QED BY <1>1, <2>1, <2>2 DEF Flow
<1>3. OnItsWay = <<>>
  <2>1. <<>> \in Seq(Message) /\ <<>> \in Seq(Nat)
    OBVIOUS
  <2>2. OutputOn(<<>>) = <<>>
    BY <2>1, OutputIn, Nothing
  <2>3. OnItsWay = <<>> \o <<>> \o <<>>
    BY <1>1, <2>2, QueueIs DEF Queue, Direct
  <2>4. <<>> \o <<>> \o <<>> = <<>>
    BY <2>1, QueueParts
  <2>5. QED BY <2>3, <2>4
<1>4. Joined = TRUE
  BY <1>1 DEF Joined
<1>5. QED BY <1>1, <1>2, <1>3, <1>4 DEF Pipe!Init

\* Every step is one of the pipe, or none.
LEMMA NextFlows ==
  ASSUME IInv, Flow, [Next]_vars
  PROVE  Flow' /\ Piped
<1>1. CASE ServerStep
  <2>1. CASE negotiationTimer \/ AttachmentEnds \/ LeaseElapses \/ LeaseExpires \/ renewLease
    BY <2>1, TimersFlow
  <2>2. CASE message \/ routeTerminalOutput
    BY <2>2, MessageFlows, RouteTerminalOutputFlows
  <2>3. CASE \E a \in Attempts :
               createAnswer(a) \/ acceptDataChannel(a) \/ farCloses(a) \/ handleDataChannelMessage(a)
    BY <2>3, CreateAnswerFlows, AcceptDataChannelFlows, FarClosesFlows, HandleDataChannelMessageFlows
  <2>4. QED BY <1>1, <2>1, <2>2, <2>3, Zenon DEF ServerStep
<1>2. CASE BrowserStep
  <2>1. CASE start \/ sendOffer \/ socketMessage \/ handleChannelMessage
    BY <2>1, StartFlows, SendOfferFlows, SocketMessageFlows, HandleChannelMessageFlows
  <2>2. CASE sendTerminalData \/ nearCloses \/ socketCloses
    BY <2>2, SendTerminalDataFlows, NearClosesFlows, SocketClosesFlows
  <2>3. CASE \E a \in Attempts : nearOpens(a)
    BY <2>3, NearOpensFlows
  <2>4. QED BY <1>2, <2>1, <2>2, <2>3, Zenon DEF BrowserStep
<1>3. CASE UNCHANGED vars
  <2>1. UNCHANGED <<attached, transport, negotiation, outputBuffer, connected, phase, attempt,
                    toClient, toServer, channel, written, shown>>
    BY <1>3 DEF vars, server, browser, user
  <2>2. Flow'
    BY <2>1, QuietFlows
  <2>3. Piped
    BY <2>1, Stays
  <2>4. QED BY <2>2, <2>3
<1>4. QED BY <1>1, <1>2, <1>3 DEF Next

\* Both invariants are of the specification.
LEMMA FlowInvariant ==
  Spec => [](IInv /\ Flow)
<1>1. Init => IInv /\ Flow
  BY InitHolds, InitFlows
<1>2. IInv /\ Flow /\ [Next]_vars => IInv' /\ Flow'
  BY NextKeeps, NextFlows
<1>3. QED BY <1>1, <1>2, PTL DEF Spec

\* Output is shown in the order the terminal wrote it, once, and without a gap as long as the two
\* halves belong together and no switch holds back more than its buffer takes, before, during and
\* after a switch or a fallback (routeTerminalOutput and activateWebRtc of TerminalAttachmentManager,
\* the message listeners of useTerminalAttachment and TerminalWebRtcUpgrade): every step is one of
\* BytePipe, or none.
THEOREM OutputIsPiped ==
  Spec => Pipe!Init /\ [][Pipe!Next]_(Pipe!vars)
<1>1. Init => Pipe!Init
  BY InitFlows
<1>2. IInv /\ Flow /\ [Next]_vars => [Pipe!Next]_(Pipe!vars)
  BY NextFlows DEF Piped
<1>3. QED BY <1>1, <1>2, FlowInvariant, PTL DEF Spec
\* In particular, nothing is shown twice or before what was written earlier, and nothing that was not
\* written, whatever switches, falls back, overflows or breaks.
THEOREM OutputStaysInOrder == Spec => []Pipe!ShownInOrder
<1> DEFINE InOrder == Delivered(written, OnItsWay, shown)
<1>1. Pipe!Init => InOrder
  BY NothingDelivered DEF Pipe!Init
<1>2. InOrder /\ [Pipe!Next]_(Pipe!vars) => InOrder'
  <2> SUFFICES ASSUME InOrder, [Pipe!Next]_(Pipe!vars)
               PROVE  InOrder'
    OBVIOUS
  <2>1. written \in Nat
    BY DEF Delivered
  <2>2. CASE Pipe!Write
    <3>1. /\ written' = written + 1 /\ shown' = shown
          /\ OnItsWay' \in {OnItsWay, Append(OnItsWay, written + 1)}
      BY <2>2 DEF Pipe!Write
    <3>2. QED BY <3>1, DeliveredOn
  <2>3. CASE Pipe!Show
    BY <2>3, DeliveredOn DEF Pipe!Show
  <2>4. CASE Pipe!Cut
    <3>1. PICK kept \in 0..Len(OnItsWay) : OnItsWay' = SubSeq(OnItsWay, 1, kept)
      BY <2>4 DEF Pipe!Cut
    <3>2. written' \in {written, written + 1} /\ shown' = shown
      BY <2>4 DEF Pipe!Cut
    <3>3. QED BY <3>1, <3>2, DeliveredOn
  <2>5. CASE UNCHANGED Pipe!vars
    BY <2>5 DEF Pipe!vars
  <2>6. QED BY <2>2, <2>3, <2>4, <2>5 DEF Pipe!Next
<1>3. InOrder => Pipe!ShownInOrder
  BY DEF Delivered, Ascends, Range, Pipe!ShownInOrder
<1> HIDE DEF InOrder
<1>4. QED BY <1>1, <1>2, <1>3, OutputIsPiped, PTL
=============================================================================
