--------------------------- MODULE ReviewMarksProofs ---------------------------
(***************************************************************************)
(* Proofs about the review marks: the types, with one request under way    *)
(* for a busy client (TypeOK), and that a client is never sent a mark that *)
(* nobody made (RefreshedMarksMade).                                       *)
(***************************************************************************)
EXTENDS ReviewMarks, FiniteSetTheorems, SequenceTheorems, TLAPS

\* A request that keeps its client busy.
Waits(p, c) == p.client = c /\ p.kind # "undo"

\* The types, and what they need to last: the requests in flight have different numbers, none of them
\* in the future, and store no more than they ask for; a client is busy with exactly one.
ServerTypes ==
  /\ content \in Contents /\ snapshot \in Contents /\ store \in Marks /\ revision \in Nat
  /\ build \in Marks \cup {None}
EventTypes ==
  /\ stream \in [Clients -> [operation : Contents, revision : Nat]]
  /\ inbox \in [Clients -> Seq(Event)]
ClientTypes ==
  /\ rows \in [Clients -> Marks] /\ gets \in [Clients -> Seq(Get)]
  /\ undo \in [Clients -> Undo \cup {None}]
  /\ made \subseteq Files \X Revisions /\ lapses \subseteq {"put back", "passed over"}
  /\ incidents \in 0..MaxIncidents
Numbered(P, n) ==
  /\ P \subseteq Put
  /\ \A p \in P : /\ p.id <= n /\ p.todo \subseteq DOMAIN p.targets
                  /\ p.phase = "stored" => p.todo = {}
  /\ \A p, q \in P : p.id = q.id => p = q
OneEach(P, b) ==
  /\ b \in [Clients -> BOOLEAN]
  /\ \A c \in Clients : /\ b[c] <=> (\E p \in P : Waits(p, c))
                        /\ \A p, q \in P : Waits(p, c) /\ Waits(q, c) => p = q

\* Every mark that is stored, read for a snapshot or an answer, or asked for, was made by a user.
MadeIn(marks, M)  == \A f \in Files : marks[f].reviewed => <<f, marks[f].rev>> \in M
ReadIn(answers, M) == \A i \in DOMAIN answers : MadeIn(answers[i].marks, M)
AskedIn(P, M)     == \A p \in P : p.reviewed => \A f \in DOMAIN p.targets : <<f, p.targets[f]>> \in M
MarksMade ==
  /\ MadeIn(store, made)
  /\ build # None => MadeIn(build, made)
  /\ \A c \in Clients : ReadIn(gets[c], made)
  /\ AskedIn(puts, made)

\* What the fetches of the clients failed to get; only its type is needed.
MissedTyped == missed \in [Clients -> SUBSET {"changes", "reviews"}]

IInv ==
  /\ ServerTypes /\ EventTypes /\ ClientTypes
  /\ Numbered(puts, incidents) /\ OneEach(puts, busy)
  /\ MarksMade

-----------------------------------------------------------------------------
(* The data.                                                               *)

\* It implies the type invariant of the model.
LEMMA Typed ==
  IInv /\ MissedTyped => TypeOK
<1> SUFFICES ASSUME IInv, MissedTyped
             PROVE  TypeOK
  OBVIOUS
<1>1. /\ ServerTypes /\ EventTypes /\ ClientTypes
      /\ Numbered(puts, incidents) /\ OneEach(puts, busy)
  BY DEF IInv
<1>2. ASSUME NEW c \in Clients
      PROVE  busy[c] <=> Cardinality({p \in puts : p.client = c /\ p.kind # "undo"}) = 1
  <2> DEFINE W == {p \in puts : p.client = c /\ p.kind # "undo"}
  <2>1. CASE busy[c]
    <3>1. PICK p \in puts : Waits(p, c)
      BY <1>1, <2>1 DEF OneEach
    <3>2. W = {p}
      BY <1>1, <3>1 DEF OneEach, Waits
    <3>3. Cardinality(W) = 1
      BY <3>2, FS_Singleton
    <3>4. QED BY <2>1, <3>3
  <2>2. CASE ~busy[c]
    <3>1. W = {}
      BY <1>1, <2>2 DEF OneEach, Waits
    <3>2. Cardinality(W) = 0
      BY <3>1, FS_EmptySet
    <3>3. QED BY <2>2, <3>2
  <2>3. QED BY <2>1, <2>2
<1>3. QED BY <1>1, <1>2 DEF TypeOK, ServerTypes, EventTypes, ClientTypes, Numbered, OneEach, MissedTyped

\* The parts of a mark and of marks.
LEMMA MarkParts ==
  /\ \A rev \in Revisions, reviewed \in BOOLEAN : [rev |-> rev, reviewed |-> reviewed] \in Mark
  /\ \A marks \in Marks : \A f \in Files :
       /\ marks[f] \in Mark /\ marks[f].rev \in Revisions /\ marks[f].reviewed \in BOOLEAN
       /\ \A b \in BOOLEAN : [marks[f] EXCEPT !.reviewed = b] = [rev |-> marks[f].rev, reviewed |-> b]
BY DEF Marks, Mark

\* The parts of a request.
LEMMA PutParts ==
  ASSUME NEW p \in Put
  PROVE  /\ p.id \in 1..MaxIncidents /\ p.client \in Clients \cup {None}
         /\ p.kind \in {"one", "undo", "all"} /\ DOMAIN p.targets \subseteq Files
         /\ \A f \in DOMAIN p.targets : p.targets[f] \in Revisions
         /\ p.reviewed \in BOOLEAN /\ p.previous \in BOOLEAN
         /\ p.phase \in {"sent", "waiting", "accepted", "stored", "failed"} /\ p.todo \subseteq Files
         /\ p.targets \in UNION {[T -> Revisions] : T \in SUBSET Files}
<1>1. /\ p.id \in 1..MaxIncidents /\ p.client \in Clients \cup {None}
      /\ p.kind \in {"one", "undo", "all"}
      /\ p.reviewed \in BOOLEAN /\ p.previous \in BOOLEAN
      /\ p.phase \in {"sent", "waiting", "accepted", "stored", "failed"} /\ p.todo \subseteq Files
      /\ p.targets \in UNION {[T -> Revisions] : T \in SUBSET Files}
  BY DEF Put
<1>2. PICK T \in SUBSET Files : p.targets \in [T -> Revisions]
  BY <1>1
<1>3. QED BY <1>1, <1>2

\* What the steps change of a request.
LEMMA PutChanged ==
  ASSUME NEW p \in Put,
         NEW x \in {"sent", "waiting", "accepted", "stored", "failed"}, NEW T \in SUBSET Files
  PROVE  /\ [p EXCEPT !.client = None] \in Put
         /\ [p EXCEPT !.phase = x] \in Put
         /\ [p EXCEPT !.todo = T, !.phase = x] \in Put
         /\ LET q == [p EXCEPT !.client = None]
            IN /\ q.id = p.id /\ q.kind = p.kind /\ q.reviewed = p.reviewed /\ q.targets = p.targets
               /\ q.phase = p.phase /\ q.todo = p.todo /\ q.client = None
         /\ LET q == [p EXCEPT !.phase = x]
            IN /\ q.id = p.id /\ q.kind = p.kind /\ q.reviewed = p.reviewed /\ q.targets = p.targets
               /\ q.phase = x /\ q.todo = p.todo /\ q.client = p.client
         /\ LET q == [p EXCEPT !.todo = T, !.phase = x]
            IN /\ q.id = p.id /\ q.kind = p.kind /\ q.reviewed = p.reviewed /\ q.targets = p.targets
               /\ q.phase = x /\ q.todo = T /\ q.client = p.client
BY DEF Put

\* Marks stay made.
LEMMA MadeGrows ==
  ASSUME NEW M, NEW N, M \subseteq N
  PROVE  /\ \A marks : MadeIn(marks, M) => MadeIn(marks, N)
         /\ \A answers : ReadIn(answers, M) => ReadIn(answers, N)
         /\ \A P : AskedIn(P, M) => AskedIn(P, N)
<1>1. \A marks : MadeIn(marks, M) => MadeIn(marks, N)
  BY DEF MadeIn
<1>2. QED BY <1>1 DEF ReadIn, AskedIn

\* A fetch is asked for, and one is answered.
LEMMA Asked ==
  ASSUME NEW M, NEW s \in Seq(Get), ReadIn(s, M), NEW g \in Get, MadeIn(g.marks, M)
  PROVE  Append(s, g) \in Seq(Get) /\ ReadIn(Append(s, g), M)
<1>1. /\ Append(s, g) \in Seq(Get) /\ DOMAIN Append(s, g) = 1..(Len(s) + 1) /\ DOMAIN s = 1..Len(s)
      /\ Len(s) \in Nat /\ Append(s, g)[Len(s) + 1] = g
      /\ \A i \in 1..Len(s) : Append(s, g)[i] = s[i]
  OBVIOUS
<1>2. \A i \in 1..(Len(s) + 1) : i \in 1..Len(s) \/ i = Len(s) + 1
  BY <1>1
<1>3. QED BY <1>1, <1>2 DEF ReadIn

\* The oldest fetch is answered.
LEMMA Read ==
  ASSUME NEW M, NEW s \in Seq(Get), ReadIn(s, M), s # <<>>
  PROVE  Tail(s) \in Seq(Get) /\ ReadIn(Tail(s), M) /\ Head(s) \in Get /\ MadeIn(Head(s).marks, M)
<1>1. /\ Tail(s) \in Seq(Get) /\ DOMAIN Tail(s) = 1..(Len(s) - 1) /\ DOMAIN s = 1..Len(s)
      /\ Len(s) \in Nat /\ Len(s) >= 1 /\ Head(s) = s[1] /\ Head(s) \in Get
      /\ \A i \in 1..(Len(s) - 1) : Tail(s)[i] = s[i + 1]
  OBVIOUS
<1>2. \A i \in 1..(Len(s) - 1) : i + 1 \in 1..Len(s)
  BY <1>1
<1>3. 1 \in 1..Len(s)
  BY <1>1
<1>4. QED BY <1>1, <1>2, <1>3 DEF ReadIn

\* A request moves on, or is over: the others stay as they are.
LEMMA Replaced ==
  ASSUME NEW P, NEW M, NEW n, Numbered(P, n), AskedIn(P, M), NEW p \in P, NEW q \in Put,
         q.id = p.id, q.reviewed = p.reviewed, q.targets = p.targets, q.todo \subseteq p.todo,
         q.phase = "stored" => q.todo = {},
         NEW R, R = (P \ {p}) \cup {q} \/ R = P \ {p}
  PROVE  Numbered(R, n) /\ AskedIn(R, M)
<1>1. R \subseteq Put /\ \A r \in R : r = q \/ (r \in P /\ r # p)
  BY DEF Numbered
<1>2. \A r \in R : /\ r.id <= n /\ r.todo \subseteq DOMAIN r.targets
                  /\ r.phase = "stored" => r.todo = {}
  BY <1>1 DEF Numbered
<1>3. \A r, s \in R : r.id = s.id => r = s
  BY <1>1 DEF Numbered
<1>4. AskedIn(R, M)
  BY <1>1 DEF AskedIn
<1>5. QED BY <1>1, <1>2, <1>3, <1>4 DEF Numbered

\* A request that moves on keeps its client busy, if it did;
LEMMA MovesOn ==
  ASSUME NEW P, NEW b, OneEach(P, b), NEW p \in P, NEW q, q.client = p.client, q.kind = p.kind,
         NEW R, R = (P \ {p}) \cup {q} \/ (p.client = None /\ R = P \ {p}), None \notin Clients
  PROVE  OneEach(R, b)
<1>1. \A c \in Clients : Waits(q, c) <=> Waits(p, c)
  BY DEF Waits
<1>2. p.client = None => \A c \in Clients : ~Waits(p, c)
  BY DEF Waits
<1>3. QED BY <1>1, <1>2 DEF OneEach

\* one that is over, or goes on without its client, gives it back.
LEMMA GivesBack ==
  ASSUME NEW P, NEW b, OneEach(P, b), NEW p \in P, p.client \in Clients, NEW q, q.client = None,
         NEW R, R = (P \ {p}) \cup {q} \/ R = P \ {p}, None \notin Clients
  PROVE  OneEach(R, [b EXCEPT ![p.client] = @ /\ p.kind = "undo"])
<1> DEFINE d == [b EXCEPT ![p.client] = @ /\ p.kind = "undo"]
<1>1. \A c \in Clients : ~Waits(q, c)
  BY DEF Waits
<1>2. b \in [Clients -> BOOLEAN]
  BY DEF OneEach
<1>3. d \in [Clients -> BOOLEAN]
  <2>1. (b[p.client] /\ p.kind = "undo") \in BOOLEAN
    OBVIOUS
  <2>2. QED BY <1>2, <2>1
<1>4. ASSUME NEW c \in Clients
      PROVE  /\ d[c] <=> (\E r \in R : Waits(r, c))
             /\ \A r, s \in R : Waits(r, c) /\ Waits(s, c) => r = s
  <2>1. \A r \in R : Waits(r, c) => r \in P /\ r # p
    BY <1>1
  <2>2. /\ b[c] <=> (\E r \in P : Waits(r, c))
        /\ \A r, s \in P : Waits(r, c) /\ Waits(s, c) => r = s
    BY DEF OneEach
  <2>3. d[c] <=> (b[c] /\ (c = p.client => p.kind = "undo"))
    BY <1>2
  <2>4. CASE Waits(p, c)
    <3>1. ~d[c]
      BY <2>3, <2>4 DEF Waits
    <3>2. \A r \in R : ~Waits(r, c)
      BY <2>1, <2>2, <2>4
    <3>3. QED BY <3>1, <3>2
  <2>5. CASE ~Waits(p, c)
    <3>1. d[c] <=> b[c]
      BY <2>3, <2>5 DEF Waits
    <3>2. (\E r \in R : Waits(r, c)) <=> (\E r \in P : Waits(r, c))
      BY <2>1, <2>5
    <3>3. QED BY <2>1, <2>2, <3>1, <3>2
  <2>6. QED BY <2>4, <2>5
<1>5. QED BY <1>3, <1>4 DEF OneEach
-----------------------------------------------------------------------------
(* The steps of the users and the clients.                                 *)

\* A mark is shown at once.
LEMMA Shown ==
  ASSUME IInv, NEW c \in Clients, NEW T \in SUBSET Files, NEW reviewed \in BOOLEAN,
         ShowMark(c, T, reviewed)
  PROVE  rows' \in [Clients -> Marks]
<1>1. rows \in [Clients -> Marks] /\ rows[c] \in Marks
  BY DEF IInv, ClientTypes
<1> DEFINE m == [f \in Files |-> IF f \in T THEN [rows[c][f] EXCEPT !.reviewed = reviewed] ELSE rows[c][f]]
<1>2. m \in Marks
  <2>1. ASSUME NEW f \in Files
        PROVE  (IF f \in T THEN [rows[c][f] EXCEPT !.reviewed = reviewed] ELSE rows[c][f]) \in Mark
    <3>1. rows[c][f] \in Mark
      BY <1>1, MarkParts
    <3>2. [rows[c][f] EXCEPT !.reviewed = reviewed] \in Mark
      BY <3>1 DEF Mark
    <3>3. QED BY <3>1, <3>2
  <2>2. QED BY <2>1 DEF Marks
<1>3. rows' = [rows EXCEPT ![c] = m]
  BY DEF ShowMark
<1> HIDE DEF m
<1>4. QED BY <1>1, <1>2, <1>3

\* A request is sent, under a new number.
LEMMA RequestSent ==
  ASSUME IInv, NEW c \in Clients, NEW kind \in {"one", "undo", "all"},
         NEW T \in SUBSET Files, NEW targets \in [T -> Revisions],
         NEW reviewed \in BOOLEAN, NEW previous \in BOOLEAN,
         Request(c, kind, targets, reviewed, previous),
         undo' \in [Clients -> Undo \cup {None}],
         \/ kind = "undo" /\ busy' = busy
         \/ kind # "undo" /\ ~busy[c] /\ busy' = [busy EXCEPT ![c] = TRUE]
  PROVE  IInv'
<1> DEFINE p == [id |-> incidents', client |-> c, kind |-> kind, targets |-> targets,
                 reviewed |-> reviewed, previous |-> previous, phase |-> "sent", todo |-> DOMAIN targets]
<1>1. /\ incidents < MaxIncidents /\ incidents' = incidents + 1 /\ puts' = puts \cup {p}
      /\ made' = IF reviewed THEN made \cup {<<f, targets[f]>> : f \in DOMAIN targets} ELSE made
      /\ ShowMark(c, DOMAIN targets, reviewed)
      /\ UNCHANGED <<content, store, revision, build, snapshot, stream, inbox, gets, lapses>>
  BY DEF Request, Incident, serverVars, eventVars
<1>2. /\ ServerTypes /\ EventTypes /\ ClientTypes /\ Numbered(puts, incidents) /\ OneEach(puts, busy)
      /\ MarksMade
  BY DEF IInv
<1>3. incidents \in Nat /\ incidents' \in 1..MaxIncidents /\ incidents' \in 0..MaxIncidents
      /\ ~(incidents' <= incidents) /\ \A i \in Nat : i <= incidents => i <= incidents'
  <2>1. incidents \in 0..MaxIncidents /\ MaxIncidents \in Nat
    BY <1>2, ReviewAssumption DEF ClientTypes
  <2>2. incidents < MaxIncidents /\ incidents' = incidents + 1
    BY <1>1
  <2> HIDE DEF p
  <2>3. QED BY <2>1, <2>2
<1>4. targets \in UNION {[S -> Revisions] : S \in SUBSET Files} /\ DOMAIN targets = T
  OBVIOUS
<1>5. p \in Put
  BY <1>3, <1>4 DEF Put
<1>6. /\ p.id = incidents' /\ p.client = c /\ p.kind = kind /\ p.phase = "sent" /\ p.reviewed = reviewed
      /\ p.targets = targets /\ p.todo = DOMAIN targets
  OBVIOUS
<1> HIDE DEF p
<1>7. rows' \in [Clients -> Marks]
  BY <1>1, <1>4, Shown
<1>8. made \subseteq made' /\ made' \subseteq Files \X Revisions
      /\ (reviewed => \A f \in DOMAIN targets : <<f, targets[f]>> \in made')
  <2>1. \A f \in DOMAIN targets : <<f, targets[f]>> \in Files \X Revisions
    BY <1>4
  <2>2. made \subseteq Files \X Revisions
    BY <1>2 DEF ClientTypes
  <2> DEFINE more == {<<f, targets[f]>> : f \in DOMAIN targets}
  <2>3. more \subseteq Files \X Revisions /\ \A f \in DOMAIN targets : <<f, targets[f]>> \in more
    BY <2>1
  <2>4. made' = IF reviewed THEN made \cup more ELSE made
    BY <1>1
  <2> HIDE DEF more
  <2>5. QED BY <2>2, <2>3, <2>4
<1>9. ServerTypes' /\ EventTypes' /\ ClientTypes'
  BY <1>1, <1>2, <1>3, <1>7, <1>8 DEF ServerTypes, EventTypes, ClientTypes
<1>10. Numbered(puts', incidents')
  <2>1. \A q \in puts : q.id \in Nat /\ q.id <= incidents /\ q \in Put
    BY <1>2, PutParts DEF Numbered
  <2>2. \A q \in puts : q.id <= incidents' /\ q.id # p.id
    BY <1>3, <1>6, <2>1
  <2>3. p.id <= incidents' /\ p.phase # "stored" /\ p.todo \subseteq DOMAIN p.targets
    BY <1>3, <1>6
  <2>4. /\ puts \subseteq Put /\ \A q, r \in puts : q.id = r.id => q = r
        /\ \A q \in puts : q.todo \subseteq DOMAIN q.targets /\ (q.phase = "stored" => q.todo = {})
    BY <1>2 DEF Numbered
  <2>5. /\ puts' \subseteq Put
        /\ \A q \in puts' : /\ q.id <= incidents' /\ q.todo \subseteq DOMAIN q.targets
                            /\ q.phase = "stored" => q.todo = {}
    BY <1>1, <1>5, <2>2, <2>3, <2>4
  <2>6. \A q, r \in puts' : q.id = r.id => q = r
    BY <1>1, <2>2, <2>4
  <2>7. QED BY <2>5, <2>6 DEF Numbered
<1>11. OneEach(puts', busy')
  <2>1. busy \in [Clients -> BOOLEAN]
    BY <1>2 DEF OneEach
  <2>2. CASE kind = "undo" /\ busy' = busy
    <3>1. \A d \in Clients : ~Waits(p, d)
      BY <1>6, <2>2 DEF Waits
    <3>2. QED BY <1>1, <1>2, <2>2, <3>1 DEF OneEach
  <2>3. CASE kind # "undo" /\ ~busy[c] /\ busy' = [busy EXCEPT ![c] = TRUE]
    <3>1. \A d \in Clients : Waits(p, d) <=> d = c
      BY <1>6, <2>3 DEF Waits
    <3>2. \A q \in puts : ~Waits(q, c)
      BY <1>2, <2>3 DEF OneEach
    <3>3. busy' \in [Clients -> BOOLEAN]
      BY <2>1, <2>3
    <3>4. \A d \in Clients : busy'[d] <=> (busy[d] \/ d = c)
      BY <2>1, <2>3
    <3>5. \A d \in Clients : /\ busy'[d] <=> (\E q \in puts' : Waits(q, d))
                             /\ \A q, r \in puts' : Waits(q, d) /\ Waits(r, d) => q = r
      BY <1>1, <1>2, <3>1, <3>2, <3>4 DEF OneEach
    <3>6. QED BY <3>3, <3>5 DEF OneEach
  <2>4. QED BY <2>2, <2>3
<1>12. MarksMade'
  <2>1. /\ MadeIn(store, made') /\ (build # None => MadeIn(build, made'))
        /\ (\A d \in Clients : ReadIn(gets[d], made')) /\ AskedIn(puts, made')
    BY <1>2, <1>8, MadeGrows DEF MarksMade
  <2>2. AskedIn(puts', made')
    BY <1>1, <1>6, <1>8, <2>1 DEF AskedIn
  <2>3. QED BY <1>1, <2>1, <2>2 DEF MarksMade
<1>13. QED BY <1>9, <1>10, <1>11, <1>12 DEF IInv

\* A mark, its removal, and the undo of either.
LEMMA UserKeeps ==
  ASSUME IInv, NEW c \in Clients,
         (\E f \in Files : SetReviewed(c, f)) \/ UnreviewMultiple(c) \/ UndoReview(c)
  PROVE  IInv'
<1>1. /\ rows \in [Clients -> Marks] /\ rows[c] \in Marks /\ undo \in [Clients -> Undo \cup {None}]
      /\ \A f \in Files : rows[c][f].rev \in Revisions /\ rows[c][f].reviewed \in BOOLEAN
  <2>1. rows \in [Clients -> Marks] /\ rows[c] \in Marks /\ undo \in [Clients -> Undo \cup {None}]
    BY DEF IInv, ClientTypes
  <2>2. QED BY <2>1, MarkParts
<1>2. \A T \in SUBSET Files : Targets(c, T) \in [T -> Revisions]
  BY <1>1 DEF Targets
<1>3. ASSUME NEW f \in Files, SetReviewed(c, f)
      PROVE  IInv'
  <2>1. /\ Request(c, "one", Targets(c, {f}), ~rows[c][f].reviewed, rows[c][f].reviewed)
        /\ ~busy[c] /\ busy' = [busy EXCEPT ![c] = TRUE] /\ undo' = undo
    BY <1>3 DEF SetReviewed
  <2>2. {f} \in SUBSET Files /\ (~rows[c][f].reviewed) \in BOOLEAN /\ rows[c][f].reviewed \in BOOLEAN
    BY <1>1
  <2>3. Targets(c, {f}) \in [{f} -> Revisions]
    BY <1>2, <2>2
  <2>4. undo' \in [Clients -> Undo \cup {None}]
    BY <1>1, <2>1
  <2>5. QED BY <2>1, <2>2, <2>3, <2>4, RequestSent
<1>4. CASE UnreviewMultiple(c)
  <2> DEFINE T == {f \in Files : rows[c][f].reviewed}
  <2>1. /\ Request(c, "all", Targets(c, T), FALSE, TRUE)
        /\ ~busy[c] /\ busy' = [busy EXCEPT ![c] = TRUE] /\ undo' = undo
    BY <1>4 DEF UnreviewMultiple
  <2>2. T \in SUBSET Files /\ Targets(c, T) \in [T -> Revisions]
    BY <1>2
  <2> HIDE DEF T
  <2>3. undo' \in [Clients -> Undo \cup {None}]
    BY <1>1, <2>1
  <2>4. QED BY <2>1, <2>2, <2>3, RequestSent
<1>5. CASE UndoReview(c)
  <2> DEFINE u == undo[c]
             t == [f \in {u.file} |-> u.rev]
  <2>1. /\ u # None /\ undo' = [undo EXCEPT ![c] = None] /\ busy' = busy
        /\ Request(c, "undo", t, u.reviewed, ~u.reviewed)
    BY <1>5 DEF UndoReview
  <2>2. u \in Undo
    BY <1>1, <2>1
  <2>3. {u.file} \in SUBSET Files /\ t \in [{u.file} -> Revisions] /\ u.reviewed \in BOOLEAN
    BY <2>2 DEF Undo
  <2>4. undo' \in [Clients -> Undo \cup {None}]
    BY <1>1, <2>1
  <2> HIDE DEF t
  <2>5. (~u.reviewed) \in BOOLEAN
    OBVIOUS
  <2>6. QED BY <2>1, <2>3, <2>4, <2>5, RequestSent
<1>6. QED BY <1>3, <1>4, <1>5

\* What a fetch adds, and that it finds or starts a snapshot.
LEMMA Fetched ==
  ASSUME IInv, NEW c \in Clients, NEW rest \in Seq(Get), ReadIn(rest, made),
         NEW kind \in {"changes", "reviews"}, Fetch(c, rest, kind)
  PROVE  /\ gets' \in [Clients -> Seq(Get)] /\ \A d \in Clients : ReadIn(gets'[d], made)
         /\ build' \in Marks \cup {None} /\ (build' # None => MadeIn(build', made))
<1> DEFINE g == [kind |-> kind, served |-> FALSE, marks |-> store]
<1>1. gets' = [gets EXCEPT ![c] = Append(rest, g)] /\ build' = Joined
  BY DEF Fetch
<1>2. /\ gets \in [Clients -> Seq(Get)] /\ \A d \in Clients : ReadIn(gets[d], made)
      /\ store \in Marks /\ MadeIn(store, made)
      /\ build \in Marks \cup {None} /\ (build # None => MadeIn(build, made))
  BY DEF IInv, ServerTypes, ClientTypes, MarksMade
<1>3. g \in Get /\ g.marks = store
  BY <1>2 DEF Get
<1> HIDE DEF g
<1>4. Append(rest, g) \in Seq(Get) /\ ReadIn(Append(rest, g), made)
  BY <1>2, <1>3, Asked
<1>5. build' \in Marks \cup {None} /\ (build' # None => MadeIn(build', made))
  BY <1>1, <1>2 DEF Joined
<1>6. QED BY <1>1, <1>2, <1>4, <1>5

\* What failing, or succeeding, changes of the client.
LEMMA Failed ==
  ASSUME IInv, NEW p \in puts, p.client \in Clients, Fails(p.client, p) \/ Succeeds(p.client, p)
  PROVE  /\ busy' = [busy EXCEPT ![p.client] = @ /\ p.kind = "undo"]
         /\ undo' \in [Clients -> Undo \cup {None}] /\ rows' \in [Clients -> Marks]
         /\ gets' \in [Clients -> Seq(Get)] /\ \A d \in Clients : ReadIn(gets'[d], made)
         /\ build' \in Marks \cup {None} /\ (build' # None => MadeIn(build', made))
         /\ lapses' \subseteq {"put back", "passed over"}
<1> DEFINE c == p.client
<1>1. /\ DOMAIN p.targets \in SUBSET Files /\ p.previous \in BOOLEAN
      /\ \A f \in DOMAIN p.targets : p.targets[f] \in Revisions
  BY PutParts DEF IInv, Numbered
<1>2. /\ rows \in [Clients -> Marks] /\ gets \in [Clients -> Seq(Get)]
      /\ undo \in [Clients -> Undo \cup {None}] /\ lapses \subseteq {"put back", "passed over"}
      /\ (\A d \in Clients : ReadIn(gets[d], made)) /\ gets[c] \in Seq(Get)
      /\ build \in Marks \cup {None} /\ (build # None => MadeIn(build, made))
  BY DEF IInv, ServerTypes, ClientTypes, MarksMade
<1>3. busy' = [busy EXCEPT ![p.client] = @ /\ p.kind = "undo"]
  BY DEF Fails, Succeeds, Done
<1>4. ASSUME NoFetch
      PROVE  /\ gets' \in [Clients -> Seq(Get)] /\ \A d \in Clients : ReadIn(gets'[d], made)
             /\ build' \in Marks \cup {None} /\ (build' # None => MadeIn(build', made))
  BY <1>2, <1>4 DEF NoFetch
<1>5. CASE Fails(c, p)
  <2>1. undo' \in [Clients -> Undo \cup {None}] /\ lapses' \subseteq {"put back", "passed over"}
    BY <1>2, <1>5 DEF Fails
  <2>2. rows' \in [Clients -> Marks]
    <3>1. CASE p.kind = "undo"
      BY <1>2, <1>5, <3>1 DEF Fails
    <3>2. CASE p.kind # "undo"
      <4>1. ShowMark(c, DOMAIN p.targets, p.previous)
        BY <1>5, <3>2 DEF Fails
      <4>2. QED BY <1>1, <4>1, Shown
    <3>3. QED BY <3>1, <3>2
  <2>3. CASE Refreshes(p)
    <3>1. Fetch(c, gets[c], "reviews")
      BY <1>5, <2>3 DEF Fails
    <3>2. QED BY <1>2, <1>3, <2>1, <2>2, <3>1, Fetched
  <2>4. CASE ~Refreshes(p)
    <3>1. NoFetch
      BY <1>5, <2>4 DEF Fails
    <3>2. QED BY <1>3, <1>4, <2>1, <2>2, <3>1
  <2>5. QED BY <2>3, <2>4
<1>6. CASE Succeeds(c, p)
  <2>1. NoFetch /\ rows' = rows /\ lapses' = lapses
    BY <1>6 DEF Succeeds
  <2>2. undo' \in [Clients -> Undo \cup {None}]
    <3>1. ASSUME NEW f \in DOMAIN p.targets
          PROVE  [file |-> f, rev |-> p.targets[f], reviewed |-> p.previous] \in Undo
      BY <1>1 DEF Undo
    <3>2. CASE undo' = undo
      BY <1>2, <3>2
    <3>3. CASE undo' = [undo EXCEPT ![c] = None]
      BY <1>2, <3>3
    <3>4. ASSUME NEW f \in DOMAIN p.targets,
                 undo' = [undo EXCEPT ![c] = [file |-> f, rev |-> p.targets[f], reviewed |-> p.previous]]
          PROVE  undo' \in [Clients -> Undo \cup {None}]
      <4> DEFINE u == [file |-> f, rev |-> p.targets[f], reviewed |-> p.previous]
      <4>1. u \in Undo /\ undo' = [undo EXCEPT ![c] = u]
        BY <3>1, <3>4
      <4> HIDE DEF u
      <4>2. QED BY <1>2, <4>1
    <3>5. QED BY <1>6, <3>2, <3>3, <3>4 DEF Succeeds
  <2>3. QED BY <1>2, <1>3, <1>4, <2>1, <2>2
<1>7. QED BY <1>5, <1>6
\* A failure or a change is counted: the requests keep their numbers.
LEMMA Counted ==
  ASSUME IInv, Incident, NEW P, Numbered(P, incidents)
  PROVE  Numbered(P, incidents') /\ incidents' \in 0..MaxIncidents
<1>1. incidents \in 0..MaxIncidents /\ MaxIncidents \in Nat /\ incidents < MaxIncidents
      /\ incidents' = incidents + 1
  BY ReviewAssumption DEF IInv, ClientTypes, Incident
<1>2. incidents \in Nat /\ incidents' \in 0..MaxIncidents
      /\ \A i \in Nat : i <= incidents => i <= incidents'
  BY <1>1
<1>3. \A p \in P : p.id \in Nat
  BY PutParts DEF Numbered
<1>4. QED BY <1>2, <1>3 DEF Numbered

\* A request is answered, or its connection is lost.
LEMMA AnsweredKeeps ==
  ASSUME IInv, NEW p \in puts, Answered(p) \/ Lost(p)
  PROVE  IInv'
<1>1. /\ ServerTypes /\ EventTypes /\ ClientTypes /\ Numbered(puts, incidents) /\ OneEach(puts, busy)
      /\ MarksMade /\ p \in Put /\ AskedIn(puts, made)
  BY DEF IInv, Numbered, MarksMade
<1>2. /\ p.client \in Clients /\ (Fails(p.client, p) \/ Succeeds(p.client, p))
      /\ UNCHANGED <<content, store, revision, snapshot, stream, inbox, made>>
  BY <1>1, PutParts DEF Answered, Lost, eventVars
<1> DEFINE q == [p EXCEPT !.client = None]
<1>3. /\ q \in Put /\ q.id = p.id /\ q.reviewed = p.reviewed /\ q.targets = p.targets /\ q.client = None
      /\ (q.phase = "stored" => q.todo = {}) /\ q.todo \subseteq p.todo
  <2>1. /\ q \in Put /\ q.id = p.id /\ q.reviewed = p.reviewed /\ q.targets = p.targets /\ q.client = None
        /\ q.phase = p.phase /\ q.todo = p.todo
    BY <1>1, PutChanged
  <2>2. QED BY <1>1, <2>1 DEF Numbered
<1>4. puts' = (puts \ {p}) \cup {q} \/ puts' = puts \ {p}
  BY DEF Answered, Lost
<1> HIDE DEF q
<1>5. /\ busy' = [busy EXCEPT ![p.client] = @ /\ p.kind = "undo"]
      /\ undo' \in [Clients -> Undo \cup {None}] /\ rows' \in [Clients -> Marks]
      /\ gets' \in [Clients -> Seq(Get)] /\ (\A d \in Clients : ReadIn(gets'[d], made))
      /\ build' \in Marks \cup {None} /\ (build' # None => MadeIn(build', made))
      /\ lapses' \subseteq {"put back", "passed over"}
  BY <1>2, Failed
<1>6. Numbered(puts', incidents) /\ AskedIn(puts', made)
  BY <1>1, <1>3, <1>4, Replaced
<1>7. OneEach(puts', busy')
  <2>1. OneEach(puts', [busy EXCEPT ![p.client] = @ /\ p.kind = "undo"])
    BY <1>1, <1>2, <1>3, <1>4, ReviewAssumption, GivesBack
  <2>2. QED BY <1>5, <2>1
<1>8. Numbered(puts', incidents') /\ incidents' \in 0..MaxIncidents
  <2>1. CASE incidents' = incidents
    BY <1>1, <1>6, <2>1 DEF ClientTypes
  <2>2. CASE Incident
    BY <1>6, <2>2, Counted
  <2>3. QED BY <2>1, <2>2 DEF Answered, Lost
<1>9. ServerTypes' /\ EventTypes' /\ ClientTypes'
  BY <1>1, <1>2, <1>5, <1>8 DEF ServerTypes, EventTypes, ClientTypes
<1>10. MarksMade'
  BY <1>1, <1>2, <1>5, <1>6 DEF MarksMade
<1>11. QED BY <1>7, <1>8, <1>9, <1>10 DEF IInv

\* What no step of a client but its writes changes.
Writes == <<puts, busy, made, incidents>>

\* A step of a client that is none of its writes.
LEMMA ClientSteps ==
  ASSUME IInv, UNCHANGED Writes, UNCHANGED <<content, store, revision, snapshot, stream, undo>>,
         inbox' \in [Clients -> Seq(Event)], rows' \in [Clients -> Marks],
         lapses' \subseteq {"put back", "passed over"},
         gets' \in [Clients -> Seq(Get)], \A d \in Clients : ReadIn(gets'[d], made),
         build' \in Marks \cup {None}, build' # None => MadeIn(build', made)
  PROVE  IInv'
<1>1. UNCHANGED <<puts, busy, made, incidents>>
  BY DEF Writes
<1>2. ServerTypes' /\ EventTypes' /\ ClientTypes'
  BY <1>1 DEF IInv, ServerTypes, EventTypes, ClientTypes
<1>3. MarksMade'
  BY <1>1 DEF IInv, MarksMade
<1>4. QED BY <1>1, <1>2, <1>3 DEF IInv

\* The facts about a client's answers that its steps start from.
LEMMA Answers ==
  ASSUME IInv, NEW c \in Clients
  PROVE  /\ inbox \in [Clients -> Seq(Event)] /\ rows \in [Clients -> Marks] /\ rows[c] \in Marks
         /\ lapses \subseteq {"put back", "passed over"}
         /\ gets \in [Clients -> Seq(Get)] /\ gets[c] \in Seq(Get)
         /\ \A d \in Clients : ReadIn(gets[d], made)
         /\ build \in Marks \cup {None} /\ (build # None => MadeIn(build, made))
         /\ gets[c] # <<>> => /\ Tail(gets[c]) \in Seq(Get) /\ ReadIn(Tail(gets[c]), made)
                              /\ Head(gets[c]).marks \in Marks /\ MadeIn(Head(gets[c]).marks, made)
<1>1. /\ inbox \in [Clients -> Seq(Event)] /\ rows \in [Clients -> Marks] /\ rows[c] \in Marks
      /\ lapses \subseteq {"put back", "passed over"}
      /\ gets \in [Clients -> Seq(Get)] /\ gets[c] \in Seq(Get)
      /\ \A d \in Clients : ReadIn(gets[d], made)
      /\ build \in Marks \cup {None} /\ (build # None => MadeIn(build, made))
  BY DEF IInv, ServerTypes, EventTypes, ClientTypes, MarksMade
<1>2. ASSUME gets[c] # <<>>
      PROVE  /\ Tail(gets[c]) \in Seq(Get) /\ ReadIn(Tail(gets[c]), made)
             /\ Head(gets[c]).marks \in Marks /\ MadeIn(Head(gets[c]).marks, made)
  <2>1. /\ Tail(gets[c]) \in Seq(Get) /\ ReadIn(Tail(gets[c]), made)
        /\ Head(gets[c]) \in Get /\ MadeIn(Head(gets[c]).marks, made)
    BY <1>1, <1>2, Read
  <2>2. QED BY <2>1 DEF Get
<1>3. QED BY <1>1, <1>2

\* A client handles an event.
LEMMA HandleEventKeeps ==
  ASSUME IInv, NEW c \in Clients, HandleEvent(c)
  PROVE  IInv'
<1>1. /\ inbox[c] # <<>> /\ inbox' = [inbox EXCEPT ![c] = Tail(@)]
      /\ UNCHANGED <<content, store, revision, snapshot, stream, rows, busy, undo, puts, made, incidents>>
  BY DEF HandleEvent
<1>2. /\ inbox \in [Clients -> Seq(Event)] /\ rows \in [Clients -> Marks]
      /\ lapses \subseteq {"put back", "passed over"}
      /\ gets \in [Clients -> Seq(Get)] /\ gets[c] \in Seq(Get)
      /\ \A d \in Clients : ReadIn(gets[d], made)
      /\ build \in Marks \cup {None} /\ (build # None => MadeIn(build, made))
  BY Answers
<1>3. inbox' \in [Clients -> Seq(Event)]
  <2>1. Tail(inbox[c]) \in Seq(Event)
    <3>1. inbox[c] \in Seq(Event)
      BY <1>2
    <3>2. QED BY <1>1, <3>1, HeadTailProperties
  <2>2. QED BY <1>1, <1>2, <2>1
<1>4. \/ (Fetch(c, gets[c], "changes") \/ Fetch(c, gets[c], "reviews")) /\ lapses' = lapses
      \/ lapses' = lapses \cup {"passed over"} /\ NoFetch
  BY DEF HandleEvent
<1>5. lapses' \subseteq {"put back", "passed over"}
  BY <1>2, <1>4
<1>6. /\ gets' \in [Clients -> Seq(Get)] /\ \A d \in Clients : ReadIn(gets'[d], made)
      /\ build' \in Marks \cup {None} /\ (build' # None => MadeIn(build', made))
  <2>1. CASE Fetch(c, gets[c], "changes")
    BY <1>2, <2>1, Fetched
  <2>2. CASE Fetch(c, gets[c], "reviews")
    BY <1>2, <2>2, Fetched
  <2>3. CASE NoFetch
    BY <1>2, <2>3 DEF NoFetch
  <2>4. QED BY <1>4, <2>1, <2>2, <2>3
<1>7. UNCHANGED Writes /\ rows' \in [Clients -> Marks]
  BY <1>1, <1>2 DEF Writes
<1>8. QED BY <1>1, <1>3, <1>5, <1>6, <1>7, ClientSteps

\* The files arrive at a client,
LEMMA ChangesArriveKeeps ==
  ASSUME IInv, NEW c \in Clients, ChangesArrive(c)
  PROVE  IInv' /\ \A f \in Files : rows'[c][f].reviewed => <<f, rows'[c][f].rev>> \in made
<1>1. /\ gets[c] # <<>> /\ rows' = [rows EXCEPT ![c] = Head(gets[c]).marks]
      /\ Fetch(c, Tail(gets[c]), "reviews")
      /\ UNCHANGED <<content, store, revision, snapshot, stream, inbox, busy, undo, lapses, puts, made,
                     incidents>>
  BY DEF ChangesArrive, eventVars
<1>2. /\ inbox \in [Clients -> Seq(Event)] /\ rows \in [Clients -> Marks]
      /\ lapses \subseteq {"put back", "passed over"}
      /\ Tail(gets[c]) \in Seq(Get) /\ ReadIn(Tail(gets[c]), made)
      /\ Head(gets[c]).marks \in Marks /\ MadeIn(Head(gets[c]).marks, made)
  BY <1>1, Answers
<1>3. rows' \in [Clients -> Marks] /\ rows'[c] = Head(gets[c]).marks
  BY <1>1, <1>2
<1>4. /\ gets' \in [Clients -> Seq(Get)] /\ \A d \in Clients : ReadIn(gets'[d], made)
      /\ build' \in Marks \cup {None} /\ (build' # None => MadeIn(build', made))
  BY <1>1, <1>2, Fetched
<1>5. UNCHANGED Writes /\ inbox' \in [Clients -> Seq(Event)] /\ lapses' \subseteq {"put back", "passed over"}
  BY <1>1, <1>2 DEF Writes
<1>6. IInv'
  BY <1>1, <1>3, <1>4, <1>5, ClientSteps
<1>7. QED BY <1>2, <1>3, <1>6 DEF MadeIn

\* and the marks.
LEMMA ReviewsArriveKeeps ==
  ASSUME IInv, NEW c \in Clients, ReviewsArrive(c)
  PROVE  IInv' /\ \A f \in Files : rows'[c][f].reviewed => <<f, rows'[c][f].rev>> \in made
<1> DEFINE m == Head(gets[c]).marks
           r == [f \in Files |-> [rows[c][f] EXCEPT !.reviewed = SameMark(m[f], rows[c][f])]]
<1>1. /\ gets[c] # <<>> /\ rows' = [rows EXCEPT ![c] = r]
      /\ gets' = [gets EXCEPT ![c] = Tail(@)]
      /\ UNCHANGED <<content, store, revision, build, snapshot, stream, inbox, busy, undo, lapses, puts, made,
                     incidents>>
  BY DEF ReviewsArrive, eventVars, serverVars
<1>2. /\ inbox \in [Clients -> Seq(Event)] /\ rows \in [Clients -> Marks] /\ rows[c] \in Marks
      /\ lapses \subseteq {"put back", "passed over"} /\ gets \in [Clients -> Seq(Get)]
      /\ build \in Marks \cup {None} /\ (build # None => MadeIn(build, made))
      /\ (\A d \in Clients : ReadIn(gets[d], made))
      /\ Tail(gets[c]) \in Seq(Get) /\ ReadIn(Tail(gets[c]), made)
      /\ m \in Marks /\ MadeIn(m, made)
  BY <1>1, Answers
<1>3. ASSUME NEW f \in Files
      PROVE  /\ [rows[c][f] EXCEPT !.reviewed = SameMark(m[f], rows[c][f])] \in Mark
             /\ r[f].reviewed => <<f, r[f].rev>> \in made
  <2>1. /\ rows[c][f].rev \in Revisions /\ m[f].rev \in Revisions /\ m[f].reviewed \in BOOLEAN
        /\ rows[c][f] \in Mark
    BY <1>2, MarkParts
  <2>2. SameMark(m[f], rows[c][f]) \in BOOLEAN
    BY <2>1 DEF SameMark
  <2>3. [rows[c][f] EXCEPT !.reviewed = SameMark(m[f], rows[c][f])]
          = [rev |-> rows[c][f].rev, reviewed |-> SameMark(m[f], rows[c][f])]
    BY <2>1 DEF Mark
  <2>4. r[f].rev = rows[c][f].rev /\ r[f].reviewed = SameMark(m[f], rows[c][f])
    BY <2>3
  <2>5. SameMark(m[f], rows[c][f]) => <<f, rows[c][f].rev>> \in made
    BY <1>2 DEF SameMark, MadeIn
  <2>6. QED BY <2>1, <2>2, <2>3, <2>4, <2>5, MarkParts
<1>4. r \in Marks
  BY <1>3 DEF Marks
<1>5. \A f \in Files : r[f].reviewed => <<f, r[f].rev>> \in made
  BY <1>3
<1> HIDE DEF m, r
<1>6. rows' \in [Clients -> Marks] /\ rows'[c] = r
  BY <1>1, <1>2, <1>4
<1>7. gets' \in [Clients -> Seq(Get)] /\ \A d \in Clients : ReadIn(gets'[d], made)
  BY <1>1, <1>2
<1>8. /\ UNCHANGED Writes /\ inbox' \in [Clients -> Seq(Event)] /\ lapses' \subseteq {"put back", "passed over"}
      /\ build' \in Marks \cup {None} /\ (build' # None => MadeIn(build', made))
  BY <1>1, <1>2 DEF Writes
<1>9. IInv'
  BY <1>1, <1>6, <1>7, <1>8, ClientSteps
<1>10. QED BY <1>5, <1>6, <1>9

\* A fetch fails.
LEMMA FetchFailsKeeps ==
  ASSUME IInv, NEW c \in Clients, FetchFails(c)
  PROVE  IInv'
<1>1. /\ ServerTypes /\ EventTypes /\ ClientTypes /\ Numbered(puts, incidents) /\ OneEach(puts, busy)
      /\ MarksMade
  BY DEF IInv
<1>2. /\ gets[c] # <<>> /\ Incident /\ gets' = [gets EXCEPT ![c] = Tail(@)]
      /\ UNCHANGED <<content, store, revision, build, snapshot, stream, inbox, rows, busy, undo, lapses,
                     puts, made>>
  BY DEF FetchFails, serverVars, eventVars
<1>3. /\ gets \in [Clients -> Seq(Get)] /\ \A d \in Clients : ReadIn(gets[d], made)
      /\ Tail(gets[c]) \in Seq(Get) /\ ReadIn(Tail(gets[c]), made)
  BY <1>2, Answers
<1>4. gets' \in [Clients -> Seq(Get)] /\ \A d \in Clients : ReadIn(gets'[d], made)
  BY <1>2, <1>3
<1>5. Numbered(puts, incidents') /\ incidents' \in 0..MaxIncidents
  BY <1>1, <1>2, Counted
<1>6. ServerTypes' /\ EventTypes' /\ ClientTypes'
  BY <1>1, <1>2, <1>4, <1>5 DEF ServerTypes, EventTypes, ClientTypes
<1>7. MarksMade'
  BY <1>1, <1>2, <1>4 DEF MarksMade
<1>8. QED BY <1>1, <1>2, <1>5, <1>6, <1>7 DEF IInv

\* What a step does to the record of failed fetches.
LEMMA MissedKeeps ==
  IInv /\ MissedTyped /\ [Next]_vars => MissedTyped'
<1> SUFFICES ASSUME IInv, MissedTyped, [Next]_vars
             PROVE  MissedTyped'
  OBVIOUS
<1>1. ASSUME NEW c \in Clients, ChangesArrive(c) \/ ReviewsArrive(c)
      PROVE  MissedTyped'
  BY <1>1 DEF MissedTyped, ChangesArrive, ReviewsArrive
<1>2. ASSUME NEW c \in Clients, FetchFails(c)
      PROVE  MissedTyped'
  <2>1. gets[c] # <<>> /\ gets[c] \in Seq(Get)
    BY <1>2 DEF FetchFails, IInv, ClientTypes
  <2>2. Head(gets[c]) \in Get
    BY <2>1, HeadTailProperties
  <2>3. Head(gets[c]).kind \in {"changes", "reviews"}
    BY <2>2 DEF Get
  <2>4. QED BY <1>2, <2>3 DEF MissedTyped, FetchFails
<1>3. CASE UserStep
  BY <1>3 DEF UserStep, SetReviewed, UnreviewMultiple, UndoReview, Request, Edit, ReviewElsewhere,
              clientVars, MissedTyped
<1>4. CASE ClientStep
  <2>1. ASSUME NEW c \in Clients, HandleEvent(c)
        PROVE  MissedTyped'
    BY <2>1 DEF HandleEvent, MissedTyped
  <2>2. ASSUME NEW p \in puts, Answered(p) \/ Lost(p)
        PROVE  MissedTyped'
    BY <2>2 DEF Answered, Lost, MissedTyped
  <2>3. QED BY <1>1, <1>2, <1>4, <2>1, <2>2 DEF ClientStep
<1>5. CASE ServerStep
  BY <1>5 DEF ServerStep, Watch, EndSnapshot, Tell, PutArrives, StoreReview, StoreFails, clientVars,
              MissedTyped
<1>6. CASE UNCHANGED vars
  BY <1>6 DEF vars, clientVars, MissedTyped
<1>7. QED BY <1>3, <1>4, <1>5, <1>6 DEF Next

-----------------------------------------------------------------------------
(* The steps of the server, of other servers and of editors.               *)

\* A request joins a snapshot or starts one, and so does the poll.
LEMMA ArrivesKeeps ==
  ASSUME IInv, Watch \/ \E p \in puts : PutArrives(p)
  PROVE  IInv'
<1>1. /\ ServerTypes /\ EventTypes /\ ClientTypes /\ Numbered(puts, incidents) /\ OneEach(puts, busy)
      /\ MarksMade /\ AskedIn(puts, made)
  BY DEF IInv, MarksMade
<1>2. /\ build' = Joined
      /\ UNCHANGED <<content, store, revision, snapshot, stream, inbox, rows, gets, busy, undo, lapses, made,
                     incidents>>
  BY DEF Watch, PutArrives, eventVars, clientVars
<1>3. build' \in Marks \cup {None} /\ (build' # None => MadeIn(build', made))
  BY <1>1, <1>2 DEF Joined, ServerTypes, MarksMade
<1>4. Numbered(puts', incidents) /\ AskedIn(puts', made) /\ OneEach(puts', busy)
  <2>1. CASE Watch
    <3>1. puts' = puts
      BY <2>1 DEF Watch
    <3>2. QED BY <1>1, <3>1
  <2>2. ASSUME NEW p \in puts, PutArrives(p)
        PROVE  Numbered(puts', incidents) /\ AskedIn(puts', made) /\ OneEach(puts', busy)
    <3> DEFINE q == [p EXCEPT !.phase = "waiting"]
    <3>1. puts' = (puts \ {p}) \cup {q} /\ p \in Put
      BY <1>1, <2>2 DEF PutArrives, Numbered
    <3>2. /\ q \in Put /\ q.id = p.id /\ q.reviewed = p.reviewed /\ q.targets = p.targets
          /\ q.phase = "waiting" /\ q.client = p.client /\ q.kind = p.kind /\ q.todo = p.todo
      BY <3>1, PutChanged
    <3> HIDE DEF q
    <3>3. (q.phase = "stored" => q.todo = {}) /\ q.todo \subseteq p.todo
      BY <3>2
    <3>4. Numbered(puts', incidents) /\ AskedIn(puts', made)
      BY <1>1, <3>1, <3>2, <3>3, Replaced
    <3>5. OneEach(puts', busy)
      BY <1>1, <3>1, <3>2, ReviewAssumption, MovesOn
    <3>6. QED BY <3>4, <3>5
  <2>3. QED BY <2>1, <2>2
<1>5. ServerTypes' /\ EventTypes' /\ ClientTypes'
  BY <1>1, <1>2, <1>3 DEF ServerTypes, EventTypes, ClientTypes
<1>6. MarksMade'
  BY <1>1, <1>2, <1>3, <1>4 DEF MarksMade
<1>7. QED BY <1>2, <1>4, <1>5, <1>6 DEF IInv

\* A review of a request is stored.
LEMMA StoreReviewKeeps ==
  ASSUME IInv, NEW p \in puts, StoreReview(p)
  PROVE  IInv'
<1>1. /\ ServerTypes /\ EventTypes /\ ClientTypes /\ Numbered(puts, incidents) /\ OneEach(puts, busy)
      /\ MarksMade /\ AskedIn(puts, made) /\ p \in Put /\ MadeIn(store, made) /\ store \in Marks
  BY DEF IInv, MarksMade, Numbered, ServerTypes
<1>2. /\ revision' = revision + 1 /\ p.phase = "accepted"
      /\ UNCHANGED <<content, build, snapshot, stream, inbox, rows, gets, busy, undo, lapses, made, incidents>>
  BY DEF StoreReview, eventVars, clientVars
<1>3. PICK f \in p.todo :
        LET left == p.todo \ {f}
            next == [p EXCEPT !.todo = left, !.phase = IF left = {} THEN "stored" ELSE @]
        IN /\ store' = [store EXCEPT ![f] = [rev |-> p.targets[f], reviewed |-> p.reviewed]]
           /\ puts' = (puts \ {p}) \cup (IF left = {} /\ p.client = None THEN {} ELSE {next})
  BY DEF StoreReview
<1> DEFINE left == p.todo \ {f}
           x    == IF left = {} THEN "stored" ELSE p.phase
           q    == [p EXCEPT !.todo = left, !.phase = x]
<1>4. /\ store' = [store EXCEPT ![f] = [rev |-> p.targets[f], reviewed |-> p.reviewed]]
      /\ puts' = (puts \ {p}) \cup (IF left = {} /\ p.client = None THEN {} ELSE {q})
  BY <1>3
<1>5. left \in SUBSET Files /\ f \in Files /\ x \in {"sent", "waiting", "accepted", "stored", "failed"}
      /\ (x = "stored" => left = {}) /\ left \subseteq p.todo
  BY <1>1, <1>2, PutParts
<1> HIDE DEF x, left
<1>6. /\ q \in Put /\ q.id = p.id /\ q.reviewed = p.reviewed /\ q.targets = p.targets
      /\ q.phase = x /\ q.todo = left /\ q.client = p.client /\ q.kind = p.kind
  <2>1. /\ q.id = p.id /\ q.reviewed = p.reviewed /\ q.targets = p.targets
        /\ q.phase = x /\ q.todo = left /\ q.client = p.client /\ q.kind = p.kind
    BY <1>1 DEF Put
  <2>2. q \in Put
    BY <1>1, <1>5 DEF Put
  <2>3. QED BY <2>1, <2>2
<1> HIDE DEF q
<1>7. \/ puts' = (puts \ {p}) \cup {q}
      \/ p.client = None /\ puts' = puts \ {p}
  BY <1>4
<1>8. Numbered(puts', incidents) /\ AskedIn(puts', made)
  <2>1. (q.phase = "stored" => q.todo = {}) /\ q.todo \subseteq p.todo
    BY <1>5, <1>6
  <2>2. QED BY <1>1, <1>6, <1>7, <2>1, Replaced
<1>9. OneEach(puts', busy)
  BY <1>1, <1>6, <1>7, ReviewAssumption, MovesOn
<1>10. store' \in Marks /\ MadeIn(store', made)
  <2>1. f \in DOMAIN p.targets => /\ p.targets[f] \in Revisions
                                  /\ p.reviewed => <<f, p.targets[f]>> \in made
    BY <1>1, PutParts DEF AskedIn
  <2>2. f \in DOMAIN p.targets
    BY <1>1 DEF Numbered
  <2>3. [rev |-> p.targets[f], reviewed |-> p.reviewed] \in Mark
    BY <1>1, <2>1, <2>2, PutParts, MarkParts
  <2> DEFINE m == [rev |-> p.targets[f], reviewed |-> p.reviewed]
  <2>4. m.rev = p.targets[f] /\ m.reviewed = p.reviewed /\ store' = [store EXCEPT ![f] = m] /\ m \in Mark
    BY <1>4, <2>3
  <2> HIDE DEF m
  <2>5. store' \in Marks
    BY <1>1, <2>4 DEF Marks
  <2>6. MadeIn(store', made)
    BY <1>1, <1>5, <2>1, <2>2, <2>4 DEF MadeIn, Marks
  <2>7. QED BY <2>5, <2>6
<1>11. ServerTypes' /\ EventTypes' /\ ClientTypes'
  <2>1. revision' \in Nat
    BY <1>1, <1>2 DEF ServerTypes
  <2>2. QED BY <1>1, <1>2, <1>10, <2>1 DEF ServerTypes, EventTypes, ClientTypes
<1>12. MarksMade'
  BY <1>1, <1>2, <1>8, <1>10 DEF MarksMade
<1>13. QED BY <1>2, <1>8, <1>9, <1>11, <1>12 DEF IInv
\* What the end of a snapshot makes of a fetch and of a request.
AnswerOf(g) ==
  [f \in Files |-> IF g.kind = "changes" THEN MarkOfContent(build[f], content[f])
                   ELSE [g.marks[f] EXCEPT !.reviewed = @ /\ g.marks[f].rev = content[f]]]
ServedOf(g)  == IF g.served THEN g ELSE [g EXCEPT !.served = TRUE, !.marks = AnswerOf(g)]
CheckedOf(p) == IF p.phase # "waiting" THEN p
                ELSE [p EXCEPT !.phase = IF StillCurrent(p, content) THEN "accepted" ELSE "failed"]

\* A fetch is answered with marks that were read, or none.
LEMMA Served ==
  ASSUME IInv, build # None, NEW g \in Get, MadeIn(g.marks, made)
  PROVE  ServedOf(g) \in Get /\ MadeIn(ServedOf(g).marks, made)
<1>1. /\ build \in Marks /\ content \in Contents /\ MadeIn(build, made) /\ g.marks \in Marks
      /\ g.kind \in {"changes", "reviews"} /\ g.served \in BOOLEAN
  BY DEF IInv, ServerTypes, MarksMade, Get
<1>2. ASSUME NEW f \in Files
      PROVE  /\ AnswerOf(g)[f] \in Mark
             /\ AnswerOf(g)[f].reviewed => <<f, AnswerOf(g)[f].rev>> \in made
  <2>1. /\ build[f].rev \in Revisions /\ build[f].reviewed \in BOOLEAN /\ content[f] \in Revisions
        /\ g.marks[f].rev \in Revisions /\ g.marks[f].reviewed \in BOOLEAN /\ g.marks[f] \in Mark
    BY <1>1, MarkParts DEF Contents
  <2>2. /\ build[f].reviewed => <<f, build[f].rev>> \in made
        /\ g.marks[f].reviewed => <<f, g.marks[f].rev>> \in made
    BY <1>1 DEF MadeIn
  <2>3. CASE g.kind = "changes"
    <3> DEFINE b == build[f].reviewed /\ build[f].rev = content[f]
    <3>1. AnswerOf(g)[f] = [rev |-> content[f], reviewed |-> b]
      BY <2>3 DEF AnswerOf, MarkOfContent
    <3>2. b \in BOOLEAN /\ (b => <<f, content[f]>> \in made)
      BY <2>1, <2>2
    <3> HIDE DEF b
    <3>3. QED BY <2>1, <3>1, <3>2, MarkParts
  <2>4. CASE g.kind # "changes"
    <3> DEFINE b == g.marks[f].reviewed /\ g.marks[f].rev = content[f]
    <3>1. b \in BOOLEAN /\ (b => <<f, g.marks[f].rev>> \in made)
      BY <2>1, <2>2
    <3>2. AnswerOf(g)[f] = [g.marks[f] EXCEPT !.reviewed = b]
      BY <2>4 DEF AnswerOf
    <3> HIDE DEF b
    <3>3. AnswerOf(g)[f] = [rev |-> g.marks[f].rev, reviewed |-> b]
      BY <1>1, <3>1, <3>2, MarkParts
    <3>4. QED BY <2>1, <3>1, <3>3, MarkParts
  <2>5. QED BY <2>3, <2>4
<1>3. AnswerOf(g) \in Marks
  <2>1. AnswerOf(g) = [f \in Files |-> AnswerOf(g)[f]]
    BY DEF AnswerOf
  <2>2. QED BY <1>2, <2>1 DEF Marks
<1>4. MadeIn(AnswerOf(g), made)
  BY <1>2 DEF MadeIn
<1> DEFINE h == [g EXCEPT !.served = TRUE, !.marks = AnswerOf(g)]
<1>5. h \in Get /\ h.marks = AnswerOf(g)
  BY <1>3 DEF Get
<1>6. ServedOf(g) = g \/ ServedOf(g) = h
  BY DEF ServedOf
<1> HIDE DEF h
<1>7. QED BY <1>4, <1>5, <1>6

\* The check of a request changes its phase alone, and stores nothing.
LEMMA Checked ==
  ASSUME NEW p \in Put
  PROVE  /\ CheckedOf(p) \in Put /\ CheckedOf(p).id = p.id /\ CheckedOf(p).client = p.client
         /\ CheckedOf(p).kind = p.kind /\ CheckedOf(p).targets = p.targets
         /\ CheckedOf(p).reviewed = p.reviewed /\ CheckedOf(p).todo = p.todo
         /\ CheckedOf(p).phase = "stored" => p.phase = "stored"
<1> DEFINE x == IF StillCurrent(p, content) THEN "accepted" ELSE "failed"
           q == [p EXCEPT !.phase = x]
<1>1. x \in {"sent", "waiting", "accepted", "stored", "failed"} /\ x # "stored"
  OBVIOUS
<1>2. CheckedOf(p) = p \/ CheckedOf(p) = q
  BY DEF CheckedOf
<1> HIDE DEF x
<1>3. /\ q \in Put /\ q.id = p.id /\ q.kind = p.kind /\ q.reviewed = p.reviewed
      /\ q.targets = p.targets /\ q.phase = x /\ q.todo = p.todo /\ q.client = p.client
  BY <1>1 DEF Put
<1> HIDE DEF q
<1>4. QED BY <1>1, <1>2, <1>3

\* A snapshot ends: it answers the fetches and checks the requests that waited for it.
LEMMA EndSnapshotKeeps ==
  ASSUME IInv, EndSnapshot
  PROVE  IInv'
<1>1. /\ ServerTypes /\ EventTypes /\ ClientTypes /\ Numbered(puts, incidents) /\ OneEach(puts, busy)
      /\ MarksMade /\ AskedIn(puts, made) /\ puts \subseteq Put
  BY DEF IInv, MarksMade, Numbered
<1>2. /\ build # None /\ build' = None /\ snapshot' = content
      /\ UNCHANGED <<content, store, revision, stream, inbox, rows, busy, undo, lapses, made, incidents>>
  BY DEF EndSnapshot, eventVars
<1>3. gets' = [c \in Clients |-> [i \in DOMAIN gets[c] |-> ServedOf(gets[c][i])]]
  BY DEF EndSnapshot, ServedOf, AnswerOf
<1>4. puts' = {p \in {CheckedOf(q) : q \in puts} : p.client # None \/ p.phase # "failed"}
  BY DEF EndSnapshot, CheckedOf
<1>5. ASSUME NEW c \in Clients
      PROVE  gets'[c] \in Seq(Get) /\ ReadIn(gets'[c], made)
  <2>1. gets[c] \in Seq(Get) /\ ReadIn(gets[c], made)
    BY <1>1 DEF ClientTypes, MarksMade
  <2>2. DOMAIN gets[c] = 1..Len(gets[c]) /\ Len(gets[c]) \in Nat
        /\ \A i \in DOMAIN gets[c] : gets[c][i] \in Get
    BY <2>1
  <2>3. \A i \in DOMAIN gets[c] : ServedOf(gets[c][i]) \in Get /\ MadeIn(ServedOf(gets[c][i]).marks, made)
    BY <1>2, <2>1, <2>2, Served DEF ReadIn
  <2>4. gets'[c] = [i \in DOMAIN gets[c] |-> ServedOf(gets[c][i])]
    BY <1>3
  <2>5. gets'[c] \in [1..Len(gets[c]) -> Get]
    BY <2>2, <2>3, <2>4
  <2>6. gets'[c] \in Seq(Get)
    BY <2>2, <2>5, SeqDef
  <2>7. ReadIn(gets'[c], made)
    BY <2>3, <2>4 DEF ReadIn
  <2>8. QED BY <2>6, <2>7
<1>6. gets' \in [Clients -> Seq(Get)]
  <2>1. gets' = [c \in Clients |-> gets'[c]]
    BY <1>3
  <2>2. QED BY <1>5, <2>1
<1>7. \A r \in puts' : \E p \in puts : r = CheckedOf(p)
  BY <1>4
<1>8. \A p \in puts : p.client # None => CheckedOf(p) \in puts'
  <2>1. \A p \in puts : CheckedOf(p).client = p.client
    BY <1>1, Checked
  <2>2. QED BY <1>4, <2>1
<1>9. \A p \in puts : /\ CheckedOf(p) \in Put /\ CheckedOf(p).id = p.id /\ CheckedOf(p).client = p.client
                      /\ CheckedOf(p).kind = p.kind /\ CheckedOf(p).targets = p.targets
                      /\ CheckedOf(p).reviewed = p.reviewed /\ CheckedOf(p).todo = p.todo
                      /\ CheckedOf(p).phase = "stored" => p.phase = "stored"
  BY <1>1, Checked
<1>10. Numbered(puts', incidents)
  <2>1. puts' \subseteq Put
    BY <1>7, <1>9
  <2>2. \A r \in puts' : /\ r.id <= incidents /\ r.todo \subseteq DOMAIN r.targets
                         /\ r.phase = "stored" => r.todo = {}
    BY <1>1, <1>7, <1>9 DEF Numbered
  <2>3. \A r, s \in puts' : r.id = s.id => r = s
    BY <1>1, <1>7, <1>9 DEF Numbered
  <2>4. QED BY <2>1, <2>2, <2>3 DEF Numbered
<1>11. AskedIn(puts', made)
  BY <1>1, <1>7, <1>9 DEF AskedIn
<1>12. OneEach(puts', busy)
  <2>1. \A p \in puts, c \in Clients : Waits(CheckedOf(p), c) <=> Waits(p, c)
    BY <1>9 DEF Waits
  <2>2. \A p \in puts, c \in Clients : Waits(p, c) => CheckedOf(p) \in puts'
    BY <1>8, ReviewAssumption DEF Waits
  <2>3. ASSUME NEW c \in Clients
        PROVE  /\ busy[c] <=> (\E r \in puts' : Waits(r, c))
               /\ \A r, s \in puts' : Waits(r, c) /\ Waits(s, c) => r = s
    <3>1. /\ busy[c] <=> (\E p \in puts : Waits(p, c))
          /\ \A p, q \in puts : Waits(p, c) /\ Waits(q, c) => p = q
      BY <1>1 DEF OneEach
    <3>2. busy[c] <=> (\E r \in puts' : Waits(r, c))
      BY <1>7, <2>1, <2>2, <3>1
    <3>3. \A r, s \in puts' : Waits(r, c) /\ Waits(s, c) => r = s
      BY <1>7, <2>1, <3>1
    <3>4. QED BY <3>2, <3>3
  <2>4. QED BY <1>1, <2>3 DEF OneEach
<1>13. ServerTypes' /\ EventTypes' /\ ClientTypes'
  BY <1>1, <1>2, <1>6 DEF ServerTypes, EventTypes, ClientTypes
<1>14. MarksMade'
  BY <1>1, <1>2, <1>5, <1>11 DEF MarksMade
<1>15. QED BY <1>2, <1>10, <1>11, <1>12, <1>13, <1>14 DEF IInv

\* The database refuses a review.
LEMMA StoreFailsKeeps ==
  ASSUME IInv, NEW p \in puts, StoreFails(p)
  PROVE  IInv'
<1>1. /\ ServerTypes /\ EventTypes /\ ClientTypes /\ Numbered(puts, incidents) /\ OneEach(puts, busy)
      /\ MarksMade /\ AskedIn(puts, made) /\ p \in Put
  BY DEF IInv, MarksMade, Numbered
<1> DEFINE q == [p EXCEPT !.phase = "failed"]
<1>2. /\ Incident /\ puts' = (puts \ {p}) \cup (IF p.client = None THEN {} ELSE {q})
      /\ UNCHANGED <<content, store, revision, build, snapshot, stream, inbox, rows, gets, busy, undo,
                     lapses, made>>
  BY DEF StoreFails, serverVars, eventVars, clientVars
<1>3. /\ q \in Put /\ q.id = p.id /\ q.kind = p.kind /\ q.reviewed = p.reviewed
      /\ q.targets = p.targets /\ q.phase = "failed" /\ q.todo = p.todo /\ q.client = p.client
  BY <1>1, PutChanged
<1> HIDE DEF q
<1>4. puts' = (puts \ {p}) \cup {q} \/ (p.client = None /\ puts' = puts \ {p})
  BY <1>2
<1>5. Numbered(puts', incidents) /\ AskedIn(puts', made)
  <2>1. (q.phase = "stored" => q.todo = {}) /\ q.todo \subseteq p.todo
    BY <1>3
  <2>2. QED BY <1>1, <1>3, <1>4, <2>1, Replaced
<1>6. OneEach(puts', busy)
  BY <1>1, <1>3, <1>4, ReviewAssumption, MovesOn
<1>7. Numbered(puts', incidents') /\ incidents' \in 0..MaxIncidents
  BY <1>2, <1>5, Counted
<1>8. ServerTypes' /\ EventTypes' /\ ClientTypes'
  BY <1>1, <1>2, <1>7 DEF ServerTypes, EventTypes, ClientTypes
<1>9. MarksMade'
  BY <1>1, <1>2, <1>5 DEF MarksMade
<1>10. QED BY <1>2, <1>6, <1>7, <1>8, <1>9 DEF IInv

\* A stream is told what is due.
LEMMA TellKeeps ==
  ASSUME IInv, NEW c \in Clients, Tell(c)
  PROVE  IInv'
<1>1. /\ ServerTypes /\ EventTypes /\ ClientTypes /\ Numbered(puts, incidents) /\ OneEach(puts, busy)
      /\ MarksMade
  BY DEF IInv
<1> DEFINE ch == <<[type |-> "changes", operation |-> snapshot]>>
           st == <<[type |-> "state", operation |-> snapshot]>>
<1>2. /\ stream' = [stream EXCEPT ![c] = [operation |-> snapshot, revision |-> revision]]
      /\ \/ inbox' = [inbox EXCEPT ![c] = @ \o ch]
         \/ inbox' = [inbox EXCEPT ![c] = @ \o st]
         \/ inbox' = [inbox EXCEPT ![c] = @ \o ch \o st]
      /\ UNCHANGED <<content, store, revision, build, snapshot, rows, gets, busy, undo, lapses, puts, made,
                     incidents>>
  BY DEF Tell, serverVars, clientVars
<1>3. snapshot \in Contents /\ revision \in Nat /\ inbox[c] \in Seq(Event) /\ inbox \in [Clients -> Seq(Event)]
      /\ stream \in [Clients -> [operation : Contents, revision : Nat]]
  BY <1>1 DEF ServerTypes, EventTypes
<1>4. ch \in Seq(Event) /\ st \in Seq(Event)
  <2>1. [type |-> "changes", operation |-> snapshot] \in Event
        /\ [type |-> "state", operation |-> snapshot] \in Event
    BY <1>3 DEF Event
  <2>2. QED BY <2>1
<1> HIDE DEF ch, st
<1>5. inbox' \in [Clients -> Seq(Event)]
  <2>1. inbox[c] \o ch \in Seq(Event) /\ inbox[c] \o st \in Seq(Event)
    BY <1>3, <1>4, ConcatProperties
  <2>2. inbox[c] \o ch \o st \in Seq(Event)
    BY <1>4, <2>1, ConcatProperties
  <2>3. QED BY <1>2, <1>3, <2>1, <2>2
<1>6. stream' \in [Clients -> [operation : Contents, revision : Nat]]
  <2>1. [operation |-> snapshot, revision |-> revision] \in [operation : Contents, revision : Nat]
    BY <1>3
  <2>2. QED BY <1>2, <1>3, <2>1
<1>7. ServerTypes' /\ EventTypes' /\ ClientTypes'
  BY <1>1, <1>2, <1>5, <1>6 DEF ServerTypes, EventTypes, ClientTypes
<1>8. MarksMade'
  BY <1>1, <1>2 DEF MarksMade
<1>9. QED BY <1>1, <1>2, <1>7, <1>8 DEF IInv

\* A client of another server stores a mark.
LEMMA ReviewElsewhereKeeps ==
  ASSUME IInv, NEW f \in Files, ReviewElsewhere(f)
  PROVE  IInv'
<1>1. /\ ServerTypes /\ EventTypes /\ ClientTypes /\ Numbered(puts, incidents) /\ OneEach(puts, busy)
      /\ MarksMade /\ store \in Marks /\ MadeIn(store, made)
  BY DEF IInv, MarksMade, ServerTypes
<1>2. /\ Incident /\ revision' = revision + 1
      /\ UNCHANGED <<content, build, snapshot, stream, inbox, rows, gets, busy, undo, lapses, puts>>
  BY DEF ReviewElsewhere, eventVars, clientVars
<1>3. PICK rev \in {snapshot[f], content[f]}, reviewed \in BOOLEAN :
        /\ store' = [store EXCEPT ![f] = [rev |-> rev, reviewed |-> reviewed]]
        /\ made' = IF reviewed THEN made \cup {<<f, rev>>} ELSE made
  BY DEF ReviewElsewhere
<1>4. rev \in Revisions
  BY <1>1 DEF ServerTypes, Contents
<1>5. made \subseteq made' /\ made' \subseteq Files \X Revisions /\ (reviewed => <<f, rev>> \in made')
  <2>1. made \subseteq Files \X Revisions /\ <<f, rev>> \in Files \X Revisions
    BY <1>1, <1>4 DEF ClientTypes
  <2> DEFINE pair == <<f, rev>>
  <2>2. pair \in Files \X Revisions /\ made' = IF reviewed THEN made \cup {pair} ELSE made
    BY <1>3, <2>1
  <2> HIDE DEF pair
  <2>3. /\ made \subseteq made' /\ made' \subseteq Files \X Revisions
        /\ reviewed => pair \in made'
    BY <2>1, <2>2
  <2>4. QED BY <2>3 DEF pair
<1>6. /\ MadeIn(store, made') /\ (build # None => MadeIn(build, made'))
      /\ (\A d \in Clients : ReadIn(gets[d], made')) /\ AskedIn(puts, made')
  BY <1>1, <1>5, MadeGrows DEF MarksMade
<1>7. store' \in Marks /\ MadeIn(store', made')
  <2> DEFINE m == [rev |-> rev, reviewed |-> reviewed]
  <2>1. m.rev = rev /\ m.reviewed = reviewed /\ store' = [store EXCEPT ![f] = m] /\ m \in Mark
    BY <1>3, <1>4 DEF Mark
  <2> HIDE DEF m
  <2>2. store' \in Marks
    BY <1>1, <2>1 DEF Marks
  <2>3. MadeIn(store', made')
    BY <1>1, <1>5, <1>6, <2>1 DEF MadeIn, Marks
  <2>4. QED BY <2>2, <2>3
<1>8. Numbered(puts', incidents') /\ incidents' \in 0..MaxIncidents
  BY <1>1, <1>2, Counted
<1>9. ServerTypes' /\ EventTypes' /\ ClientTypes'
  <2>1. revision' \in Nat
    BY <1>1, <1>2 DEF ServerTypes
  <2>2. QED BY <1>1, <1>2, <1>5, <1>7, <1>8, <2>1 DEF ServerTypes, EventTypes, ClientTypes
<1>10. MarksMade'
  BY <1>2, <1>6, <1>7 DEF MarksMade
<1>11. QED BY <1>1, <1>2, <1>8, <1>9, <1>10 DEF IInv

\* A file changes.
LEMMA EditKeeps ==
  ASSUME IInv, NEW f \in Files, Edit(f)
  PROVE  IInv'
<1>1. /\ ServerTypes /\ EventTypes /\ ClientTypes /\ Numbered(puts, incidents) /\ OneEach(puts, busy)
      /\ MarksMade /\ content \in Contents
  BY DEF IInv, ServerTypes
<1>2. /\ Incident /\ content[f] < MaxContent /\ content' = [content EXCEPT ![f] = @ + 1]
      /\ UNCHANGED <<store, revision, build, snapshot, stream, inbox, rows, gets, busy, undo, lapses, puts,
                     made>>
  BY DEF Edit, serverVars, eventVars, clientVars
<1>3. content' \in Contents
  <2>1. content[f] \in 0..MaxContent /\ MaxContent \in Nat
    BY <1>1, ReviewAssumption DEF Contents, Revisions
  <2>2. content[f] + 1 \in Revisions
    BY <1>2, <2>1 DEF Revisions
  <2>3. QED BY <1>1, <1>2, <2>2 DEF Contents
<1>4. Numbered(puts', incidents') /\ incidents' \in 0..MaxIncidents
  BY <1>1, <1>2, Counted
<1>5. ServerTypes' /\ EventTypes' /\ ClientTypes'
  BY <1>1, <1>2, <1>3, <1>4 DEF ServerTypes, EventTypes, ClientTypes
<1>6. MarksMade'
  BY <1>1, <1>2 DEF MarksMade
<1>7. QED BY <1>1, <1>2, <1>4, <1>5, <1>6 DEF IInv
-----------------------------------------------------------------------------
(* The theorems.                                                           *)

\* It holds at first,
LEMMA InitHolds ==
  Init => IInv
<1> SUFFICES ASSUME Init
             PROVE  IInv
  OBVIOUS
<1>1. /\ content = [f \in Files |-> 0] /\ snapshot = content
      /\ revision = 0 /\ build = None
      /\ stream = [c \in Clients |-> [operation |-> content, revision |-> 0]]
      /\ inbox = [c \in Clients |-> <<>>]
      /\ rows = [c \in Clients |-> store] /\ gets = [c \in Clients |-> <<>>]
      /\ puts = {} /\ busy = [c \in Clients |-> FALSE] /\ undo = [c \in Clients |-> None]
      /\ lapses = {} /\ incidents = 0
  BY DEF Init
<1>2. PICK T \in SUBSET Files : /\ store = [f \in Files |-> [rev |-> 0, reviewed |-> f \in T]]
                                /\ made = T \X {0}
  BY DEF Init
<1>3. 0 \in Revisions /\ 0 \in 0..MaxIncidents
  BY ReviewAssumption DEF Revisions
<1>4. \A f \in Files : /\ store[f] = [rev |-> 0, reviewed |-> f \in T] /\ store[f].rev = 0
                       /\ store[f].reviewed <=> f \in T
  BY <1>2
<1>5. store \in Marks
  <2>1. \A f \in Files : [rev |-> 0, reviewed |-> f \in T] \in Mark
    <3>1. \A f \in Files : (f \in T) \in BOOLEAN
      OBVIOUS
    <3>2. QED BY <1>3, <3>1, MarkParts, Zenon
  <2>2. QED BY <1>2, <2>1 DEF Marks
<1>6. content \in Contents
  BY <1>1, <1>3 DEF Contents
<1>7. ServerTypes /\ EventTypes
  BY <1>1, <1>5, <1>6 DEF ServerTypes, EventTypes
<1>8. ClientTypes
  BY <1>1, <1>2, <1>3, <1>5 DEF ClientTypes
<1>9. Numbered(puts, incidents) /\ OneEach(puts, busy)
  BY <1>1 DEF Numbered, OneEach
<1>10. MarksMade
  <2>1. MadeIn(store, made)
    BY <1>2, <1>4 DEF MadeIn
  <2>2. QED BY <1>1, <2>1 DEF MarksMade, ReadIn, AskedIn
<1>11. QED BY <1>7, <1>8, <1>9, <1>10 DEF IInv

\* and every step keeps it.
LEMMA NextKeeps ==
  IInv /\ [Next]_vars => IInv'
<1> SUFFICES ASSUME IInv, [Next]_vars
             PROVE  IInv'
  OBVIOUS
<1>1. CASE UserStep
  BY <1>1, UserKeeps, EditKeeps, ReviewElsewhereKeeps DEF UserStep
<1>2. CASE ClientStep
  BY <1>2, HandleEventKeeps, ChangesArriveKeeps, ReviewsArriveKeeps, FetchFailsKeeps,
     AnsweredKeeps DEF ClientStep
<1>3. CASE ServerStep
  BY <1>3, ArrivesKeeps, EndSnapshotKeeps, TellKeeps, StoreReviewKeeps, StoreFailsKeeps DEF ServerStep
<1>4. CASE UNCHANGED vars
  BY <1>4 DEF vars, serverVars, eventVars, clientVars, IInv, ServerTypes, EventTypes, ClientTypes, MarksMade
<1>5. QED BY <1>1, <1>2, <1>3, <1>4 DEF Next

\* The types of the state, and that a client is busy with exactly one request: no answer, loss or
\* failure leaves it busy without one or lets a second one go.
THEOREM TypesHold == Spec => []TypeOK
<1>1. Init => MissedTyped
  BY DEF Init, MissedTyped
<1>2. QED BY <1>1, InitHolds, NextKeeps, MissedKeeps, Typed, PTL DEF Spec

\* The files and the marks a client fetches show no file reviewed at a content nobody marked,
\* whatever order marks, snapshots, edits, failures and answers come in.
THEOREM RefreshedMarksAreMade == Spec => RefreshedMarksMade
<1> DEFINE Step == \A c \in Clients :
                     ChangesArrive(c) \/ ReviewsArrive(c) =>
                       \A f \in Files : rows'[c][f].reviewed => <<f, rows'[c][f].rev>> \in made
<1>1. IInv => [Step]_vars
  <2>1. ASSUME IInv, NEW c \in Clients, ChangesArrive(c) \/ ReviewsArrive(c), NEW f \in Files
        PROVE  rows'[c][f].reviewed => <<f, rows'[c][f].rev>> \in made
    BY <2>1, ChangesArriveKeeps, ReviewsArriveKeeps
  <2>2. QED BY <2>1
<1>2. QED BY <1>1, InitHolds, NextKeeps, PTL DEF Spec, RefreshedMarksMade
=============================================================================
