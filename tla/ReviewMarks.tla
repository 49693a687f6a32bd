----------------------------- MODULE ReviewMarks -----------------------------
(***************************************************************************)
(* Review marks: the user marks a file reviewed at the content revision    *)
(* the list shows (useReviewStatus), the server checks the revision        *)
(* against a snapshot and stores the mark (RepositoryReview, ReviewStore,  *)
(* StateDatabase), and the clients of the repository learn of it through   *)
(* events and fetch marks or files again (useRepositoryEvents,             *)
(* useRepositoryWorkspace).  Meanwhile files change.                       *)
(*                                                                         *)
(* A content revision is a number; an operation revision is the function   *)
(* of all of them.  The files listed never change, nor does the index, and *)
(* a file does not return to an earlier content.                           *)
(* What decides that an event is due (polls, watcher, emissions) is the    *)
(* subject of ServerEvents; here an event of any legal kind is due as soon *)
(* as a snapshot or the state revision differs from what a stream was      *)
(* sent.  Answers to a client's fetches arrive in the order they were      *)
(* asked for, answers to its writes in any order; any of them may fail,    *)
(* and a failed fetch is not asked for again.                              *)
(***************************************************************************)
EXTENDS Integers, Sequences, FiniteSets, Functions

CONSTANTS
  Clients,      \* browsers that show the repository
  Files,
  None,
  MaxContent,   \* bound: content revisions of a file are 0..MaxContent
  MaxIncidents  \* bound: marks, bulk removals, undos, changes of content and failures together

ASSUME ReviewAssumption ==
  Files # {} /\ None \notin Clients /\ MaxContent \in Nat /\ MaxIncidents \in Nat

Revisions == 0..MaxContent
Contents  == [Files -> Revisions]
Mark      == [rev : Revisions, reviewed : BOOLEAN]
Marks     == [Files -> Mark]
Undo      == [file : Files, rev : Revisions, reviewed : BOOLEAN]
Event     == [type : {"changes", "state"}, operation : Contents]
Get       == [kind : {"changes", "reviews"}, served : BOOLEAN, marks : Marks]
Put       == [id : 1..MaxIncidents, client : Clients \cup {None}, kind : {"one", "undo", "all"},
              targets : UNION {[T -> Revisions] : T \in SUBSET Files}, reviewed : BOOLEAN,
              previous : BOOLEAN, phase : {"sent", "waiting", "accepted", "stored", "failed"},
              todo : SUBSET Files]

VARIABLES
  content,   \* the content revision of each file on disk
  store,     \* the stored review of each file
  revision,  \* the state revision: how often a review was stored
  build,     \* the marks read for the snapshot in flight, None without one
  snapshot,  \* the content of the last snapshot
  stream,    \* what each client's stream was last sent
  inbox,     \* events a client has not handled
  rows,      \* the files a client shows: content revision and mark
  gets,      \* its fetches, oldest first
  puts,      \* the writes of all clients
  busy,      \* busy or bulkBusy
  undo,      \* what the toast of a client offers to undo
  made,      \* history: <<file, revision>> some user asked to mark
  lapses,    \* history: marks a failure put back, events passed over
  missed,    \* history: what a client has not fetched since a fetch of it failed
  incidents

serverVars == <<store, revision, build, snapshot>>
eventVars  == <<stream, inbox>>
clientVars == <<rows, gets, busy, undo, lapses, missed>>
vars == <<content, serverVars, eventVars, clientVars, puts, made, incidents>>

TypeOK ==
  /\ content \in Contents /\ store \in Marks /\ revision \in Nat
  /\ build \in Marks \cup {None}
  /\ snapshot \in Contents
  /\ stream \in [Clients -> [operation : Contents, revision : Nat]]
  /\ inbox \in [Clients -> Seq(Event)]
  /\ rows \in [Clients -> Marks]
  /\ gets \in [Clients -> Seq(Get)]
  /\ puts \subseteq Put
  /\ \A p, q \in puts : p.id = q.id => p = q
  /\ \A p \in puts : p.phase = "stored" => p.todo = {}
  /\ busy \in [Clients -> BOOLEAN]
  /\ \A c \in Clients :
       busy[c] <=> Cardinality({p \in puts : p.client = c /\ p.kind # "undo"}) = 1
  /\ undo \in [Clients -> Undo \cup {None}]
  /\ made \subseteq Files \X Revisions
  /\ lapses \subseteq {"put back", "passed over"}
  /\ missed \in [Clients -> SUBSET {"changes", "reviews"}]
  /\ incidents \in 0..MaxIncidents

\* Every client has loaded the repository and its stream is ready; some files are marked.
Init ==
  /\ content = [f \in Files |-> 0] /\ snapshot = content
  /\ \E T \in SUBSET Files : /\ store = [f \in Files |-> [rev |-> 0, reviewed |-> f \in T]]
                             /\ made = T \X {0}
  /\ revision = 0 /\ build = None
  /\ stream = [c \in Clients |-> [operation |-> content, revision |-> 0]]
  /\ inbox = [c \in Clients |-> <<>>]
  /\ rows = [c \in Clients |-> store] /\ gets = [c \in Clients |-> <<>>]
  /\ puts = {} /\ busy = [c \in Clients |-> FALSE] /\ undo = [c \in Clients |-> None]
  /\ lapses = {} /\ missed = [c \in Clients |-> {}]
  /\ incidents = 0

-----------------------------------------------------------------------------
(* The user and the client.                                                *)

\* getSnapshot: a request joins the build in flight or starts one.  The marks of a snapshot are
\* read when it starts, before the content they are compared with.
Joined == IF build = None THEN store ELSE build

Incident == incidents < MaxIncidents /\ incidents' = incidents + 1

Operation(c) == [f \in Files |-> rows[c][f].rev]

ShowMark(c, T, reviewed) ==
  rows' = [rows EXCEPT ![c] = [f \in Files |-> IF f \in T THEN [@[f] EXCEPT !.reviewed = reviewed]
                                                          ELSE @[f]]]

Request(c, kind, targets, reviewed, previous) ==
  /\ Incident
  /\ puts' = puts \cup {[id |-> incidents', client |-> c, kind |-> kind, targets |-> targets,
                         reviewed |-> reviewed, previous |-> previous, phase |-> "sent",
                         todo |-> DOMAIN targets]}
  /\ made' = IF reviewed THEN made \cup {<<f, targets[f]>> : f \in DOMAIN targets} ELSE made
  /\ ShowMark(c, DOMAIN targets, reviewed)
  /\ UNCHANGED <<content, serverVars, eventVars, gets, lapses, missed>>

Targets(c, T) == [f \in T |-> rows[c][f].rev]

\* setReviewed(file, !file.reviewed)
SetReviewed(c, f) ==
  /\ ~busy[c] /\ busy' = [busy EXCEPT ![c] = TRUE]
  /\ Request(c, "one", Targets(c, {f}), ~rows[c][f].reviewed, rows[c][f].reviewed)
  /\ UNCHANGED undo

UnreviewMultiple(c) ==
  LET reviewed == {f \in Files : rows[c][f].reviewed}
  IN /\ ~busy[c] /\ reviewed # {} /\ busy' = [busy EXCEPT ![c] = TRUE]
     /\ Request(c, "all", Targets(c, reviewed), FALSE, TRUE)
     /\ UNCHANGED undo

\* undoReview: a mark may be under way
UndoReview(c) ==
  /\ undo[c] # None /\ undo' = [undo EXCEPT ![c] = None]
  /\ LET u == undo[c]
     IN Request(c, "undo", [f \in {u.file} |-> u.rev], u.reviewed, ~u.reviewed)
  /\ UNCHANGED busy

\* GET files, or GET files/review, which reads the store as it asks for the snapshot
Fetch(c, rest, kind) ==
  /\ gets' = [gets EXCEPT ![c] = Append(rest, [kind |-> kind, served |-> FALSE, marks |-> store])]
  /\ build' = Joined
NoFetch == UNCHANGED <<gets, build>>

\* Mutant: the answer to an undo ends the mark that is under way as well.
DoneWithAny(c, p) == busy' = [busy EXCEPT ![c] = FALSE]
Done(c, p)        == busy' = [busy EXCEPT ![c] = @ /\ p.kind = "undo"]

\* The write of a client succeeded; only the toast of a single mark offers an undo.
Succeeds(c, p) ==
  /\ Done(c, p)
  /\ \/ p.kind = "undo" /\ UNCHANGED undo
     \/ p.kind = "all" /\ undo' = [undo EXCEPT ![c] = None]
     \/ /\ p.kind = "one"
        /\ \E f \in DOMAIN p.targets :
             undo' = [undo EXCEPT ![c] = [file |-> f, rev |-> p.targets[f], reviewed |-> p.previous]]
  /\ NoFetch /\ UNCHANGED <<rows, lapses>>

\* A failed write; mutant: a failed bulk removal is put back and left so.
RefreshesUndo(p) == p.kind = "undo"
Refreshes(p)     == p.kind # "one"
Fails(c, p) ==
  /\ Done(c, p)
  /\ undo' = [undo EXCEPT ![c] = None]
  /\ IF p.kind = "undo" THEN UNCHANGED rows ELSE ShowMark(c, DOMAIN p.targets, p.previous)
  /\ IF Refreshes(p) THEN Fetch(c, gets[c], "reviews") ELSE NoFetch
  /\ lapses' = IF p.kind = "one" THEN lapses \cup {"put back"} ELSE lapses

Answered(p) ==
  /\ p.client # None /\ p.phase \in {"stored", "failed"}
  /\ puts' = puts \ {p}
  /\ IF p.phase = "stored" THEN Succeeds(p.client, p) ELSE Fails(p.client, p)
  /\ UNCHANGED <<content, store, revision, snapshot, eventVars, missed, made, incidents>>

\* The connection of a write is lost; the server may never have seen it, or go on with it.
Lost(p) ==
  /\ p.client # None /\ Incident
  /\ \/ p.phase = "sent" /\ puts' = puts \ {p}
     \/ puts' = (puts \ {p}) \cup {[p EXCEPT !.client = None]}
  /\ Fails(p.client, p)
  /\ UNCHANGED <<content, store, revision, snapshot, eventVars, missed, made>>

\* onMessage
HandleEvent(c) ==
  /\ inbox[c] # <<>> /\ inbox' = [inbox EXCEPT ![c] = Tail(@)]
  /\ LET e == Head(inbox[c])
     IN \/ e.type = "changes" /\ e.operation # Operation(c)
           /\ Fetch(c, gets[c], "changes") /\ UNCHANGED lapses
        \/ e.type = "changes" /\ e.operation = Operation(c)
           /\ lapses' = lapses \cup {"passed over"} /\ NoFetch
        \/ e.type = "state" /\ Fetch(c, gets[c], "reviews") /\ UNCHANGED lapses
  /\ UNCHANGED <<content, store, revision, snapshot, stream, rows, busy, undo, missed, puts, made,
                 incidents>>

\* applyRepositoryState, then refreshReviewState
ChangesArrive(c) ==
  /\ gets[c] # <<>> /\ Head(gets[c]).kind = "changes" /\ Head(gets[c]).served
  /\ rows' = [rows EXCEPT ![c] = Head(gets[c]).marks]
  /\ Fetch(c, Tail(gets[c]), "reviews")
  /\ missed' = [missed EXCEPT ![c] = @ \ {"changes"}]
  /\ UNCHANGED <<content, store, revision, snapshot, eventVars, busy, undo, lapses, puts, made,
                 incidents>>

\* refreshReviewState; mutant: the revision of the row is not compared.
SameFile(review, row)  == review.reviewed
SameMark(review, row)  == review.reviewed /\ review.rev = row.rev
ReviewsArrive(c) ==
  /\ gets[c] # <<>> /\ Head(gets[c]).kind = "reviews" /\ Head(gets[c]).served
  /\ rows' = [rows EXCEPT ![c] = [f \in Files |->
                [@[f] EXCEPT !.reviewed = SameMark(Head(gets[c]).marks[f], rows[c][f])]]]
  /\ gets' = [gets EXCEPT ![c] = Tail(@)]
  /\ missed' = [missed EXCEPT ![c] = @ \ {"reviews"}]
  /\ UNCHANGED <<content, serverVars, eventVars, busy, undo, lapses, puts, made, incidents>>

\* A fetch fails: markConnectionFailure at most reports it, the rows stay, and the marks that
\* were to follow the files are not fetched.
FetchFails(c) ==
  /\ gets[c] # <<>> /\ Incident
  /\ gets' = [gets EXCEPT ![c] = Tail(@)]
  /\ missed' = [missed EXCEPT ![c] = @ \cup {Head(gets[c]).kind, "reviews"}]
  /\ UNCHANGED <<content, serverVars, eventVars, rows, busy, undo, lapses, puts, made>>

-----------------------------------------------------------------------------
(* The server.                                                             *)

PutArrives(p) ==
  /\ p.phase = "sent"
  /\ puts' = (puts \ {p}) \cup {[p EXCEPT !.phase = "waiting"]}
  /\ build' = Joined
  /\ UNCHANGED <<content, store, revision, snapshot, eventVars, clientVars, made, incidents>>

\* The poll or the watcher finds content that the last snapshot does not have.
Watch ==
  /\ build = None /\ snapshot # content
  /\ build' = Joined
  /\ UNCHANGED <<content, store, revision, snapshot, eventVars, clientVars, puts, made, incidents>>

\* FileChange.reviewed
MarkOfContent(mark, rev) == [rev |-> rev, reviewed |-> mark.reviewed /\ mark.rev = rev]

\* requireCurrentContent for every file of a write
StillCurrent(p, contents) == \A f \in DOMAIN p.targets : contents[f] = p.targets[f]

\* The build reads the content and ends, for all who wait for it.
EndSnapshot ==
  /\ build # None
  /\ build' = None /\ snapshot' = content
  /\ LET Shown(g) == [f \in Files |->
           IF g.kind = "changes" THEN MarkOfContent(build[f], content[f])
           ELSE [g.marks[f] EXCEPT !.reviewed = @ /\ g.marks[f].rev = content[f]]]
         Served(g)  == IF g.served THEN g ELSE [g EXCEPT !.served = TRUE, !.marks = Shown(g)]
         Checked(p) == IF p.phase # "waiting" THEN p
                       ELSE [p EXCEPT !.phase = IF StillCurrent(p, content) THEN "accepted"
                                                                            ELSE "failed"]
     IN /\ gets' = [c \in Clients |-> [i \in DOMAIN gets[c] |-> Served(gets[c][i])]]
        /\ puts' = {p \in {Checked(q) : q \in puts} : p.client # None \/ p.phase # "failed"}
  /\ UNCHANGED <<content, store, revision, eventVars, rows, busy, undo, lapses, missed, made,
                 incidents>>

\* StateDatabase.setReview; setReviews stores its files one by one.
StoreReview(p) ==
  /\ p.phase = "accepted"
  /\ \E f \in p.todo :
       LET left == p.todo \ {f}
           next == [p EXCEPT !.todo = left, !.phase = IF left = {} THEN "stored" ELSE @]
       IN /\ store' = [store EXCEPT ![f] = [rev |-> p.targets[f], reviewed |-> p.reviewed]]
          /\ puts' = (puts \ {p}) \cup (IF left = {} /\ p.client = None THEN {} ELSE {next})
  /\ revision' = revision + 1
  /\ UNCHANGED <<content, build, snapshot, eventVars, clientVars, made, incidents>>

\* The database refuses a write, perhaps after some of its files.
StoreFails(p) ==
  /\ p.phase = "accepted" /\ Incident
  /\ puts' = (puts \ {p}) \cup (IF p.client = None THEN {} ELSE {[p EXCEPT !.phase = "failed"]})
  /\ UNCHANGED <<content, serverVars, eventVars, clientVars, made>>

\* sendEvent: an event carries both revisions, and the stream counts both as sent.  A poll sends
\* every event that is due, the watcher "changes", the emission after a write "state".
Tell(c) ==
  LET changed == stream[c].operation # snapshot
      marked  == stream[c].revision # revision
      event(type) == <<[type |-> type, operation |-> snapshot]>>
  IN /\ stream' = [stream EXCEPT ![c] = [operation |-> snapshot, revision |-> revision]]
     /\ \/ changed /\ inbox' = [inbox EXCEPT ![c] = @ \o event("changes")]
        \/ marked  /\ inbox' = [inbox EXCEPT ![c] = @ \o event("state")]
        \/ changed /\ marked /\ inbox' = [inbox EXCEPT ![c] = @ \o event("changes") \o event("state")]
     /\ UNCHANGED <<content, serverVars, clientVars, puts, made, incidents>>

\* A client of another server stores a mark, checked against a snapshot of its own.
ReviewElsewhere(f) ==
  /\ Incident
  /\ \E rev \in {snapshot[f], content[f]}, reviewed \in BOOLEAN :
       /\ store' = [store EXCEPT ![f] = [rev |-> rev, reviewed |-> reviewed]]
       /\ made' = IF reviewed THEN made \cup {<<f, rev>>} ELSE made
  /\ revision' = revision + 1
  /\ UNCHANGED <<content, build, snapshot, eventVars, clientVars, puts>>

\* An editor or an agent changes a file.
Edit(f) ==
  /\ Incident /\ content[f] < MaxContent
  /\ content' = [content EXCEPT ![f] = @ + 1]
  /\ UNCHANGED <<serverVars, eventVars, clientVars, puts, made>>

-----------------------------------------------------------------------------
UserStep   == (\E c \in Clients : (\E f \in Files : SetReviewed(c, f)) \/ UnreviewMultiple(c)
                                  \/ UndoReview(c))
              \/ (\E f \in Files : Edit(f) \/ ReviewElsewhere(f))
ClientStep == \/ \E c \in Clients : \/ HandleEvent(c)
                                    \/ ChangesArrive(c) \/ ReviewsArrive(c) \/ FetchFails(c)
              \/ \E p \in puts : Answered(p) \/ Lost(p)
ServerStep == \/ Watch \/ EndSnapshot
              \/ \E c \in Clients : Tell(c)
              \/ \E p \in puts : PutArrives(p) \/ StoreReview(p) \/ StoreFails(p)
Next == UserStep \/ ClientStep \/ ServerStep

Spec == Init /\ [][Next]_vars

\* Requests, events and answers arrive, and polls go on.  Nobody has to edit, mark or fail.
Fairness ==
  /\ WF_vars(Watch) /\ WF_vars(EndSnapshot)
  /\ \A c \in Clients :
       /\ WF_vars(Tell(c)) /\ WF_vars(HandleEvent(c))
       /\ WF_vars(ChangesArrive(c)) /\ WF_vars(ReviewsArrive(c))
  /\ WF_vars(\E p \in puts : PutArrives(p)) /\ WF_vars(\E p \in puts : StoreReview(p))
  /\ WF_vars(\E p \in puts : Answered(p))
FairSpec == Spec /\ Fairness

-----------------------------------------------------------------------------
(* Properties.                                                             *)

\* Whatever order snapshots, marks, changes of content and answers come in, the files and the
\* marks a client fetches never show a file reviewed at a content nobody marked: neither a
\* mark stored against a snapshot that was overtaken, nor an answer older than the list shows it.
RefreshedMarksMade ==
  [][\A c \in Clients :
       ChangesArrive(c) \/ ReviewsArrive(c) =>
         \A f \in Files : rows'[c][f].reviewed => <<f, rows'[c][f].rev>> \in made]_vars

\* Once left alone, every client shows exactly the marks that are stored for the content it
\* shows, as long as no single mark was put back and no event passed over: an optimistic mark,
\* an undo, and a bulk removal that failed half way are all corrected.  But for a client whose
\* fetch failed and that had no reason to fetch again: nobody repeats it, and its marks stay.
MarksConverge ==
  [](lapses = {}) =>
    \A c \in Clients :
      <>[](\/ missed[c] # {}
           \/ \A f \in Files :
                rows[c][f].reviewed <=> (store[f].reviewed /\ store[f].rev = content[f]
                                         /\ rows[c][f].rev = content[f]))

\* When nothing is under way, no client shows a file reviewed at a content nobody marked: a
\* change of content clears the mark (README.md:54).
ContentChangeClearsMark ==
  (/\ puts = {} /\ build = None /\ snapshot = content
   /\ \A c \in Clients : /\ gets[c] = <<>> /\ inbox[c] = <<>>
                         /\ stream[c] = [operation |-> content, revision |-> revision])
    => \A c \in Clients, f \in Files : rows[c][f].reviewed => <<f, rows[c][f].rev>> \in made
=============================================================================
