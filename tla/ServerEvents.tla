---------------------------- MODULE ServerEvents ----------------------------
(***************************************************************************)
(* How the browsers of one server learn of a repository's changes: the     *)
(* event streams of the server (ServerEventStreams), fed by mutations, by  *)
(* the file watcher and by a poller that compares revisions with those in  *)
(* the shared database, and the client that answers an event by fetching   *)
(* the files (useRepositoryEvents, useRepositoryWorkspace,                 *)
(* useStagingWorkflow).  The marks a client shows, and its fetches of      *)
(* them, are in ReviewMarks.  Other servers over the same repository and   *)
(* database appear as writers.                                             *)
(*                                                                         *)
(* A repository has an operation revision (its files, index and HEAD) and  *)
(* a state revision (its review marks, in the database every local server  *)
(* shares).  Both are counters here: a revision is only compared for       *)
(* equality.  What a snapshot sees is read when the snapshot is asked for; *)
(* joining one that is already being built is not represented.  Requests   *)
(* of one client are served and answered in any order, and any of them may *)
(* fail: the client reports it and, but for one after staging, does not    *)
(* ask again.                                                              *)
(***************************************************************************)
EXTENDS Integers, Sequences, SequencesExt

CONSTANTS
  Clients,       \* browsers that show the repository
  None,
  MaxOperation,  \* bound: operation revisions are 1..MaxOperation, 0 is ""
  MaxCalls,      \* bound: requests a client has under way
  MaxIncidents   \* bound: lost streams, staging requests and writes of review marks together

ASSUME EventAssumption ==
  MaxOperation \in Nat \ {0} /\ MaxCalls \in Nat \ {0} /\ MaxIncidents \in Nat

Operations == 0..MaxOperation
States     == 0..MaxIncidents

EventTypes == {"ready", "changes", "state"}
Event      == [type : EventTypes, operation : Operations, state : States]
Stream     == [operation : Operations, state : States, ready : BOOLEAN]
Call       == [again : BOOLEAN, served : BOOLEAN, operation : Operations]
Pending    == [phase : {"sent", "applied", "staged", "conflict", "failed"}, at : Operations,
               result : Operations, queued : Operations \cup {None}]

VARIABLES
  operation,  \* the repository's operation revision
  reviews,    \* its state revision: review writes 1..reviews are stored
  stream,     \* the server's record of a client's stream, None without one
  opening,    \* the revision read for a stream that is not ready yet
  emitting,   \* the "state" emission of a client's review write
  watching,   \* the revision the file watcher has read
  polling,    \* the revision the poll has read, None when none is in flight
  inbox,      \* events a client has not handled
  shown,      \* the operation revision of the files a client shows
  pending,    \* its staging request
  calls,      \* its requests for the files, oldest first
  lapsed,     \* history: the news of files a client had last was lost with the fetch it led to
  drops,
  stages

serverVars == <<stream, opening, emitting, watching, polling>>
clientVars == <<inbox, shown, pending, calls, lapsed>>
boundVars  == <<drops, stages>>
vars == <<operation, reviews, serverVars, clientVars, boundVars>>

TypeOK ==
  /\ operation \in 1..MaxOperation /\ reviews \in States
  /\ stream \in [Clients -> Stream \cup {None}]
  /\ opening \in [Clients -> Operations \cup {None}]
  /\ \A c \in Clients : opening[c] # None => stream[c] # None /\ ~stream[c].ready
  /\ emitting \in [Clients -> [to : SUBSET Clients, operation : Operations] \cup {None}]
  /\ watching \in Operations \cup {None}
  /\ polling \in Operations \cup {None}
  /\ inbox \in [Clients -> Seq(Event)]
  /\ shown \in [Clients -> Operations]
  /\ pending \in [Clients -> Pending \cup {None}]
  /\ calls \in [Clients -> Seq(Call)] /\ lapsed \in [Clients -> BOOLEAN]
  /\ drops \in Nat /\ stages \in Nat /\ drops + stages + reviews <= MaxIncidents

\* Every client has loaded the repository and opens its stream next.
Init ==
  /\ operation = 1 /\ reviews = 0
  /\ stream = [c \in Clients |-> None] /\ opening = [c \in Clients |-> None]
  /\ emitting = [c \in Clients |-> None]
  /\ watching = None /\ polling = None
  /\ inbox = [c \in Clients |-> <<>>]
  /\ shown = [c \in Clients |-> 1]
  /\ pending = [c \in Clients |-> None] /\ calls = [c \in Clients |-> <<>>]
  /\ lapsed = [c \in Clients |-> FALSE]
  /\ drops = 0 /\ stages = 0

-----------------------------------------------------------------------------
(* The server's streams.                                                   *)

Incident == drops + stages + reviews < MaxIncidents

Streams == {c \in Clients : stream[c] # None}

\* sendEvent: an event carries every revision, and the stream's record takes them all.
Send(events) ==
  /\ inbox' = [c \in Clients |-> inbox[c] \o events[c]]
  /\ stream' = [c \in Clients |->
       IF events[c] = <<>> THEN stream[c]
       ELSE [stream[c] EXCEPT !.operation = Last(events[c]).operation,
                              !.state = Last(events[c]).state]]

EventOf(type, op, st) == [type |-> type, operation |-> op, state |-> st]

\* emitRepository(id, "changes", op)
EmitChanges(op) ==
  Send([c \in Clients |-> IF c \in Streams /\ stream[c].operation # op
                          THEN <<EventOf("changes", op, reviews)>> ELSE <<>>])

\* emitRepository(id, "state") once its snapshot is there; To are the streams it found before.
EmitState(c) ==
  /\ emitting[c] # None
  /\ Send([d \in Clients |-> IF d \in emitting[c].to /\ stream[d].state # reviews
                             THEN <<EventOf("state", emitting[c].operation, reviews)>> ELSE <<>>])
  /\ emitting' = [emitting EXCEPT ![c] = None]
  /\ UNCHANGED <<operation, reviews, opening, watching, polling, shown, pending, calls,
                 lapsed, boundVars>>

\* ServerEventStreams.open
Connect(c) ==
  /\ stream[c] = None
  /\ stream' = [stream EXCEPT ![c] = [operation |-> 0, state |-> reviews, ready |-> FALSE]]
  /\ opening' = [opening EXCEPT ![c] = operation]
  /\ UNCHANGED <<operation, reviews, emitting, watching, polling, clientVars, boundVars>>
Ready(c) ==
  /\ opening[c] # None
  /\ opening' = [opening EXCEPT ![c] = None]
  /\ inbox' = [inbox EXCEPT ![c] = Append(@, EventOf("ready", opening[c], reviews))]
  /\ stream' = [stream EXCEPT ![c] = [operation |-> opening[c], state |-> reviews, ready |-> TRUE]]
  /\ UNCHANGED <<operation, reviews, emitting, watching, polling, shown, pending, calls,
                 lapsed, boundVars>>

\* What becomes of an opening whose stream is gone; mutant: it still reports ready.
OpensAnyway(c) == opening[c]
GivesUp(c)     == None

\* The stream breaks, with what was on its way; the browser opens another.
Drop(c) ==
  /\ Incident /\ drops' = drops + 1
  /\ stream[c] # None
  /\ stream' = [stream EXCEPT ![c] = None] /\ opening' = [opening EXCEPT ![c] = GivesUp(c)]
  /\ inbox' = [inbox EXCEPT ![c] = <<>>]
  /\ emitting' = [d \in Clients |-> IF emitting[d] = None THEN None
                                    ELSE [emitting[d] EXCEPT !.to = @ \ {c}]]
  /\ UNCHANGED <<operation, reviews, watching, polling, shown, pending, calls, lapsed, stages>>

\* refreshWatcher: a change on disk, or nothing worth telling, makes it look.
Watch ==
  /\ watching = None /\ Streams # {}
  /\ watching' = operation
  /\ UNCHANGED <<operation, reviews, stream, opening, emitting, polling, clientVars, boundVars>>
Watched ==
  /\ watching # None
  /\ watching' = None
  /\ EmitChanges(watching)
  /\ UNCHANGED <<operation, reviews, opening, emitting, polling, shown, pending, calls,
                 lapsed, boundVars>>

Poll ==
  /\ polling = None
  /\ \E c \in Streams : stream[c].ready
  /\ polling' = operation
  /\ UNCHANGED <<operation, reviews, stream, opening, emitting, watching, clientVars, boundVars>>

\* Mutants: pollInFlight stays set; the poll leaves files to other events.
StillPolling   == polling
PollOver       == None
PollNoFiles(c) == <<>>
PollFiles(c)   == IF polling # stream[c].operation
                  THEN <<EventOf("changes", polling, stream[c].state)>> ELSE <<>>
PollState(c)   == IF reviews # stream[c].state
                  THEN <<EventOf("state", polling, reviews)>> ELSE <<>>
Polled ==
  /\ polling # None
  /\ Send([c \in Clients |-> IF c \in Streams /\ stream[c].ready
                             THEN PollFiles(c) \o PollState(c) ELSE <<>>])
  /\ polling' = PollOver
  /\ UNCHANGED <<operation, reviews, opening, emitting, watching, shown, pending, calls,
                 lapsed, boundVars>>
PollFails ==
  /\ polling # None
  /\ polling' = PollOver
  /\ UNCHANGED <<operation, reviews, stream, opening, emitting, watching, clientVars, boundVars>>

-----------------------------------------------------------------------------
(* What changes the repository: an editor, another program or another      *)
(* server, and review marks, shown at once by their client.                *)

Edit ==
  /\ operation < MaxOperation
  /\ operation' = operation + 1
  /\ UNCHANGED <<reviews, serverVars, clientVars, boundVars>>

\* A client of another server marks a file.
ReviewElsewhere ==
  /\ Incident
  /\ reviews' = reviews + 1
  /\ UNCHANGED <<operation, serverVars, clientVars, boundVars>>

\* setReviewed, and PUT files/review up to its emission
Review(c) ==
  /\ Incident /\ emitting[c] = None
  /\ reviews' = reviews + 1
  /\ emitting' = [emitting EXCEPT ![c] = IF Streams = {} THEN None
                                          ELSE [to |-> Streams, operation |-> operation]]
  /\ UNCHANGED <<operation, stream, opening, watching, polling, clientVars, boundVars>>

-----------------------------------------------------------------------------
(* The client.                                                             *)

RefreshChanges  == [again |-> FALSE, served |-> FALSE, operation |-> 0]
RefreshOnceMore == [RefreshChanges EXCEPT !.again = TRUE]
Calls(c, more) == /\ Len(calls[c]) + Len(more) <= MaxCalls
                  /\ calls' = [calls EXCEPT ![c] = @ \o more]
                  /\ lapsed' = [lapsed EXCEPT ![c] = @ /\ more = <<>>]

\* queueExternalChange
Queue(c, e) == [pending EXCEPT ![c].queued = e.operation]

\* onMessage; what becomes of "state" events and of the marks is in ReviewMarks.
HandleEvent(c) ==
  /\ inbox[c] # <<>>
  /\ inbox' = [inbox EXCEPT ![c] = Tail(@)]
  /\ LET e == Head(inbox[c])
     IN \/ /\ e.type = "changes" /\ pending[c] # None
           /\ pending' = Queue(c, e) /\ UNCHANGED <<calls, lapsed>>
        \/ /\ e.type = "ready" \/ (e.type = "changes" /\ pending[c] = None)
           /\ e.operation # shown[c]
           /\ Calls(c, <<RefreshChanges>>) /\ UNCHANGED pending
        \/ /\ \/ e.type = "changes" /\ pending[c] = None /\ e.operation = shown[c]
              \/ e.type = "ready" /\ e.operation = shown[c]
              \/ e.type = "state"
           /\ UNCHANGED <<calls, lapsed, pending>>
  /\ UNCHANGED <<operation, reviews, serverVars, shown, boundVars>>

\* GET files
Serve(c, i) ==
  /\ i \in DOMAIN calls[c] /\ ~calls[c][i].served
  /\ calls' = [calls EXCEPT ![c][i] = [@ EXCEPT !.served = TRUE, !.operation = operation]]
  /\ UNCHANGED <<operation, reviews, serverVars, inbox, shown, pending, lapsed, boundVars>>

\* The answer to a request, the oldest or not.
Answered(c, i) ==
  /\ i \in DOMAIN calls[c] /\ calls[c][i].served
  /\ shown' = [shown EXCEPT ![c] = calls[c][i].operation]
  /\ lapsed' = [lapsed EXCEPT ![c] = @ \/ calls[c][i].operation < shown[c]]
  /\ calls' = [calls EXCEPT ![c] = RemoveAt(@, i)]
  /\ UNCHANGED <<operation, reviews, serverVars, inbox, pending, boundVars>>

\* markConnectionFailure, or a rejection nobody handles: the client goes on with what it shows.
\* Only the refresh that toggleActiveFile waits for is sent once more.
FetchFails(c, i) ==
  /\ i \in DOMAIN calls[c]
  /\ LET rest == RemoveAt(calls[c], i)
     IN \/ /\ calls[c][i].again
           /\ calls' = [calls EXCEPT ![c] = Append(rest, RefreshChanges)] /\ UNCHANGED lapsed
        \/ /\ ~calls[c][i].again
           /\ calls' = [calls EXCEPT ![c] = rest]
           /\ lapsed' = [lapsed EXCEPT ![c] = @ \/ i = Len(calls[c])]
  /\ UNCHANGED <<operation, reviews, serverVars, inbox, shown, pending, boundVars>>

\* toggleActiveFile: the file is staged at the revision shown.
Stage(c) ==
  /\ Incident /\ stages' = stages + 1
  /\ pending[c] = None /\ \A i \in DOMAIN calls[c] : ~calls[c][i].again
  /\ pending' = [pending EXCEPT ![c] = [phase |-> "sent", at |-> shown[c], result |-> 0,
                                        queued |-> None]]
  /\ UNCHANGED <<operation, reviews, serverVars, inbox, shown, calls, lapsed, drops>>
StageApplied(c) ==
  /\ pending[c] # None /\ pending[c].phase = "sent"
  /\ \/ /\ pending[c].at = operation /\ operation < MaxOperation
        /\ operation' = operation + 1
        /\ pending' = [pending EXCEPT ![c].phase = "applied", ![c].result = operation + 1]
     \/ /\ pending[c].at # operation
        /\ pending' = [pending EXCEPT ![c].phase = "conflict"] /\ UNCHANGED operation
     \/ pending' = [pending EXCEPT ![c].phase = "failed"] /\ UNCHANGED operation
  /\ UNCHANGED <<reviews, serverVars, inbox, shown, calls, lapsed, boundVars>>
StageEmitted(c) ==
  /\ pending[c] # None /\ pending[c].phase = "applied"
  /\ EmitChanges(pending[c].result)
  /\ pending' = [pending EXCEPT ![c].phase = "staged"]
  /\ UNCHANGED <<operation, reviews, opening, emitting, watching, polling, shown, calls, lapsed,
                 boundVars>>
StageAnswered(c) ==
  /\ pending[c] # None
  /\ pending' = [pending EXCEPT ![c] = None]
  /\ LET p == pending[c]
     IN \/ /\ p.phase = "staged"
           /\ shown' = [shown EXCEPT ![c] = p.result]
           /\ Calls(c, IF p.queued \notin {None, p.result} THEN <<RefreshOnceMore>> ELSE <<>>)
        \/ /\ p.phase \in {"conflict", "failed"}
           /\ Calls(c, IF p.queued # None \/ p.phase = "conflict" THEN <<RefreshChanges>>
                       ELSE <<>>)
           /\ UNCHANGED shown
  /\ UNCHANGED <<operation, reviews, serverVars, inbox, boundVars>>

-----------------------------------------------------------------------------
ServerStep == Watch \/ Watched \/ Poll \/ Polled \/ PollFails
StreamStep(c) == Connect(c) \/ Ready(c) \/ Drop(c) \/ EmitState(c)
ClientStep(c) ==
  \/ HandleEvent(c) \/ Review(c)
  \/ (\E i \in 1..MaxCalls : Serve(c, i) \/ Answered(c, i) \/ FetchFails(c, i))
  \/ Stage(c) \/ StageApplied(c) \/ StageEmitted(c) \/ StageAnswered(c)

Next == \/ Edit \/ ReviewElsewhere
        \/ ServerStep
        \/ \E c \in Clients : StreamStep(c) \/ ClientStep(c)

Spec == Init /\ [][Next]_vars

\* A broken stream is opened again, requests are answered or fail, events arrive, the poll timer
\* fires and not every poll fails.  Nobody has to edit, review or stage, and the watcher may stay
\* silent.
Fairness ==
  /\ WF_vars(Poll) /\ SF_vars(Polled)
  /\ \A c \in Clients :
       /\ WF_vars(Connect(c)) /\ WF_vars(Ready(c)) /\ WF_vars(EmitState(c))
       /\ WF_vars(HandleEvent(c))
       /\ WF_vars(\E i \in 1..MaxCalls : Serve(c, i))
       /\ WF_vars(\E i \in 1..MaxCalls : Answered(c, i) \/ FetchFails(c, i))
       /\ WF_vars(StageApplied(c)) /\ WF_vars(StageEmitted(c)) /\ WF_vars(StageAnswered(c))
FairSpec == Spec /\ Fairness

-----------------------------------------------------------------------------
(* Properties.                                                             *)

\* The server's own records catch up with the repository whatever order emissions, watcher
\* notifications and polls come in: once it is left alone, every stream has been sent the latest
\* revisions.
StreamsCatchUp ==
  \A c \in Clients :
    <>[](stream[c] # None /\ stream[c].operation = operation /\ stream[c].state = reviews)

\* Once the repository is left alone, every client shows its latest files, unless the news it had
\* last was lost on the client's side: the fetch it led to failed, or an answer that saw less came
\* after one that saw more, for the server counts news as delivered when it is sent and nobody
\* fetches again.  As long as nobody stages or marks: the news of files that a "state" event
\* carries is taken as delivered, and not fetched.
FilesObserved ==
  [](reviews = 0 /\ stages = 0) =>
    \A c \in Clients : <>[](shown[c] = operation \/ lapsed[c])
=============================================================================
