---------------------------- MODULE SpeechService ----------------------------
(***************************************************************************)
(* The server's half of dictation: the route that receives a recording and *)
(* the queue in front of the one transcriber (handleSpeechApi and          *)
(* SpeechService).  A request reserves its bytes before its body is read,  *)
(* gives the reservation up for a place in the queue, and is transcribed   *)
(* when the ones before it are done.  Its connection may break at any      *)
(* time; the server learns of it later, through the request's signal.      *)
(*                                                                         *)
(* The transcriber is an HTTP client of another daemon: it answers,        *)
(* refuses, or says nothing until it is told to give up.  It is ready from *)
(* its creation until it is closed.  Refusals, failures, cancellations and *)
(* timeouts are one answer, "error": the client treats them alike.         *)
(***************************************************************************)
EXTENDS Integers, Sequences, FiniteSets, SequencesExt

CONSTANTS
  Requests,      \* the uploads
  None,
  MaxUpload,     \* SPEECH_MAX_UPLOAD_BYTES
  MaxBytes,      \* bytes of the uploads that are read or wait: 2 * MaxUpload in the code
  MaxAdmitted    \* uploads admitted at a time, the active one included: 3 in the code

ASSUME SpeechServiceAssumption ==
  /\ IsFiniteSet(Requests) /\ None \notin Requests
  /\ MaxUpload \in Nat \ {0} /\ MaxBytes \in Nat /\ MaxAdmitted \in Nat \ {0}

Sizes    == 1..MaxUpload
Handlers == {"none", "arriving", "reading", "waiting", "ended"}
Answers  == {"text", "error"}

VARIABLES
  handler,       \* how far the route's handler is with a request
  answer,        \* what it answered
  size,          \* bytes of the recording, of a request that is not ended
  dropped,       \* of these, those whose connection is gone
  aborted,       \* and those whose signal has told the handler
  reservations,  \* bytes set aside for the uploads being read
  reservedBytes,
  queue,         \* recordings that wait for the transcriber
  queuedBytes,
  active,        \* the request being transcribed
  controller,    \* activeController is aborted
  closed         \* close() was called

service == <<handler, answer, size, dropped, aborted, reservations, reservedBytes, queue,
             queuedBytes, active, controller, closed>>

ServiceTypeOK ==
  /\ handler \in [Requests -> Handlers]
  /\ answer \in [Requests -> Answers \cup {None}]
  /\ size \in [Requests -> Sizes \cup {None}]
  /\ dropped \subseteq Requests /\ aborted \subseteq dropped
  /\ DOMAIN reservations \subseteq Requests /\ Range(reservations) \subseteq Sizes
  /\ reservedBytes \in 0..MaxBytes /\ queuedBytes \in 0..MaxBytes
  /\ queue \in Seq(Requests) /\ IsInjective(queue)
  /\ active \in Requests \cup {None}
  /\ controller \in BOOLEAN
  /\ closed \in BOOLEAN

ServiceInit ==
  /\ handler = [r \in Requests |-> "none"] /\ answer = [r \in Requests |-> None]
  /\ size = [r \in Requests |-> None]
  /\ dropped = {} /\ aborted = {}
  /\ reservations = [r \in {} |-> None] /\ reservedBytes = 0
  /\ queue = <<>> /\ queuedBytes = 0
  /\ active = None /\ controller = FALSE /\ closed = FALSE

-----------------------------------------------------------------------------
(* The steps the operations share.                                         *)

\* The handlers of the given requests answer, and the requests are over.
Answered(requests, with) ==
  /\ handler' = [r \in Requests |-> IF r \in requests THEN "ended" ELSE handler[r]]
  /\ answer' = [r \in Requests |-> IF r \in requests THEN with ELSE answer[r]]
  /\ size' = [r \in Requests |-> IF r \in requests THEN None ELSE size[r]]
  /\ dropped' = dropped \ requests
  /\ aborted' = aborted \ requests

\* releaseReservation, and the first lines of enqueueReserved
Release(r) ==
  /\ reservations' = Restrict(reservations, DOMAIN reservations \ {r})
  /\ reservedBytes' = IF r \in DOMAIN reservations THEN reservedBytes - reservations[r]
                                                   ELSE reservedBytes

\* pump, with the given request active, queue and bytes, and the start of run.
\* Mutant: a finished recording does not call for the next.
PumpOnce(running, waiting, bytes) ==
  IF running = None /\ ~closed /\ waiting # <<>> /\ active = None
  THEN /\ active' = Head(waiting) /\ queue' = Tail(waiting)
       /\ queuedBytes' = bytes - size[Head(waiting)]
       /\ controller' = (Head(waiting) \in aborted)
  ELSE /\ active' = running /\ queue' = waiting /\ queuedBytes' = bytes
       /\ controller' = (running # None /\ controller)
Pump(running, waiting, bytes) ==
  IF running = None /\ ~closed /\ waiting # <<>>
  THEN /\ active' = Head(waiting) /\ queue' = Tail(waiting)
       /\ queuedBytes' = bytes - size[Head(waiting)]
       /\ controller' = (Head(waiting) \in aborted)
  ELSE /\ active' = running /\ queue' = waiting /\ queuedBytes' = bytes
       /\ controller' = (running # None /\ controller)

\* admittedCount
Admitted == Len(queue) + Cardinality(DOMAIN reservations) + IF active = None THEN 0 ELSE 1

-----------------------------------------------------------------------------
(* A request.                                                              *)

\* admitUpload: the bytes are those of the Content-Length header, or as many as there may be.
Busy(bytes) == Admitted >= MaxAdmitted \/ queuedBytes + reservedBytes + bytes > MaxBytes

AdmitUpload(r) ==
  /\ handler[r] = "arriving"
  /\ \E bytes \in {size[r], MaxUpload} :
       \/ /\ closed \/ Busy(bytes)
          /\ Answered({r}, "error")
          /\ UNCHANGED <<reservations, reservedBytes>>
       \/ /\ ~closed /\ ~Busy(bytes)
          /\ handler' = [handler EXCEPT ![r] = "reading"]
          /\ reservations' = [x \in DOMAIN reservations \cup {r} |-> IF x = r THEN bytes ELSE reservations[x]]
          /\ reservedBytes' = reservedBytes + bytes
          /\ UNCHANGED <<answer, size, dropped, aborted>>
  /\ UNCHANGED <<queue, queuedBytes, active, controller, closed>>

\* The body breaks off, is too large or is no recording: the route gives the reservation back.
\* Mutant: it does not.
UploadFailsHolding(r) ==
  /\ handler[r] = "reading" /\ Answered({r}, "error")
  /\ UNCHANGED <<reservations, reservedBytes, queue, queuedBytes, active, controller, closed>>
UploadFails(r) ==
  /\ handler[r] = "reading" /\ Answered({r}, "error") /\ Release(r)
  /\ UNCHANGED <<queue, queuedBytes, active, controller, closed>>

\* enqueueReserved, once the body is read.  close() takes the reservation away.
Refuses(r) == \/ r \notin DOMAIN reservations
              \/ queuedBytes + size[r] > MaxBytes
              \/ r \in aborted

EnqueueReserved(r) ==
  /\ handler[r] = "reading"
  /\ Release(r)
  /\ \/ /\ Refuses(r) /\ Answered({r}, "error")
        /\ UNCHANGED <<queue, queuedBytes, active, controller>>
     \/ /\ ~Refuses(r)
        /\ handler' = [handler EXCEPT ![r] = "waiting"]
        /\ Pump(active, Append(queue, r), queuedBytes + size[r])
        /\ UNCHANGED <<answer, size, dropped, aborted>>
  /\ UNCHANGED closed

\* The signal of a request whose connection is gone: abortQueued, or relayAbort.
\* Mutant: the recording stays in the queue.
AbortLeavesQueue(r) ==
  /\ r \in dropped \ aborted
  /\ aborted' = aborted \cup {r}
  /\ controller' = (controller \/ r = active)
  /\ UNCHANGED <<handler, answer, size, dropped, queue, queuedBytes, reservations, reservedBytes,
                 active, closed>>
Abort(r) ==
  /\ r \in dropped \ aborted
  /\ \/ /\ \E i \in DOMAIN queue : queue[i] = r /\ queue' = RemoveAt(queue, i)
        /\ queuedBytes' = queuedBytes - size[r]
        /\ Answered({r}, "error") /\ UNCHANGED controller
     \/ /\ r \notin Range(queue) /\ aborted' = aborted \cup {r}
        /\ controller' = (controller \/ r = active)
        /\ UNCHANGED <<handler, answer, size, dropped, queue, queuedBytes>>
  /\ UNCHANGED <<reservations, reservedBytes, active, closed>>

-----------------------------------------------------------------------------
(* The transcriber.                                                        *)

\* The timer of run aborts the transcriber's request.
Timeout ==
  /\ active # None /\ ~controller /\ controller' = TRUE
  /\ UNCHANGED <<handler, answer, size, dropped, aborted, reservations, reservedBytes, queue,
                 queuedBytes, active, closed>>

\* The transcriber answers or fails, or rejects because it was aborted; the next recording
\* takes its place.
Settle ==
  /\ active # None
  /\ \E outcome \in IF controller THEN {"error"} ELSE Answers : Answered({active}, outcome)
  /\ Pump(None, queue, queuedBytes)
  /\ UNCHANGED <<reservations, reservedBytes, closed>>

GiveUp == controller /\ Settle

\* close
Close ==
  /\ ~closed /\ closed' = TRUE
  /\ controller' = (active # None)
  /\ Answered(Range(queue), "error")
  /\ queue' = <<>> /\ queuedBytes' = 0
  /\ reservations' = [r \in {} |-> None] /\ reservedBytes' = 0
  /\ UNCHANGED active

ServiceNext ==
  \/ \E r \in Requests : \/ AdmitUpload(r) \/ UploadFails(r) \/ EnqueueReserved(r) \/ Abort(r)
  \/ Timeout \/ Settle \/ Close

\* A handler runs on, a body arrives or its connection times out, and run's timer fires.
ServiceFairness ==
  /\ \A r \in Requests : WF_service(AdmitUpload(r)) /\ WF_service(UploadFails(r) \/ EnqueueReserved(r))
  /\ WF_service(Timeout) /\ WF_service(GiveUp)

-----------------------------------------------------------------------------
(* Properties.                                                             *)

\* Beside the types: in whatever order uploads are admitted, break off, are cancelled or fail, the counters are
\* the sums they stand for, and no more is admitted than the limits allow: a byte or a place
\* that is lost would shut dictation down until a restart (SpeechService.admitUpload).
CapacityKept ==
  /\ ServiceTypeOK
  /\ queuedBytes = SumFunction([i \in DOMAIN queue |-> size[queue[i]]])
  /\ reservedBytes = SumFunction(reservations)
  /\ queuedBytes + reservedBytes <= MaxBytes
  /\ Admitted <= MaxAdmitted
  /\ \A r \in Requests : r \in DOMAIN reservations => handler[r] = "reading"
  /\ Range(queue) \cup ({active} \ {None}) = {r \in Requests : handler[r] = "waiting"}

\* A recording whose request was cancelled while it waited is never given to the transcriber
\* (abortQueued).
CancelledNotTranscribed ==
  [][active' # active /\ active' # None => active' \notin aborted]_service

\* Every upload is answered, its request cancelled or not, whatever the transcriber does, also
\* when the service closes meanwhile (pump, run, close).
UploadsAnswered == \A r \in Requests : handler[r] = "arriving" ~> handler[r] = "ended"
=============================================================================
