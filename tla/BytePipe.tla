------------------------------- MODULE BytePipe -------------------------------
(***************************************************************************)
(* What a connection that may change its transport does with the bytes of  *)
(* one direction: they arrive in the order they were written, each piece   *)
(* once, and none is left out but the pieces written while the buffer of   *)
(* a hand-over is full, whichever transport carries them.  A connection    *)
(* that is cut takes no more.                                              *)
(***************************************************************************)
EXTENDS Naturals, Sequences

VARIABLES written,  \* pieces the writer wrote
          queue,    \* pieces on their way, oldest first
          shown,    \* pieces that arrived
          open,     \* the connection holds
          full      \* a hand-over is under way and its buffer is full; set by the environment

vars == <<written, queue, shown, open>>

Init == written = 0 /\ queue = <<>> /\ shown = <<>> /\ open = TRUE

Write == /\ written' = written + 1
         /\ \/ open /\ queue' = Append(queue, written')
            \/ (open => full) /\ UNCHANGED queue
         /\ UNCHANGED <<shown, open>>

Show == /\ queue # <<>>
        /\ shown' = Append(shown, Head(queue))
        /\ queue' = Tail(queue)
        /\ UNCHANGED <<written, open>>

\* The connection ends, possibly on a piece it cannot carry; a tail of the queue is lost.
Cut == /\ open' = FALSE
       /\ written' \in {written, written + 1}
       /\ \E kept \in 0..Len(queue) : queue' = SubSeq(queue, 1, kept)
       /\ UNCHANGED shown

Next == Write \/ Show \/ Cut
Spec == Init /\ [][Next]_vars /\ WF_vars(open /\ Show)

\* What arrived was written, in this order, and no piece arrived twice: a consequence, for the
\* connections that implement this pipe.
ShownInOrder == /\ \A i \in DOMAIN shown : shown[i] \in 1..written
                /\ \A i, j \in DOMAIN shown : i < j => shown[i] < shown[j]
=============================================================================
