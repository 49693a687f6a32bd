-------------------------------- MODULE Frames --------------------------------
(***************************************************************************)
(* Bytes on a connection that carries control frames too: the numbered     *)
(* pieces of a stream are messages of one kind among others, and whoever   *)
(* reads the connection takes them out again.                              *)
(***************************************************************************)
EXTENDS Naturals, Sequences

Say(k)       == [kind |-> k, n |-> 0]
Pieces(k, s) == [i \in DOMAIN s |-> [kind |-> k, n |-> s[i]]]

\* The numbers of the messages of kind k, in their order.
Carried(k, s) ==
  LET upTo[i \in 0..Len(s)] == IF i = 0 THEN <<>>
                               ELSE IF s[i].kind = k THEN Append(upTo[i - 1], s[i].n)
                               ELSE upTo[i - 1]
  IN upTo[Len(s)]
=============================================================================
