-------------------------- MODULE DictationProofs --------------------------
(***************************************************************************)
(* Theorems about Dictation and the SpeechService it extends, for any      *)
(* number of clients, dictations and limits: the accounts of the server's  *)
(* queue, cancelled recordings, the moves of a dictation and the           *)
(* microphone.                                                             *)
(***************************************************************************)
EXTENDS Dictation, ProofLemmas, SequenceTheorems

USE SpeechServiceAssumption

-----------------------------------------------------------------------------
(* The inductive invariant of the service.                                 *)

\* Where a request is: it has a size while its handler is at work, and its bytes are reserved,
\* no less than it has, only while its body is read.
Held(r) ==
  /\ handler[r] \in {"arriving", "reading", "waiting"} => size[r] \in Sizes
  /\ r \in DOMAIN reservations => handler[r] = "reading" /\ size[r] <= reservations[r]

\* What waits is in the queue or being transcribed, not both, and was not cancelled.
Places ==
  /\ \A r \in Requests : Held(r)
  /\ Range(queue) \cup ({active} \ {None}) = {r \in Requests : handler[r] = "waiting"}
  /\ active \notin Range(queue)
  /\ Range(queue) \cap aborted = {}

\* The counters, as sums over the requests, and the limits.
Accounts ==
  /\ queuedBytes = SumFunctionOnSet(size, Range(queue))
  /\ reservedBytes = SumFunctionOnSet(reservations, DOMAIN reservations)
  /\ queuedBytes + reservedBytes <= MaxBytes
  /\ Admitted <= MaxAdmitted

ServiceOK == ServiceTypeOK /\ Places /\ Accounts

-----------------------------------------------------------------------------
(* Sums and queues.                                                        *)

\* A sum depends on the values it adds up.
LEMMA SumSame ==
  ASSUME NEW f, NEW g, NEW S, IsFiniteSet(S), \A x \in S : f[x] \in Int /\ g[x] = f[x]
  PROVE  SumFunctionOnSet(f, S) = SumFunctionOnSet(g, S)
<1> DEFINE h == [x \in S |-> x]
<1>1. (\A x \in S : f[x] \in Int /\ g[h[x]] = f[x]) /\ (\A x, y \in S : h[x] = h[y] => x = y)
  OBVIOUS
<1>2. {h[x] : x \in S} = S
  OBVIOUS
<1> HIDE DEF h
<1>3. SumFunctionOnSet(f, S) = SumFunctionOnSet(g, {h[x] : x \in S})
  BY <1>1, SumRenamed
<1>4. QED BY <1>2, <1>3

\* A value that is added.
LEMMA SumWith ==
  ASSUME NEW f, NEW S, NEW x, IsFiniteSet(S), x \notin S, f[x] \in Nat, \A y \in S : f[y] \in Nat
  PROVE  SumFunctionOnSet(f, S \cup {x}) = f[x] + SumFunctionOnSet(f, S)
<1>1. IsFiniteSet(S \cup {x}) /\ \A y \in S \cup {x} : f[y] \in Int
  BY FS_AddElement
<1>2. SumFunctionOnSet(f, S \cup {x}) = f[x] + SumFunctionOnSet(f, (S \cup {x}) \ {x})
  BY <1>1, SumRemove
<1>3. (S \cup {x}) \ {x} = S
  OBVIOUS
<1>4. QED BY <1>2, <1>3

\* A value that is taken away.
LEMMA SumWithout ==
  ASSUME NEW f, NEW S, NEW x \in S, IsFiniteSet(S), \A y \in S : f[y] \in Nat
  PROVE  /\ SumFunctionOnSet(f, S \ {x}) = SumFunctionOnSet(f, S) - f[x]
         /\ SumFunctionOnSet(f, S \ {x}) \in Nat /\ SumFunctionOnSet(f, S) \in Nat
<1>1. SumFunctionOnSet(f, S) = f[x] + SumFunctionOnSet(f, S \ {x})
  BY SumRemove
<1>2. SumFunctionOnSet(f, S) \in Nat
  BY SumNat
<1>3. IsFiniteSet(S \ {x}) /\ \A y \in S \ {x} : f[y] \in Nat
  BY FS_Subset
<1>4. SumFunctionOnSet(f, S \ {x}) \in Nat
  BY <1>3, SumNat
<1>5. f[x] \in Nat
  OBVIOUS
<1>6. QED BY <1>1, <1>2, <1>4, <1>5

\* A request joins the end of the queue.
LEMMA QueueAppend ==
  ASSUME NEW q \in Seq(Requests), IsInjective(q), NEW r \in Requests, r \notin Range(q)
  PROVE  /\ Append(q, r) \in Seq(Requests) /\ IsInjective(Append(q, r))
         /\ Range(Append(q, r)) = Range(q) \cup {r}
         /\ Len(Append(q, r)) = Len(q) + 1
<1> DEFINE long == Append(q, r)
           n    == Len(q)
<1>1. /\ long \in Seq(Requests) /\ n \in Nat /\ Len(long) = n + 1 /\ long[n + 1] = r
      /\ \A i \in 1..n : long[i] = q[i]
  OBVIOUS
<1>2. DOMAIN long = 1..(n + 1) /\ DOMAIN q = 1..n
  BY <1>1
<1> HIDE DEF long, n
<1>3. \A i \in 1..(n + 1) : i \in 1..n \/ i = n + 1
  BY <1>1
<1>4. \A i \in 1..n : i \in 1..(n + 1)
  BY <1>1
<1>5. n + 1 \in 1..(n + 1)
  BY <1>1
<1>6. Range(long) = Range(q) \cup {r}
  BY <1>1, <1>2, <1>3, <1>4, <1>5 DEF Range
<1>7. IsInjective(long)
  <2>1. \A i \in 1..n : long[i] # r
    BY <1>1, <1>2 DEF Range
  <2>2. QED BY <1>1, <1>2, <1>3, <2>1 DEF IsInjective
<1>8. QED BY <1>1, <1>6, <1>7 DEF long, n

\* The request at position i leaves the queue.
LEMMA QueueRemove ==
  ASSUME NEW q \in Seq(Requests), IsInjective(q), NEW i \in DOMAIN q
  PROVE  /\ RemoveAt(q, i) \in Seq(Requests) /\ IsInjective(RemoveAt(q, i))
         /\ Range(RemoveAt(q, i)) = Range(q) \ {q[i]}
         /\ Len(RemoveAt(q, i)) = Len(q) - 1
<1> DEFINE n    == Len(q)
           rest == RemoveAt(q, i)
           old(k) == IF k < i THEN k ELSE k + 1
<1>1. n \in Nat /\ DOMAIN q = 1..n /\ i \in 1..n /\ \A k \in 1..n : q[k] \in Requests
  OBVIOUS
<1>2. /\ rest \in Seq(Requests) /\ Len(rest) = n - 1
      /\ \A k \in 1..(n - 1) : rest[k] = q[old(k)]
  <2> DEFINE left  == SubSeq(q, 1, i - 1)
             right == SubSeq(q, i + 1, n)
  <2>1. /\ left \in Seq(Requests) /\ Len(left) = i - 1
        /\ \A k \in 1..(i - 1) : left[k] = q[k]
    <3>1. 1 \in Int /\ i - 1 \in Int /\ (\A k \in 1..(i - 1) : q[k] \in Requests)
          /\ i - 1 - 1 + 1 = i - 1 /\ (1 <= i - 1 \/ i - 1 = 0)
      BY <1>1
    <3> HIDE DEF n
    <3>2. /\ left \in Seq(Requests) /\ Len(left) = IF 1 <= i - 1 THEN i - 1 - 1 + 1 ELSE 0
          /\ \A k \in 1..(i - 1 - 1 + 1) : left[k] = q[1 + k - 1]
      BY <3>1, SubSeqProperties
    <3> HIDE DEF left
    <3>3. \A k \in 1..(i - 1) : 1 + k - 1 = k
      BY <3>1
    <3>4. QED BY <3>1, <3>2, <3>3
  <2>2. /\ right \in Seq(Requests) /\ Len(right) = n - i
        /\ \A k \in 1..(n - i) : right[k] = q[i + k]
    <3>1. n \in Int /\ i + 1 \in Int /\ (\A k \in (i + 1)..n : q[k] \in Requests)
          /\ n - (i + 1) + 1 = n - i /\ (i + 1 <= n \/ n - i = 0)
      BY <1>1
    <3> HIDE DEF n
    <3>2. /\ right \in Seq(Requests) /\ Len(right) = IF i + 1 <= n THEN n - (i + 1) + 1 ELSE 0
          /\ \A k \in 1..(n - (i + 1) + 1) : right[k] = q[i + 1 + k - 1]
      BY <3>1, SubSeqProperties
    <3> HIDE DEF right
    <3>3. \A k \in 1..(n - i) : i + 1 + k - 1 = i + k
      BY <1>1, <3>1
    <3>4. QED BY <3>1, <3>2, <3>3
  <2>3. rest = left \o right
    BY DEF RemoveAt
  <2> HIDE DEF left, right, rest, n
  <2>4. /\ rest \in Seq(Requests) /\ Len(rest) = n - 1
        /\ \A k \in 1..(n - 1) : rest[k] = IF k <= i - 1 THEN left[k] ELSE right[k - (i - 1)]
    <3>1. /\ rest \in Seq(Requests) /\ Len(rest) = Len(left) + Len(right)
          /\ \A k \in 1..(Len(left) + Len(right)) :
                rest[k] = IF k <= Len(left) THEN left[k] ELSE right[k - Len(left)]
      BY <2>1, <2>2, <2>3, ConcatProperties
    <3>2. Len(left) + Len(right) = n - 1
      BY <1>1, <2>1, <2>2
    <3>3. QED BY <2>1, <3>1, <3>2
  <2>5. ASSUME NEW k \in 1..(n - 1)
        PROVE  rest[k] = q[old(k)]
    <3>1. CASE k < i
      <4>1. k <= i - 1 /\ k \in 1..(i - 1)
        BY <1>1, <3>1
      <4>2. QED BY <2>1, <2>4, <3>1, <4>1
    <3>2. CASE ~ k < i
      <4>1. k - (i - 1) \in 1..(n - i) /\ i + (k - (i - 1)) = k + 1 /\ k > i - 1 /\ k <= i - 1 + (n - i)
        BY <1>1, <3>2
      <4>2. rest[k] = right[k - (i - 1)]
        BY <1>1, <2>4, <4>1
      <4>3. QED BY <2>2, <3>2, <4>1, <4>2
    <3>3. QED BY <3>1, <3>2
  <2>6. QED BY <2>4, <2>5
<1>3. DOMAIN rest = 1..(n - 1)
  BY <1>1, <1>2
<1>4. /\ \A k \in 1..(n - 1) : old(k) \in 1..n /\ old(k) # i
      /\ \A k, l \in 1..(n - 1) : old(k) = old(l) => k = l
      /\ \A k \in 1..n : k # i => \E l \in 1..(n - 1) : old(l) = k
  <2>1. \A k \in 1..(n - 1) : old(k) \in 1..n /\ old(k) # i
    BY <1>1
  <2>2. \A k, l \in 1..(n - 1) : old(k) = old(l) => k = l
    BY <1>1
  <2>3. ASSUME NEW k \in 1..n, k # i
        PROVE  \E l \in 1..(n - 1) : old(l) = k
    <3>1. CASE k < i
      <4>1. k \in 1..(n - 1) /\ old(k) = k
        BY <1>1, <3>1
      <4>2. QED BY <4>1
    <3>2. CASE k > i
      <4>1. k - 1 \in 1..(n - 1) /\ old(k - 1) = k
        BY <1>1, <3>2
      <4>2. QED BY <4>1
    <3>3. QED BY <1>1, <2>3, <3>1, <3>2
  <2>4. QED BY <2>1, <2>2, <2>3
<1> HIDE DEF n, rest, old
<1>5. IsInjective(rest)
  BY <1>1, <1>2, <1>3, <1>4 DEF IsInjective
<1>6. Range(rest) = Range(q) \ {q[i]}
  <2>1. \A k \in 1..(n - 1) : rest[k] \in Range(q) \ {q[i]}
    BY <1>1, <1>2, <1>4 DEF Range, IsInjective
  <2>2. \A k \in 1..n : k # i => q[k] \in Range(rest)
    <3>1. SUFFICES ASSUME NEW k \in 1..n, k # i
                   PROVE  q[k] \in Range(rest)
      OBVIOUS
    <3>2. PICK l \in 1..(n - 1) : old(l) = k
      BY <1>4, <3>1
    <3>3. rest[l] = q[k]
      BY <1>2, <3>2
    <3>4. QED BY <1>3, <3>3 DEF Range
  <2>3. QED BY <1>1, <1>3, <2>1, <2>2 DEF Range
<1>7. QED BY <1>2, <1>5, <1>6 DEF n, rest

\* The first request leaves the queue.
LEMMA QueueTail ==
  ASSUME NEW q \in Seq(Requests), IsInjective(q), q # <<>>
  PROVE  /\ Tail(q) \in Seq(Requests) /\ IsInjective(Tail(q))
         /\ Head(q) \in Range(q) /\ Head(q) \in Requests
         /\ Range(Tail(q)) = Range(q) \ {Head(q)}
         /\ Len(Tail(q)) = Len(q) - 1
<1> DEFINE n == Len(q)
           t == Tail(q)
<1>1. /\ n \in Nat \ {0} /\ DOMAIN q = 1..n /\ t \in Seq(Requests) /\ Len(t) = n - 1
      /\ Head(q) = q[1] /\ q[1] \in Requests /\ \A k \in 1..(n - 1) : t[k] = q[k + 1]
  OBVIOUS
<1>2. DOMAIN t = 1..(n - 1)
  BY <1>1
<1>3. /\ 1 \in 1..n /\ \A k \in 1..(n - 1) : k + 1 \in 1..n /\ k + 1 # 1
      /\ \A k \in 1..n : k # 1 => k - 1 \in 1..(n - 1) /\ (k - 1) + 1 = k
      /\ \A k, l \in 1..(n - 1) : k + 1 = l + 1 => k = l
  BY <1>1
<1> HIDE DEF n, t
<1>4. IsInjective(t)
  <2>1. SUFFICES ASSUME NEW k \in 1..(n - 1), NEW l \in 1..(n - 1), t[k] = t[l]
                 PROVE  k = l
    BY <1>2 DEF IsInjective
  <2>2. k + 1 \in 1..n /\ l + 1 \in 1..n /\ q[k + 1] = q[l + 1]
    BY <1>1, <1>3, <2>1
  <2>3. k + 1 = l + 1
    BY <1>1, <2>2 DEF IsInjective
  <2>4. QED BY <1>3, <2>3
<1>5. Head(q) \in Range(q)
  BY <1>1, <1>3 DEF Range
<1>6. Range(t) = Range(q) \ {q[1]}
  <2>1. \A k \in 1..(n - 1) : t[k] \in Range(q) \ {q[1]}
    BY <1>1, <1>3 DEF Range, IsInjective
  <2>2. \A k \in 1..n : k # 1 => q[k] \in Range(t)
    <3>1. SUFFICES ASSUME NEW k \in 1..n, k # 1
                   PROVE  q[k] \in Range(t)
      OBVIOUS
    <3>2. t[k - 1] = q[k] /\ k - 1 \in DOMAIN t
      BY <1>1, <1>2, <1>3, <3>1
    <3>3. QED BY <3>2 DEF Range
  <2>3. QED BY <1>1, <1>2, <2>1, <2>2 DEF Range
<1>7. QED BY <1>1, <1>4, <1>5, <1>6 DEF n, t
-----------------------------------------------------------------------------
(* The steps the operations share.                                         *)

\* The bytes in the queue and the bytes reserved are finite sums of positive numbers.
LEMMA Finite ==
  ASSUME ServiceOK
  PROVE  /\ IsFiniteSet(Range(queue)) /\ Range(queue) \subseteq Requests
         /\ \A r \in Range(queue) : handler[r] = "waiting" /\ size[r] \in Sizes
         /\ IsFiniteSet(DOMAIN reservations)
         /\ \A r \in DOMAIN reservations : r \in Requests /\ reservations[r] \in Sizes
<1>1. Range(queue) \subseteq Requests
  BY DEF ServiceOK, ServiceTypeOK, Range
<1>2. IsFiniteSet(Range(queue)) /\ IsFiniteSet(DOMAIN reservations)
  BY <1>1, FS_Subset DEF ServiceOK, ServiceTypeOK
<1>3. \A r \in Range(queue) : handler[r] = "waiting"
  BY DEF ServiceOK, Places
<1>4. \A r \in Range(queue) : size[r] \in Sizes
  BY <1>1, <1>3 DEF ServiceOK, Places, Held
<1>5. \A r \in DOMAIN reservations : r \in Requests /\ reservations[r] \in Sizes
  BY DEF ServiceOK, ServiceTypeOK, Range
<1>6. QED BY <1>1, <1>2, <1>3, <1>4, <1>5

\* One place is taken by the request being transcribed.
Occupied(a) == IF a = None THEN 0 ELSE 1

\* What pump makes of a queue: the first request may move to the transcriber, nothing is lost,
\* and the counter stays the sum.
LEMMA PumpMoves ==
  ASSUME NEW running \in Requests \cup {None}, NEW waiting \in Seq(Requests), NEW bytes \in Nat,
         IsInjective(waiting), running \notin Range(waiting), controller \in BOOLEAN,
         bytes = SumFunctionOnSet(size, Range(waiting)), \A r \in Range(waiting) : size[r] \in Sizes,
         Pump(running, waiting, bytes)
  PROVE  /\ queue' \in Seq(Requests) /\ IsInjective(queue') /\ active' \in Requests \cup {None}
         /\ controller' \in BOOLEAN
         /\ Range(queue') \cup ({active'} \ {None}) = Range(waiting) \cup ({running} \ {None})
         /\ active' \notin Range(queue') /\ Range(queue') \subseteq Range(waiting)
         /\ active' = running \/ active' \in Range(waiting)
         /\ queuedBytes' = SumFunctionOnSet(size, Range(queue'))
         /\ queuedBytes' \in 0..bytes
         /\ Len(queue') + Occupied(active') = Len(waiting) + Occupied(running)
<1>0. Range(waiting) \subseteq Requests /\ None \notin Range(waiting)
  BY DEF Range
<1>1. CASE running = None /\ ~closed /\ waiting # <<>>
  <2> DEFINE first == Head(waiting)
  <2>1. /\ active' = first /\ queue' = Tail(waiting) /\ queuedBytes' = bytes - size[first]
        /\ controller' = (first \in aborted)
    BY <1>1 DEF Pump
  <2>2. /\ Tail(waiting) \in Seq(Requests) /\ IsInjective(Tail(waiting))
        /\ first \in Range(waiting) /\ first \in Requests
        /\ Range(Tail(waiting)) = Range(waiting) \ {first}
        /\ Len(Tail(waiting)) = Len(waiting) - 1
    BY <1>1, QueueTail
  <2> HIDE DEF first
  <2>3. first # None /\ first \notin Range(Tail(waiting)) /\ running = None
    BY <1>1, <2>2
  <2>4. IsFiniteSet(Range(waiting)) /\ \A r \in Range(waiting) : size[r] \in Nat
    BY <1>0, FS_Subset DEF Sizes
  <2>5. /\ SumFunctionOnSet(size, Range(waiting) \ {first}) = bytes - size[first]
        /\ SumFunctionOnSet(size, Range(waiting) \ {first}) \in Nat
    BY <2>2, <2>4, SumWithout
  <2>6. queuedBytes' = SumFunctionOnSet(size, Range(queue')) /\ queuedBytes' \in 0..bytes
    <3>1. size[first] \in Nat /\ bytes \in Nat /\ bytes - size[first] \in Nat
      BY <2>2, <2>4, <2>5
    <3>2. bytes - size[first] \in 0..bytes
      BY <3>1
    <3>3. QED BY <2>1, <2>2, <2>5, <3>2
  <2>7. Len(queue') + Occupied(active') = Len(waiting) + Occupied(running)
    BY <2>1, <2>2, <2>3 DEF Occupied
  <2>8. Range(queue') \cup ({active'} \ {None}) = Range(waiting) \cup ({running} \ {None})
    BY <2>1, <2>2, <2>3
  <2>9. QED BY <2>1, <2>2, <2>3, <2>6, <2>7, <2>8
<1>2. CASE ~(running = None /\ ~closed /\ waiting # <<>>)
  <2>1. /\ active' = running /\ queue' = waiting /\ queuedBytes' = bytes
        /\ controller' = (running # None /\ controller)
    BY <1>2 DEF Pump
  <2>2. QED BY <2>1
<1>3. QED BY <1>1, <1>2

\* Requests that are answered are over, the others as they were.
LEMMA AnsweredEnds ==
  ASSUME ServiceTypeOK, NEW S \in SUBSET Requests, NEW with \in Answers, Answered(S, with)
  PROVE  /\ handler' \in [Requests -> Handlers] /\ answer' \in [Requests -> Answers \cup {None}]
         /\ size' \in [Requests -> Sizes \cup {None}]
         /\ dropped' \subseteq Requests /\ aborted' \subseteq dropped'
         /\ aborted' = aborted \ S
         /\ \A r \in S : handler'[r] = "ended"
         /\ \A r \in Requests \ S : handler'[r] = handler[r] /\ size'[r] = size[r]
BY DEF ServiceTypeOK, Answered, Handlers

\* The bytes of a reservation are given back with it.
LEMMA ReleaseGives ==
  ASSUME ServiceOK, NEW r \in Requests, Release(r)
  PROVE  /\ DOMAIN reservations' = DOMAIN reservations \ {r}
         /\ \A x \in DOMAIN reservations' : reservations'[x] = reservations[x]
         /\ Range(reservations') \subseteq Sizes
         /\ reservedBytes' = SumFunctionOnSet(reservations', DOMAIN reservations')
         /\ reservedBytes' \in Nat
         /\ reservedBytes' = reservedBytes - IF r \in DOMAIN reservations THEN reservations[r] ELSE 0
         /\ Cardinality(DOMAIN reservations')
              = Cardinality(DOMAIN reservations) - IF r \in DOMAIN reservations THEN 1 ELSE 0
<1>0. /\ IsFiniteSet(DOMAIN reservations) /\ reservedBytes \in Nat
      /\ \A x \in DOMAIN reservations : x \in Requests /\ reservations[x] \in Sizes /\ reservations[x] \in Nat
      /\ reservedBytes = SumFunctionOnSet(reservations, DOMAIN reservations)
  BY Finite DEF ServiceOK, ServiceTypeOK, Accounts, Sizes
<1>1. /\ DOMAIN reservations' = DOMAIN reservations \ {r}
      /\ \A x \in DOMAIN reservations' : reservations'[x] = reservations[x]
  BY DEF Release, Restrict
<1>2. Range(reservations') \subseteq Sizes
  BY <1>0, <1>1 DEF Range
<1>3. IsFiniteSet(DOMAIN reservations')
      /\ \A x \in DOMAIN reservations' : reservations[x] \in Int /\ reservations'[x] = reservations[x]
  BY <1>0, <1>1, FS_Subset
<1>4. SumFunctionOnSet(reservations, DOMAIN reservations') = SumFunctionOnSet(reservations', DOMAIN reservations')
  BY <1>3, SumSame
<1>5. CASE r \in DOMAIN reservations
  <2>1. /\ SumFunctionOnSet(reservations, DOMAIN reservations \ {r}) = reservedBytes - reservations[r]
        /\ SumFunctionOnSet(reservations, DOMAIN reservations \ {r}) \in Nat
    BY <1>0, <1>5, SumWithout
  <2>2. Cardinality(DOMAIN reservations \ {r}) = Cardinality(DOMAIN reservations) - 1
    BY <1>0, <1>5, FS_RemoveElement
  <2>3. reservedBytes' = reservedBytes - reservations[r]
    BY <1>5 DEF Release
  <2>4. QED BY <1>1, <1>2, <1>4, <1>5, <2>1, <2>2, <2>3
<1>6. CASE r \notin DOMAIN reservations
  <2>1. DOMAIN reservations \ {r} = DOMAIN reservations /\ reservedBytes' = reservedBytes
    BY <1>6 DEF Release
  <2>2. Cardinality(DOMAIN reservations) \in Nat
    BY <1>0, FS_CardinalityType
  <2>3. QED BY <1>0, <1>1, <1>2, <1>4, <1>6, <2>1, <2>2
<1>7. QED BY <1>5, <1>6
-----------------------------------------------------------------------------
(* Every step of the service keeps its invariant.                          *)

\* The places taken are numbers.
LEMMA Counted ==
  ASSUME ServiceOK
  PROVE  /\ Len(queue) \in Nat /\ Cardinality(DOMAIN reservations) \in Nat
         /\ Occupied(active) \in Nat
         /\ queuedBytes \in Nat /\ reservedBytes \in Nat
         /\ Admitted = Len(queue) + Cardinality(DOMAIN reservations) + Occupied(active)
<1>1. Len(queue) \in Nat /\ queuedBytes \in Nat /\ reservedBytes \in Nat
  BY DEF ServiceOK, ServiceTypeOK
<1>2. Cardinality(DOMAIN reservations) \in Nat
  BY Finite, FS_CardinalityType
<1>3. QED BY <1>1, <1>2 DEF Occupied, Admitted

\* Requests that neither wait in the queue nor hold a reservation may be answered.
LEMMA AnsweredKeeps ==
  ASSUME ServiceOK, NEW S \in SUBSET Requests, NEW with \in Answers, Answered(S, with),
         UNCHANGED <<reservations, reservedBytes, queue, queuedBytes, active, closed>>,
         controller' \in BOOLEAN,
         S \cap DOMAIN reservations = {}, S \cap (Range(queue) \cup {active}) = {}
  PROVE  ServiceOK'
<1>1. /\ handler' \in [Requests -> Handlers] /\ answer' \in [Requests -> Answers \cup {None}]
      /\ size' \in [Requests -> Sizes \cup {None}]
      /\ dropped' \subseteq Requests /\ aborted' \subseteq dropped' /\ aborted' = aborted \ S
      /\ \A r \in S : handler'[r] = "ended"
      /\ \A r \in Requests \ S : handler'[r] = handler[r] /\ size'[r] = size[r]
  BY AnsweredEnds DEF ServiceOK
<1>2. ServiceTypeOK'
  BY <1>1 DEF ServiceOK, ServiceTypeOK
<1>3. Places'
  <2>1. ASSUME NEW r \in Requests
        PROVE  Held(r)'
    <3>1. CASE r \in S
      BY <1>1, <3>1 DEF Held
    <3>2. CASE r \notin S
      <4>1. Held(r)
        BY DEF ServiceOK, Places
      <4>2. QED BY <1>1, <3>2, <4>1 DEF Held
    <3>3. QED BY <3>1, <3>2
  <2>2. \A r \in Requests : handler'[r] = "waiting" <=> handler[r] = "waiting"
    <3>1. \A r \in S : handler[r] # "waiting"
      BY DEF ServiceOK, Places
    <3>2. QED BY <1>1, <3>1
  <2>3. QED BY <1>1, <2>1, <2>2 DEF ServiceOK, Places
<1>4. Accounts'
  <2>1. SumFunctionOnSet(size, Range(queue)) = SumFunctionOnSet(size', Range(queue))
    <3>1. \A r \in Range(queue) : size[r] \in Int /\ size'[r] = size[r]
      BY <1>1, Finite DEF Sizes
    <3>2. QED BY <3>1, Finite, SumSame
  <2>2. QED BY <2>1 DEF ServiceOK, Accounts, Admitted
<1>5. QED BY <1>2, <1>3, <1>4 DEF ServiceOK

\* An upload is admitted or refused.
LEMMA AdmitUploadKeeps ==
  ASSUME ServiceOK, NEW r \in Requests, AdmitUpload(r)
  PROVE  ServiceOK'
<1>0. handler[r] = "arriving" /\ size[r] \in Sizes /\ r \notin DOMAIN reservations
      /\ r \notin Range(queue) /\ r # active
  <2>1. handler[r] = "arriving" /\ Held(r)
    BY DEF AdmitUpload, ServiceOK, Places
  <2>2. QED BY <2>1 DEF ServiceOK, Places, Held
<1>1. CASE Answered({r}, "error") /\ UNCHANGED <<reservations, reservedBytes>>
  <2>1. /\ UNCHANGED <<reservations, reservedBytes, queue, queuedBytes, active, closed, controller>>
        /\ controller' \in BOOLEAN
    BY <1>1 DEF AdmitUpload, ServiceOK, ServiceTypeOK
  <2>2. {r} \cap DOMAIN reservations = {} /\ {r} \cap (Range(queue) \cup {active}) = {}
    BY <1>0
  <2>3. "error" \in Answers /\ {r} \in SUBSET Requests
    BY DEF Answers
  <2>4. QED BY <1>1, <2>1, <2>2, <2>3, AnsweredKeeps
<1>2. ASSUME NEW bytes \in {size[r], MaxUpload},
             /\ ~closed /\ ~Busy(bytes)
             /\ handler' = [handler EXCEPT ![r] = "reading"]
             /\ reservations' = [x \in DOMAIN reservations \cup {r} |-> IF x = r THEN bytes ELSE reservations[x]]
             /\ reservedBytes' = reservedBytes + bytes
             /\ UNCHANGED <<answer, size, dropped, aborted>>
      PROVE  ServiceOK'
  <2>0. /\ UNCHANGED <<answer, size, dropped, aborted, queue, queuedBytes, active, controller, closed>>
        /\ handler' = [handler EXCEPT ![r] = "reading"] /\ handler \in [Requests -> Handlers]
    BY <1>2 DEF AdmitUpload, ServiceOK, ServiceTypeOK
  <2>1. bytes \in Sizes /\ bytes \in Nat /\ size[r] <= bytes
    BY <1>0, <1>2 DEF Sizes
  <2>2. /\ DOMAIN reservations' = DOMAIN reservations \cup {r}
        /\ reservations'[r] = bytes
        /\ \A x \in DOMAIN reservations : reservations'[x] = reservations[x]
    BY <1>0, <1>2
  <2>3. /\ IsFiniteSet(DOMAIN reservations')
        /\ Cardinality(DOMAIN reservations') = Cardinality(DOMAIN reservations) + 1
    BY <1>0, <2>2, Finite, FS_AddElement
  <2>4. reservedBytes' = SumFunctionOnSet(reservations', DOMAIN reservations')
    <3>1. \A x \in DOMAIN reservations : reservations[x] \in Int /\ reservations'[x] = reservations[x]
                                         /\ reservations'[x] \in Nat
      BY <2>2, Finite DEF Sizes
    <3>2. SumFunctionOnSet(reservations, DOMAIN reservations)
            = SumFunctionOnSet(reservations', DOMAIN reservations)
      BY <3>1, Finite, SumSame
    <3>3. SumFunctionOnSet(reservations', DOMAIN reservations \cup {r})
            = reservations'[r] + SumFunctionOnSet(reservations', DOMAIN reservations)
      BY <1>0, <2>1, <2>2, <3>1, Finite, SumWith
    <3>4. reservedBytes = SumFunctionOnSet(reservations, DOMAIN reservations)
          /\ reservedBytes \in Nat
      BY DEF ServiceOK, ServiceTypeOK, Accounts
    <3>5. reservedBytes' = bytes + reservedBytes
      BY <1>2, <2>1, <3>4
    <3>6. QED BY <2>2, <3>2, <3>3, <3>4, <3>5
  <2>5. queuedBytes + reservedBytes' <= MaxBytes /\ reservedBytes' \in 0..MaxBytes
    <3>1. queuedBytes + reservedBytes + bytes <= MaxBytes
      BY <1>2, <2>1, Counted DEF Busy
    <3>2. QED BY <1>2, <2>1, <3>1, Counted
  <2>6. Admitted' <= MaxAdmitted
    <3>1. Admitted < MaxAdmitted
      BY <1>2, Counted DEF Busy
    <3>2. Admitted' = Len(queue) + Cardinality(DOMAIN reservations') + Occupied(active)
      BY <2>0 DEF Admitted, Occupied
    <3>3. QED BY <2>3, <3>1, <3>2, Counted
  <2>7. ServiceTypeOK'
    <3>1. Range(reservations') \subseteq Sizes /\ DOMAIN reservations' \subseteq Requests
      BY <2>1, <2>2, Finite DEF Range
    <3>2. handler' \in [Requests -> Handlers]
      BY <2>0 DEF Handlers
    <3>3. QED BY <2>0, <2>5, <3>1, <3>2 DEF ServiceOK, ServiceTypeOK
  <2>8. Places'
    <3>1. ASSUME NEW x \in Requests
          PROVE  Held(x)'
      <4>1. Held(x)
        BY DEF ServiceOK, Places
      <4>2. CASE x = r
        BY <1>0, <2>0, <2>1, <2>2, <4>2 DEF Held
      <4>3. CASE x # r
        BY <2>0, <2>2, <4>1, <4>3 DEF Held
      <4>4. QED BY <4>2, <4>3
    <3>2. \A x \in Requests : handler'[x] = "waiting" <=> handler[x] = "waiting"
      BY <1>0, <2>0
    <3>3. QED BY <2>0, <3>1, <3>2 DEF ServiceOK, Places
  <2>9. QED BY <2>0, <2>4, <2>5, <2>6, <2>7, <2>8 DEF ServiceOK, Accounts
<1>3. QED BY <1>1, <1>2 DEF AdmitUpload
\* A request that is answered gives its reservation up, whether its upload failed or was refused.
LEMMA ReleasedKeeps ==
  ASSUME ServiceOK, NEW r \in Requests, handler[r] = "reading", Release(r), Answered({r}, "error"),
         UNCHANGED <<queue, queuedBytes, active, controller, closed>>
  PROVE  ServiceOK'
<1>0. r \notin Range(queue) /\ r # active
  BY DEF ServiceOK, Places
<1>1. /\ handler' \in [Requests -> Handlers] /\ answer' \in [Requests -> Answers \cup {None}]
      /\ size' \in [Requests -> Sizes \cup {None}]
      /\ dropped' \subseteq Requests /\ aborted' \subseteq dropped' /\ aborted' = aborted \ {r}
      /\ handler'[r] = "ended"
      /\ \A x \in Requests \ {r} : handler'[x] = handler[x] /\ size'[x] = size[x]
  <2>1. "error" \in Answers /\ {r} \in SUBSET Requests /\ r \in {r}
    BY DEF Answers
  <2>2. QED BY <2>1, AnsweredEnds DEF ServiceOK
<1>2. /\ DOMAIN reservations' = DOMAIN reservations \ {r}
      /\ \A x \in DOMAIN reservations' : reservations'[x] = reservations[x]
      /\ Range(reservations') \subseteq Sizes
      /\ reservedBytes' = SumFunctionOnSet(reservations', DOMAIN reservations')
      /\ reservedBytes' \in Nat
      /\ reservedBytes' = reservedBytes - IF r \in DOMAIN reservations THEN reservations[r] ELSE 0
      /\ Cardinality(DOMAIN reservations')
           = Cardinality(DOMAIN reservations) - IF r \in DOMAIN reservations THEN 1 ELSE 0
  BY ReleaseGives
<1>3. queuedBytes + reservedBytes' <= MaxBytes /\ reservedBytes' \in 0..MaxBytes
  <2>1. reservedBytes' <= reservedBytes
    BY <1>2, Counted, Finite DEF Sizes
  <2>2. QED BY <1>2, <2>1, Counted DEF ServiceOK, Accounts
<1>4. ServiceTypeOK'
  BY <1>1, <1>2, <1>3 DEF ServiceOK, ServiceTypeOK
<1>5. Places'
  <2>1. ASSUME NEW x \in Requests
        PROVE  Held(x)'
    <3>1. Held(x)
      BY DEF ServiceOK, Places
    <3>2. CASE x = r
      BY <1>1, <1>2, <3>2 DEF Held
    <3>3. CASE x # r
      BY <1>1, <1>2, <3>1, <3>3 DEF Held
    <3>4. QED BY <3>2, <3>3
  <2>2. \A x \in Requests : handler'[x] = "waiting" <=> handler[x] = "waiting"
    BY <1>1
  <2>3. QED BY <1>1, <2>1, <2>2 DEF ServiceOK, Places
<1>6. queuedBytes' = SumFunctionOnSet(size', Range(queue'))
  <2>1. \A x \in Range(queue) : size[x] \in Int /\ size'[x] = size[x]
    BY <1>0, <1>1, Finite DEF Sizes
  <2>2. SumFunctionOnSet(size, Range(queue)) = SumFunctionOnSet(size', Range(queue))
    BY <2>1, Finite, SumSame
  <2>3. QED BY <2>2 DEF ServiceOK, Accounts
<1>7. Admitted' <= MaxAdmitted
  <2>1. Admitted' = Len(queue) + Cardinality(DOMAIN reservations') + Occupied(active)
    BY DEF Admitted, Occupied
  <2>2. Cardinality(DOMAIN reservations') <= Cardinality(DOMAIN reservations)
        /\ Cardinality(DOMAIN reservations') \in Int
    BY <1>2, Counted
  <2>3. QED BY <2>1, <2>2, Counted DEF ServiceOK, Accounts
<1>8. QED BY <1>2, <1>3, <1>4, <1>5, <1>6, <1>7 DEF ServiceOK, Accounts

\* A body that fails gives its reservation back.
LEMMA UploadFailsKeeps ==
  ASSUME ServiceOK, NEW r \in Requests, UploadFails(r)
  PROVE  ServiceOK'
BY ReleasedKeeps DEF UploadFails

\* What pump is given when a request joins the queue.
LEMMA JoinedQueue ==
  ASSUME ServiceOK, NEW r \in Requests, handler[r] = "reading", size[r] \in Sizes
  PROVE  /\ Append(queue, r) \in Seq(Requests) /\ IsInjective(Append(queue, r))
         /\ Range(Append(queue, r)) = Range(queue) \cup {r}
         /\ Len(Append(queue, r)) = Len(queue) + 1
         /\ active \notin Range(Append(queue, r))
         /\ queuedBytes + size[r] \in Nat
         /\ queuedBytes + size[r] = SumFunctionOnSet(size, Range(Append(queue, r)))
         /\ \A x \in Range(Append(queue, r)) : size[x] \in Sizes
<1>1. r \notin Range(queue) /\ r # active /\ active \notin Range(queue)
  BY DEF ServiceOK, Places
<1>2. /\ Append(queue, r) \in Seq(Requests) /\ IsInjective(Append(queue, r))
      /\ Range(Append(queue, r)) = Range(queue) \cup {r}
      /\ Len(Append(queue, r)) = Len(queue) + 1
  BY <1>1, QueueAppend DEF ServiceOK, ServiceTypeOK
<1>3. size[r] \in Nat /\ queuedBytes \in Nat
  BY Counted DEF Sizes
<1>4. SumFunctionOnSet(size, Range(queue) \cup {r}) = size[r] + SumFunctionOnSet(size, Range(queue))
  <2>1. \A x \in Range(queue) : size[x] \in Nat
    BY Finite DEF Sizes
  <2>2. QED BY <1>1, <1>3, <2>1, Finite, SumWith
<1>5. queuedBytes = SumFunctionOnSet(size, Range(queue))
  BY DEF ServiceOK, Accounts
<1>6. queuedBytes + size[r] = SumFunctionOnSet(size, Range(Append(queue, r)))
  BY <1>2, <1>3, <1>4, <1>5
<1>7. QED BY <1>1, <1>2, <1>3, <1>6, Finite

\* A body that is read takes a place in the queue, unless it is refused.
LEMMA EnqueueReservedKeeps ==
  ASSUME ServiceOK, NEW r \in Requests, EnqueueReserved(r)
  PROVE  ServiceOK'
<1>0. /\ handler[r] = "reading" /\ Release(r) /\ UNCHANGED closed
      /\ size[r] \in Sizes /\ r \notin Range(queue) /\ r # active
  <2>1. handler[r] = "reading" /\ Held(r)
    BY DEF EnqueueReserved, ServiceOK, Places
  <2>2. QED BY <2>1 DEF ServiceOK, Places, Held, EnqueueReserved
<1>1. CASE Answered({r}, "error") /\ UNCHANGED <<queue, queuedBytes, active, controller>>
  BY <1>0, <1>1, ReleasedKeeps
<1>2. CASE /\ ~Refuses(r)
           /\ handler' = [handler EXCEPT ![r] = "waiting"]
           /\ Pump(active, Append(queue, r), queuedBytes + size[r])
           /\ UNCHANGED <<answer, size, dropped, aborted>>
  <2>1. r \in DOMAIN reservations /\ r \notin aborted /\ size[r] <= reservations[r]
    <3>1. Held(r)
      BY DEF ServiceOK, Places
    <3>2. QED BY <1>2, <3>1 DEF Refuses, Held
  <2>2. /\ DOMAIN reservations' = DOMAIN reservations \ {r}
        /\ \A x \in DOMAIN reservations' : reservations'[x] = reservations[x]
        /\ Range(reservations') \subseteq Sizes
        /\ reservedBytes' = SumFunctionOnSet(reservations', DOMAIN reservations')
        /\ reservedBytes' \in Nat
        /\ reservedBytes' = reservedBytes - reservations[r]
        /\ Cardinality(DOMAIN reservations') = Cardinality(DOMAIN reservations) - 1
    BY <1>0, <2>1, ReleaseGives
  <2> DEFINE longer == Append(queue, r)
             bytes  == queuedBytes + size[r]
  <2>3. /\ longer \in Seq(Requests) /\ IsInjective(longer)
        /\ Range(longer) = Range(queue) \cup {r}
        /\ Len(longer) = Len(queue) + 1
        /\ active \notin Range(longer)
        /\ bytes \in Nat
        /\ bytes = SumFunctionOnSet(size, Range(longer))
        /\ \A x \in Range(longer) : size[x] \in Sizes
    BY <1>0, JoinedQueue
  <2>4. active \in Requests \cup {None} /\ controller \in BOOLEAN
        /\ handler \in [Requests -> Handlers] /\ Pump(active, longer, bytes)
    BY <1>2 DEF ServiceOK, ServiceTypeOK
  <2> HIDE DEF longer
  <2>5. /\ queue' \in Seq(Requests) /\ IsInjective(queue') /\ active' \in Requests \cup {None}
        /\ controller' \in BOOLEAN
        /\ Range(queue') \cup ({active'} \ {None}) = Range(longer) \cup ({active} \ {None})
        /\ active' \notin Range(queue') /\ Range(queue') \subseteq Range(longer)
        /\ queuedBytes' = SumFunctionOnSet(size, Range(queue'))
        /\ queuedBytes' \in 0..bytes
        /\ Len(queue') + Occupied(active') = Len(longer) + Occupied(active)
    <3> HIDE DEF bytes
    <3>1. QED BY <2>3, <2>4, PumpMoves
  <2>6. queuedBytes' + reservedBytes' <= MaxBytes
        /\ queuedBytes' \in 0..MaxBytes /\ reservedBytes' \in 0..MaxBytes
    <3>1. /\ queuedBytes' \in Nat /\ queuedBytes' <= queuedBytes + size[r]
          /\ size[r] \in Nat /\ reservations[r] \in Nat
      BY <1>0, <2>1, <2>5, Counted, Finite DEF Sizes
    <3>2. queuedBytes + reservedBytes <= MaxBytes
      BY DEF ServiceOK, Accounts
    <3>3. /\ queuedBytes \in Nat /\ reservedBytes \in Nat /\ reservedBytes' \in Nat /\ MaxBytes \in Nat
          /\ size[r] <= reservations[r] /\ reservedBytes' = reservedBytes - reservations[r]
      BY <2>1, <2>2, Counted
    <3>4. queuedBytes' + reservedBytes' <= MaxBytes
      BY <3>1, <3>2, <3>3
    <3>5. QED BY <3>1, <3>3, <3>4
  <2>7. ServiceTypeOK'
    <3>1. handler' \in [Requests -> Handlers]
      BY <1>2, <2>4 DEF Handlers
    <3>2. DOMAIN reservations' \subseteq Requests
      BY <2>2, Finite
    <3>3. closed' \in BOOLEAN
      BY <1>0 DEF ServiceOK, ServiceTypeOK
    <3>4. QED BY <1>2, <2>2, <2>5, <2>6, <3>1, <3>2, <3>3 DEF ServiceOK, ServiceTypeOK
  <2>8. Places'
    <3>1. ASSUME NEW x \in Requests
          PROVE  Held(x)'
      <4>1. Held(x)
        BY DEF ServiceOK, Places
      <4>2. CASE x = r
        BY <1>0, <1>2, <2>2, <2>4, <4>2 DEF Held
      <4>3. CASE x # r
        BY <1>2, <2>2, <2>4, <4>1, <4>3 DEF Held
      <4>4. QED BY <4>2, <4>3
    <3>2. {x \in Requests : handler'[x] = "waiting"} = {x \in Requests : handler[x] = "waiting"} \cup {r}
      BY <1>2, <2>4
    <3>3. Range(longer) \cup ({active} \ {None}) = {x \in Requests : handler'[x] = "waiting"}
      BY <2>3, <3>2 DEF ServiceOK, Places
    <3>4. Range(queue') \cap aborted' = {}
      BY <1>2, <2>1, <2>3, <2>5 DEF ServiceOK, Places
    <3>5. QED BY <2>5, <3>1, <3>3, <3>4 DEF Places
  <2>9. Admitted' <= MaxAdmitted
    <3>1. Admitted' = Len(queue') + Cardinality(DOMAIN reservations') + Occupied(active')
      BY DEF Admitted, Occupied
    <3>2. Len(queue') \in Nat /\ Occupied(active') \in Nat
      BY <2>5 DEF Occupied
    <3>3. /\ Len(queue') + Occupied(active') = Len(queue) + 1 + Occupied(active)
          /\ Cardinality(DOMAIN reservations') = Cardinality(DOMAIN reservations) - 1
      BY <2>2, <2>3, <2>5
    <3>4. /\ Len(queue) \in Nat /\ Cardinality(DOMAIN reservations) \in Nat /\ Occupied(active) \in Nat
          /\ Admitted = Len(queue) + Cardinality(DOMAIN reservations) + Occupied(active)
          /\ Admitted <= MaxAdmitted
      BY Counted DEF ServiceOK, Accounts
    <3>5. QED BY <3>1, <3>2, <3>3, <3>4
  <2>10. QED BY <1>2, <2>2, <2>5, <2>6, <2>7, <2>8, <2>9 DEF ServiceOK, Accounts
<1>3. QED BY <1>1, <1>2 DEF EnqueueReserved
\* The signal of a request takes it out of the queue, or is noted.
LEMMA AbortKeeps ==
  ASSUME ServiceOK, NEW r \in Requests, Abort(r)
  PROVE  ServiceOK'
<1>0. r \in dropped \ aborted /\ UNCHANGED <<reservations, reservedBytes, active, closed>>
  BY DEF Abort
<1>1. ASSUME NEW i \in DOMAIN queue, queue[i] = r, queue' = RemoveAt(queue, i),
             queuedBytes' = queuedBytes - size[r], Answered({r}, "error"), UNCHANGED controller
      PROVE  ServiceOK'
  <2>1. /\ queue' \in Seq(Requests) /\ IsInjective(queue')
        /\ Range(queue') = Range(queue) \ {r} /\ Len(queue') = Len(queue) - 1
    BY <1>1, QueueRemove DEF ServiceOK, ServiceTypeOK
  <2>2. r \in Range(queue) /\ r # active /\ handler[r] = "waiting" /\ r \notin DOMAIN reservations
        /\ size[r] \in Sizes
    <3>1. r \in Range(queue)
      BY <1>1 DEF Range
    <3>2. QED BY <3>1, Finite DEF ServiceOK, Places, Held
  <2>3. /\ handler' \in [Requests -> Handlers] /\ answer' \in [Requests -> Answers \cup {None}]
        /\ size' \in [Requests -> Sizes \cup {None}]
        /\ dropped' \subseteq Requests /\ aborted' \subseteq dropped' /\ aborted' = aborted \ {r}
        /\ handler'[r] = "ended"
        /\ \A x \in Requests \ {r} : handler'[x] = handler[x] /\ size'[x] = size[x]
    <3>1. "error" \in Answers /\ {r} \in SUBSET Requests /\ r \in {r}
      BY DEF Answers
    <3>2. QED BY <1>1, <3>1, AnsweredEnds DEF ServiceOK
  <2>4. /\ queuedBytes' = SumFunctionOnSet(size', Range(queue')) /\ queuedBytes' \in Nat
        /\ queuedBytes' <= queuedBytes
    <3>1. \A x \in Range(queue) : size[x] \in Nat
      BY Finite DEF Sizes
    <3>2. /\ SumFunctionOnSet(size, Range(queue) \ {r}) = queuedBytes - size[r]
          /\ SumFunctionOnSet(size, Range(queue) \ {r}) \in Nat
      BY <2>2, <3>1, Finite, SumWithout DEF ServiceOK, Accounts
    <3>3. IsFiniteSet(Range(queue'))
          /\ \A x \in Range(queue') : size[x] \in Int /\ size'[x] = size[x]
      BY <2>1, <2>3, <3>1, Finite, FS_Subset
    <3>4. SumFunctionOnSet(size, Range(queue')) = SumFunctionOnSet(size', Range(queue'))
      BY <3>3, SumSame
    <3>5. size[r] \in Nat /\ queuedBytes \in Nat
      BY <2>2, Counted DEF Sizes
    <3>6. QED BY <1>1, <2>1, <3>2, <3>4, <3>5
  <2>5. queuedBytes' + reservedBytes <= MaxBytes /\ queuedBytes' \in 0..MaxBytes
    <3>1. queuedBytes + reservedBytes <= MaxBytes /\ queuedBytes \in Nat /\ reservedBytes \in Nat
      BY Counted DEF ServiceOK, Accounts
    <3>2. QED BY <2>4, <3>1
  <2>6. Admitted' <= MaxAdmitted
    <3>1. Admitted' = Len(queue') + Cardinality(DOMAIN reservations) + Occupied(active)
      BY <1>0 DEF Admitted, Occupied
    <3>2. Admitted <= MaxAdmitted
      BY DEF ServiceOK, Accounts
    <3>3. QED BY <2>1, <3>1, <3>2, Counted
  <2>7. ServiceTypeOK'
    BY <1>0, <1>1, <2>1, <2>3, <2>5 DEF ServiceOK, ServiceTypeOK
  <2>8. Places'
    <3>1. ASSUME NEW x \in Requests
          PROVE  Held(x)'
      <4>1. Held(x)
        BY DEF ServiceOK, Places
      <4>2. CASE x = r
        BY <1>0, <2>2, <2>3, <4>2 DEF Held
      <4>3. CASE x # r
        BY <1>0, <2>3, <4>1, <4>3 DEF Held
      <4>4. QED BY <4>2, <4>3
    <3>2. {x \in Requests : handler'[x] = "waiting"} = {x \in Requests : handler[x] = "waiting"} \ {r}
      BY <2>2, <2>3
    <3>3. QED BY <1>0, <2>1, <2>2, <2>3, <3>1, <3>2 DEF ServiceOK, Places
  <2>9. QED BY <1>0, <2>4, <2>5, <2>6, <2>7, <2>8 DEF ServiceOK, Accounts
<1>2. CASE /\ r \notin Range(queue) /\ aborted' = aborted \cup {r}
           /\ controller' = (controller \/ r = active)
           /\ UNCHANGED <<handler, answer, size, dropped, queue, queuedBytes>>
  <2>1. ServiceTypeOK'
    BY <1>0, <1>2 DEF ServiceOK, ServiceTypeOK
  <2>2. Places'
    BY <1>0, <1>2 DEF ServiceOK, Places, Held
  <2>3. Accounts'
    BY <1>0, <1>2 DEF ServiceOK, Accounts, Admitted
  <2>4. QED BY <2>1, <2>2, <2>3 DEF ServiceOK
<1>3. QED BY <1>1, <1>2 DEF Abort

\* The timer only tells the transcriber to give up.
LEMMA TimeoutKeeps ==
  ASSUME ServiceOK, Timeout
  PROVE  ServiceOK'
BY DEF Timeout, ServiceOK, ServiceTypeOK, Places, Held, Accounts, Admitted

\* The transcriber is done with a request, and the next takes its place.
LEMMA SettleKeeps ==
  ASSUME ServiceOK, Settle
  PROVE  ServiceOK'
<1>0. /\ active # None /\ Pump(None, queue, queuedBytes)
      /\ UNCHANGED <<reservations, reservedBytes, closed>>
      /\ active \in Requests /\ active \notin Range(queue) /\ handler[active] = "waiting"
      /\ active \notin DOMAIN reservations
  <2>1. active # None /\ active \in Requests
    BY DEF Settle, ServiceOK, ServiceTypeOK
  <2>2. handler[active] = "waiting" /\ Held(active)
    BY <2>1 DEF ServiceOK, Places
  <2>3. QED BY <2>1, <2>2 DEF Settle, ServiceOK, Places, Held
<1>1. PICK outcome \in Answers : Answered({active}, outcome)
  BY DEF Settle, Answers
<1>2. /\ handler' \in [Requests -> Handlers] /\ answer' \in [Requests -> Answers \cup {None}]
      /\ size' \in [Requests -> Sizes \cup {None}]
      /\ dropped' \subseteq Requests /\ aborted' \subseteq dropped' /\ aborted' = aborted \ {active}
      /\ handler'[active] = "ended"
      /\ \A x \in Requests \ {active} : handler'[x] = handler[x] /\ size'[x] = size[x]
  <2>1. {active} \in SUBSET Requests /\ active \in {active}
    BY <1>0
  <2>2. QED BY <1>1, <2>1, AnsweredEnds DEF ServiceOK
<1>3. /\ queue' \in Seq(Requests) /\ IsInjective(queue') /\ active' \in Requests \cup {None}
      /\ controller' \in BOOLEAN
      /\ Range(queue') \cup ({active'} \ {None}) = Range(queue)
      /\ active' \notin Range(queue') /\ Range(queue') \subseteq Range(queue)
      /\ queuedBytes' = SumFunctionOnSet(size, Range(queue'))
      /\ queuedBytes' \in 0..queuedBytes
      /\ Len(queue') + Occupied(active') = Len(queue)
  <2>1. /\ queue \in Seq(Requests) /\ IsInjective(queue) /\ None \notin Range(queue)
        /\ controller \in BOOLEAN /\ queuedBytes = SumFunctionOnSet(size, Range(queue))
        /\ Occupied(None) = 0 /\ None \in Requests \cup {None}
    BY Finite DEF ServiceOK, ServiceTypeOK, Accounts, Occupied
  <2>2. QED BY <1>0, <2>1, Finite, Counted, PumpMoves
<1>4. queuedBytes' = SumFunctionOnSet(size', Range(queue'))
  <2>1. IsFiniteSet(Range(queue'))
    BY <1>3, Finite, FS_Subset
  <2>2. \A x \in Range(queue') : size[x] \in Int /\ size'[x] = size[x]
    BY <1>0, <1>2, <1>3, Finite DEF Sizes
  <2>3. SumFunctionOnSet(size, Range(queue')) = SumFunctionOnSet(size', Range(queue'))
    BY <2>1, <2>2, SumSame
  <2>4. QED BY <1>3, <2>3
<1>5. queuedBytes' + reservedBytes <= MaxBytes /\ queuedBytes' \in 0..MaxBytes
  <2>1. queuedBytes + reservedBytes <= MaxBytes /\ queuedBytes \in Nat /\ reservedBytes \in Nat
    BY Counted DEF ServiceOK, Accounts
  <2>2. QED BY <1>3, <2>1
<1>6. Admitted' <= MaxAdmitted
  <2>1. Admitted' = Len(queue') + Cardinality(DOMAIN reservations) + Occupied(active')
    BY <1>0 DEF Admitted, Occupied
  <2>2. Admitted <= MaxAdmitted
    BY DEF ServiceOK, Accounts
  <2>3. Len(queue') \in Nat /\ Occupied(active') \in Nat
    BY <1>3 DEF Occupied
  <2>4. QED BY <1>3, <2>1, <2>2, <2>3, Counted
<1>7. ServiceTypeOK'
  BY <1>0, <1>2, <1>3, <1>5 DEF ServiceOK, ServiceTypeOK
<1>8. Places'
  <2>1. ASSUME NEW x \in Requests
        PROVE  Held(x)'
    <3>1. Held(x)
      BY DEF ServiceOK, Places
    <3>2. CASE x = active
      BY <1>0, <1>2, <3>2 DEF Held
    <3>3. CASE x # active
      BY <1>0, <1>2, <3>1, <3>3 DEF Held
    <3>4. QED BY <3>2, <3>3
  <2>2. {x \in Requests : handler'[x] = "waiting"} = Range(queue)
    <3>1. Range(queue) \cup {active} = {x \in Requests : handler[x] = "waiting"}
      BY <1>0 DEF ServiceOK, Places
    <3>2. QED BY <1>0, <1>2, <3>1
  <2>3. QED BY <1>2, <1>3, <2>1, <2>2 DEF ServiceOK, Places
<1>9. QED BY <1>0, <1>4, <1>5, <1>6, <1>7, <1>8 DEF ServiceOK, Accounts

\* Closing answers what waits and forgets the reservations.
LEMMA CloseKeeps ==
  ASSUME ServiceOK, Close
  PROVE  ServiceOK'
<1>0. /\ closed' = TRUE /\ controller' = (active # None) /\ Answered(Range(queue), "error")
      /\ queue' = <<>> /\ queuedBytes' = 0 /\ reservations' = [r \in {} |-> None]
      /\ reservedBytes' = 0 /\ UNCHANGED active
  BY DEF Close
<1>1. /\ handler' \in [Requests -> Handlers] /\ answer' \in [Requests -> Answers \cup {None}]
      /\ size' \in [Requests -> Sizes \cup {None}]
      /\ dropped' \subseteq Requests /\ aborted' \subseteq dropped'
      /\ \A r \in Range(queue) : handler'[r] = "ended"
      /\ \A r \in Requests \ Range(queue) : handler'[r] = handler[r] /\ size'[r] = size[r]
  <2>1. "error" \in Answers /\ Range(queue) \in SUBSET Requests
    BY Finite DEF Answers
  <2>2. QED BY <1>0, <2>1, AnsweredEnds DEF ServiceOK
<1>2. /\ DOMAIN reservations' = {} /\ Range(reservations') = {}
      /\ queue' \in Seq(Requests) /\ Range(queue') = {} /\ IsInjective(queue') /\ Len(queue') = 0
  BY <1>0 DEF Range, IsInjective
<1>3. ServiceTypeOK'
  BY <1>0, <1>1, <1>2 DEF ServiceOK, ServiceTypeOK
<1>4. Places'
  <2>1. ASSUME NEW x \in Requests
        PROVE  Held(x)'
    <3>1. Held(x)
      BY DEF ServiceOK, Places
    <3>2. QED BY <1>1, <1>2, <3>1 DEF Held
  <2>2. {x \in Requests : handler'[x] = "waiting"} = {active} \ {None}
    BY <1>1, Finite DEF ServiceOK, Places
  <2>3. QED BY <1>0, <1>2, <2>1, <2>2 DEF Places
<1>5. Accounts'
  <2>1. SumFunctionOnSet(size', {}) = 0 /\ SumFunctionOnSet(reservations', {}) = 0
    BY FS_EmptySet, SumEquation
  <2>2. Admitted' = Len(queue') + Cardinality(DOMAIN reservations') + Occupied(active)
    BY <1>0 DEF Admitted, Occupied
  <2>3. Admitted' \in {0, 1}
    BY <1>2, <2>2, FS_EmptySet DEF Occupied
  <2>4. Admitted' <= MaxAdmitted /\ queuedBytes' + reservedBytes' <= MaxBytes
    BY <1>0, <2>3
  <2>5. QED BY <1>0, <1>2, <2>1, <2>4 DEF Accounts
<1>6. QED BY <1>3, <1>4, <1>5 DEF ServiceOK

\* The service starts with nothing.
LEMMA ServiceStarts ==
  ASSUME ServiceInit
  PROVE  ServiceOK
<1>1. /\ DOMAIN reservations = {} /\ Range(reservations) = {}
      /\ queue \in Seq(Requests) /\ Range(queue) = {} /\ IsInjective(queue) /\ Len(queue) = 0
  BY DEF ServiceInit, Range, IsInjective
<1>2. SumFunctionOnSet(size, {}) = 0 /\ SumFunctionOnSet(reservations, {}) = 0
  BY FS_EmptySet, SumEquation
<1>3. ServiceTypeOK
  <2>1. 0 \in 0..MaxBytes /\ "none" \in Handlers
    BY DEF Handlers
  <2>2. handler \in [Requests -> Handlers] /\ answer \in [Requests -> Answers \cup {None}]
        /\ size \in [Requests -> Sizes \cup {None}]
    BY <2>1 DEF ServiceInit
  <2>3. QED BY <1>1, <2>1, <2>2 DEF ServiceInit, ServiceTypeOK
<1>4. Places
  BY <1>1 DEF ServiceInit, Places, Held
<1>5. Accounts
  <2>1. Admitted = 0
    BY <1>1, FS_EmptySet DEF ServiceInit, Admitted
  <2>2. queuedBytes = 0 /\ reservedBytes = 0 /\ queuedBytes + reservedBytes <= MaxBytes
        /\ Admitted <= MaxAdmitted
    BY <2>1 DEF ServiceInit
  <2>3. QED BY <1>1, <1>2, <2>2 DEF Accounts
<1>6. QED BY <1>3, <1>4, <1>5 DEF ServiceOK
-----------------------------------------------------------------------------
(* The client's half.                                                      *)

\* The dictation a client started last.
Latest(c) == <<c, started[c]>>

\* A client's present dictation is its last; one that records has got its microphone and has no
\* request yet.
ClientOK(c) ==
  /\ current[c] # None => current[c] = Latest(c) /\ current[c] \in Requests
  /\ phase[c] \in {"idle", "error"} \/ current[c] # None
  /\ phase[c] = "recording" => handler[current[c]] = "none" /\ start[current[c]] = "done"

\* A dictation that is to come has not begun; one whose start waits has no request, and when it
\* is the present one its client waits with it.
RequestOK(r) ==
  /\ r[2] > started[r[1]] => start[r] = "none"
  /\ start[r] # "done" => handler[r] = "none"
  /\ start[r] \in {"permission", "resuming"} /\ current[r[1]] = r => phase[r[1]] = "requestingPermission"

ClientsOK ==
  /\ TypeOK
  /\ \A c \in Clients : ClientOK(c)
  /\ \A r \in Requests : RequestOK(r)

IInv == ServiceOK /\ ClientsOK

\* A request is a client's, by its number.
LEMMA RequestParts ==
  /\ \A r \in Requests : r[1] \in Clients /\ r[2] \in 1..MaxDictations /\ r = <<r[1], r[2]>>
  /\ \A c \in Clients : \A n \in 1..MaxDictations :
       /\ <<c, n>> \in Requests
       /\ <<c, n>>[1] = c /\ <<c, n>>[2] = n
BY DictationAssumption

\* The service does nothing about a dictation without a request, and gives only what waited and
\* was not cancelled to the transcriber.
LEMMA ServiceSteps ==
  ASSUME ServiceOK, ServiceNext
  PROVE  /\ ServiceOK'
         /\ \A r \in Requests : handler[r] = "none" => handler'[r] = "none"
         /\ active' # active /\ active' # None => active' \notin aborted
<1> DEFINE Untouched == \A r \in Requests : handler[r] = "none" => handler'[r] = "none"
           Allowed   == active' # active /\ active' # None => active' \notin aborted
<1>0. /\ queue \in Seq(Requests) /\ IsInjective(queue) /\ active \in Requests \cup {None}
      /\ controller \in BOOLEAN /\ None \notin Range(queue) /\ active \notin Range(queue)
      /\ Range(queue) \cap aborted = {} /\ queuedBytes = SumFunctionOnSet(size, Range(queue))
      /\ handler \in [Requests -> Handlers]
      /\ \A r \in Range(queue) \cup ({active} \ {None}) : handler[r] = "waiting"
  BY Finite DEF ServiceOK, ServiceTypeOK, Places, Accounts
<1>1. ASSUME NEW r \in Requests, AdmitUpload(r)
      PROVE  ServiceOK' /\ Untouched /\ Allowed
  <2>1. Untouched
    BY <1>0, <1>1 DEF AdmitUpload, Answered
  <2>2. Allowed
    BY <1>1 DEF AdmitUpload
  <2>3. QED BY <1>1, <2>1, <2>2, AdmitUploadKeeps
<1>2. ASSUME NEW r \in Requests, UploadFails(r)
      PROVE  ServiceOK' /\ Untouched /\ Allowed
  <2>1. Untouched /\ Allowed
    BY <1>0, <1>2 DEF UploadFails, Answered
  <2>2. QED BY <1>2, <2>1, UploadFailsKeeps
<1>3. ASSUME NEW r \in Requests, EnqueueReserved(r)
      PROVE  ServiceOK' /\ Untouched /\ Allowed
  <2>1. Untouched
    BY <1>0, <1>3 DEF EnqueueReserved, Answered
  <2>2. Allowed
    <3>1. CASE UNCHANGED active
      BY <3>1
    <3>2. CASE ~Refuses(r) /\ Pump(active, Append(queue, r), queuedBytes + size[r])
      <4>1. handler[r] = "reading" /\ r \notin aborted /\ size[r] \in Sizes
        <5>1. Held(r) /\ handler[r] = "reading"
          BY <1>3 DEF ServiceOK, Places, EnqueueReserved
        <5>2. QED BY <3>2, <5>1 DEF Held, Refuses
      <4>2. /\ Append(queue, r) \in Seq(Requests) /\ IsInjective(Append(queue, r))
            /\ Range(Append(queue, r)) = Range(queue) \cup {r}
            /\ active \notin Range(Append(queue, r))
            /\ queuedBytes + size[r] \in Nat
            /\ queuedBytes + size[r] = SumFunctionOnSet(size, Range(Append(queue, r)))
            /\ \A x \in Range(Append(queue, r)) : size[x] \in Sizes
        BY <4>1, JoinedQueue
      <4>3. active' = active \/ active' \in Range(Append(queue, r))
        BY <1>0, <3>2, <4>2, PumpMoves
      <4>4. QED BY <1>0, <4>1, <4>2, <4>3
    <3>3. QED BY <1>3, <3>1, <3>2 DEF EnqueueReserved
  <2>3. QED BY <1>3, <2>1, <2>2, EnqueueReservedKeeps
<1>4. ASSUME NEW r \in Requests, Abort(r)
      PROVE  ServiceOK' /\ Untouched /\ Allowed
  <2>1. Untouched
    <3>1. CASE \E i \in DOMAIN queue : queue[i] = r
      <4>1. r \in Range(queue)
        BY <3>1 DEF Range
      <4>2. QED BY <1>0, <1>4, <4>1 DEF Abort, Answered
    <3>2. QED BY <1>4, <3>1 DEF Abort
  <2>2. Allowed
    BY <1>4 DEF Abort
  <2>3. QED BY <1>4, <2>1, <2>2, AbortKeeps
<1>5. ASSUME Timeout
      PROVE  ServiceOK' /\ Untouched /\ Allowed
  BY <1>5, TimeoutKeeps DEF Timeout
<1>6. ASSUME Settle
      PROVE  ServiceOK' /\ Untouched /\ Allowed
  <2>1. Untouched
    BY <1>0, <1>6 DEF Settle, Answered
  <2>2. Allowed
    <3>1. Pump(None, queue, queuedBytes) /\ queuedBytes \in Nat /\ None \in Requests \cup {None}
      BY <1>6, Counted DEF Settle
    <3>2. active' = None \/ active' \in Range(queue)
      BY <1>0, <3>1, Finite, PumpMoves
    <3>3. QED BY <1>0, <3>2
  <2>3. QED BY <1>6, <2>1, <2>2, SettleKeeps
<1>7. ASSUME Close
      PROVE  ServiceOK' /\ Untouched /\ Allowed
  <2>1. Untouched /\ Allowed
    BY <1>0, <1>7 DEF Close, Answered
  <2>2. QED BY <1>7, <2>1, CloseKeeps
<1>8. QED BY <1>1, <1>2, <1>3, <1>4, <1>5, <1>6, <1>7 DEF ServiceNext
\* A step that leaves the service alone keeps its invariant.
LEMMA ServiceStays ==
  ASSUME ServiceOK, UNCHANGED service
  PROVE  ServiceOK'
BY DEF service, ServiceOK, ServiceTypeOK, Places, Held, Accounts, Admitted

\* A connection that is gone is only noted.
LEMMA AbandonKeeps ==
  ASSUME ServiceOK, ClientsOK, NEW c \in Clients, Abandon(c),
         UNCHANGED <<handler, answer, size, aborted, reservations, reservedBytes, queue, queuedBytes,
                     active, controller, closed>>
  PROVE  ServiceOK'
<1>1. phase[c] = "transcribing" => current[c] \in Requests
  BY DEF ClientsOK, ClientOK
<1>2. dropped \subseteq dropped' /\ dropped' \subseteq Requests
  BY <1>1 DEF Abandon, ServiceOK, ServiceTypeOK
<1>3. ServiceTypeOK'
  BY <1>2 DEF ServiceOK, ServiceTypeOK
<1>4. QED BY <1>3 DEF ServiceOK, Places, Held, Accounts, Admitted

\* What a step that leaves the phase and the dictations of the other clients alone has to keep.
LEMMA OtherClients ==
  ASSUME ClientsOK, TypeOK', NEW c \in Clients,
         \A d \in Clients \ {c} : phase'[d] = phase[d] /\ current'[d] = current[d] /\ started'[d] = started[d],
         \A r \in Requests : r[1] # c => start'[r] = start[r] /\ handler'[r] = handler[r],
         ClientOK(c)', \A r \in Requests : r[1] = c => RequestOK(r)'
  PROVE  ClientsOK'
<1>1. ASSUME NEW d \in Clients
      PROVE  ClientOK(d)'
  <2>1. CASE d = c
    BY <2>1
  <2>2. CASE d # c
    <3>1. ClientOK(d) /\ (current[d] # None => current[d][1] = d)
      <4>1. ClientOK(d)
        BY DEF ClientsOK
      <4>2. QED BY <4>1 DEF ClientOK, Latest
    <3>2. QED BY <2>2, <3>1 DEF ClientOK, Latest
  <2>3. QED BY <2>1, <2>2
<1>2. ASSUME NEW r \in Requests
      PROVE  RequestOK(r)'
  <2>1. CASE r[1] = c
    BY <2>1
  <2>2. CASE r[1] # c
    <3>1. RequestOK(r) /\ r[1] \in Clients
      BY RequestParts DEF ClientsOK
    <3>2. QED BY <2>2, <3>1 DEF RequestOK
  <2>3. QED BY <2>1, <2>2
<1>3. QED BY <1>1, <1>2 DEF ClientsOK

\* Whether a client's phase is one transitionSpeechPhase allows after the one before.
Legal(c) == phase'[c] = phase[c] \/ Refused(c) \/ <<phase[c], phase'[c]>> \in Transitions

\* What every step of the clients keeps.
Kept == IInv' /\ \A c \in Clients : Legal(c)

\* A new dictation.
LEMMA StartRecordingKeeps ==
  ASSUME IInv, NEW c \in Clients, StartRecording(c)
  PROVE  Kept
<1> DEFINE n == started[c] + 1
           r == <<c, n>>
<1>0. /\ TypeOK /\ ClientOK(c) /\ \A x \in Requests : RequestOK(x)
      /\ phase[c] \in {"idle", "error"} /\ started[c] < MaxDictations /\ UNCHANGED service
      /\ started' = [started EXCEPT ![c] = n] /\ current' = [current EXCEPT ![c] = r]
      /\ \/ /\ start' = [start EXCEPT ![r] = "permission"]
            /\ phase' = [phase EXCEPT ![c] = "requestingPermission"]
            /\ UNCHANGED <<capture, microphones>>
         \/ /\ start' = [start EXCEPT ![r] = "done"]
            /\ phase' = [phase EXCEPT ![c] = "error"]
            /\ CancelRecorder(c, {})
  BY DEF IInv, ClientsOK, StartRecording
<1>1. /\ n \in 1..MaxDictations /\ started[c] \in Nat /\ n = started[c] + 1
      /\ handler' = handler
  BY <1>0, DictationAssumption DEF TypeOK, service
<1>2. r \in Requests /\ r[1] = c /\ r[2] = n
  BY <1>1, RequestParts
<1>3. start[r] = "none" /\ handler[r] = "none"
  <2>1. r[2] > started[r[1]]
    BY <1>1, <1>2
  <2>2. QED BY <1>0, <1>2, <2>1 DEF RequestOK
<1> HIDE DEF r, n
<1>4. ServiceOK'
  BY <1>0, ServiceStays DEF IInv
<1>5. TypeOK'
  <2>1. started' \in [Clients -> 0..MaxDictations] /\ current' \in [Clients -> Requests \cup {None}]
    BY <1>0, <1>1, <1>2 DEF TypeOK
  <2>2. /\ start' \in [Requests -> {"none", "permission", "resuming", "done"}]
        /\ phase' \in [Clients -> Phases]
    BY <1>0 DEF TypeOK, Phases
  <2>3. capture' \in [Clients -> Requests \cup {None}] /\ microphones' \subseteq Requests
    BY <1>0 DEF TypeOK, CancelRecorder
  <2>4. QED BY <2>1, <2>2, <2>3 DEF TypeOK
<1>6. /\ phase'[c] \in {"requestingPermission", "error"} /\ current'[c] = r /\ started'[c] = n
      /\ start'[r] \in {"permission", "done"} /\ (start'[r] = "done" <=> phase'[c] = "error")
      /\ \A x \in Requests : x # r => start'[x] = start[x]
      /\ \A d \in Clients \ {c} : phase'[d] = phase[d] /\ current'[d] = current[d] /\ started'[d] = started[d]
  BY <1>0, <1>2 DEF TypeOK
<1>7. ClientOK(c)'
  <2>1. Latest(c)' = r
    BY <1>6 DEF Latest, r
  <2>2. QED BY <1>2, <1>6, <2>1 DEF ClientOK
<1>8. ASSUME NEW x \in Requests, x[1] = c
      PROVE  RequestOK(x)'
  <2>1. RequestOK(x) /\ x[2] \in Nat
    BY <1>0, RequestParts
  <2>2. CASE x = r
    BY <1>1, <1>2, <1>3, <1>6, <2>2 DEF RequestOK
  <2>3. CASE x # r
    <3>1. x[2] > n => x[2] > started[c]
      BY <1>1, <2>1
    <3>2. QED BY <1>1, <1>6, <1>8, <2>1, <2>3, <3>1 DEF RequestOK
  <2>4. QED BY <2>2, <2>3
<1>9. ClientsOK'
  <2>1. \A x \in Requests : x[1] # c => start'[x] = start[x] /\ handler'[x] = handler[x]
    BY <1>1, <1>2, <1>6
  <2>2. QED BY <1>5, <1>6, <1>7, <1>8, <2>1, OtherClients DEF IInv
<1>10. ASSUME NEW d \in Clients
       PROVE  Legal(d)
  <2>1. CASE d = c
    <3>1. started'[c] # started[c]
      BY <1>1, <1>6
    <3>2. QED BY <1>0, <1>6, <2>1, <3>1 DEF Legal, Refused, Transitions
  <2>2. CASE d # c
    BY <1>6, <2>2 DEF Legal
  <2>3. QED BY <2>1, <2>2
<1>11. QED BY <1>4, <1>9, <1>10 DEF Kept, IInv
\* The stream of a start that waited for the user.
LEMMA StreamOpenedKeeps ==
  ASSUME IInv, NEW r \in Requests, StreamOpened(r)
  PROVE  Kept
<1>0. /\ TypeOK /\ \A x \in Requests : RequestOK(x)
      /\ start[r] = "permission" /\ start' = [start EXCEPT ![r] = "resuming"]
      /\ capture' = [capture EXCEPT ![r[1]] = r] /\ microphones' = microphones \cup {r}
      /\ UNCHANGED <<phase, started, current, service>> /\ handler' = handler
      /\ start \in [Requests -> {"none", "permission", "resuming", "done"}]
  BY DEF IInv, ClientsOK, TypeOK, StreamOpened, Client, service
<1>1. ServiceOK'
  BY <1>0, ServiceStays DEF IInv
<1>2. TypeOK'
  BY <1>0 DEF TypeOK
<1>3. \A c \in Clients : ClientOK(c)'
  <2>1. SUFFICES ASSUME NEW c \in Clients
                 PROVE  ClientOK(c)'
    OBVIOUS
  <2>2. ClientOK(c) /\ Latest(c)' = Latest(c)
    BY <1>0 DEF IInv, ClientsOK, Latest
  <2>3. \A x \in Requests : start[x] = "done" => start'[x] = "done"
    BY <1>0
  <2>4. QED BY <1>0, <2>2, <2>3 DEF ClientOK, Phases
<1>4. \A x \in Requests : RequestOK(x)'
  <2>1. SUFFICES ASSUME NEW x \in Requests
                 PROVE  RequestOK(x)'
    OBVIOUS
  <2>2. RequestOK(x) /\ (x # r => start'[x] = start[x]) /\ (x = r => start'[x] = "resuming")
    BY <1>0
  <2>3. QED BY <1>0, <2>2 DEF RequestOK
<1>5. QED BY <1>0, <1>1, <1>2, <1>3, <1>4 DEF Kept, IInv, ClientsOK, Legal

\* What the end of a start changes: its own client's phase at most, and only to an error or a
\* recording of the present dictation.
LEMMA StartEnds ==
  ASSUME IInv, TypeOK', NEW r \in Requests, start[r] \in {"permission", "resuming"},
         start' = [start EXCEPT ![r] = "done"], UNCHANGED <<started, current, service>>,
         NEW to \in {"recording", "error"},
         phase' = [phase EXCEPT ![r[1]] = IF current[r[1]] = r THEN to ELSE phase[r[1]]]
  PROVE  Kept
<1> DEFINE c == r[1]
<1>0. /\ c \in Clients /\ r[2] \in Nat /\ TypeOK /\ \A x \in Requests : RequestOK(x)
      /\ ClientOK(c) /\ handler' = handler /\ started[c] \in Nat
      /\ start \in [Requests -> {"none", "permission", "resuming", "done"}]
      /\ phase \in [Clients -> Phases]
  BY RequestParts DEF IInv, ClientsOK, TypeOK, service
<1>1. current[c] = r => phase[c] = "requestingPermission"
  BY <1>0 DEF RequestOK
<1>2. ~(r[2] > started[c]) /\ handler[r] = "none"
  BY <1>0 DEF RequestOK
<1>3. /\ \A x \in Requests : x # r => start'[x] = start[x]
      /\ start'[r] = "done"
      /\ \A d \in Clients \ {c} : phase'[d] = phase[d]
      /\ phase'[c] = IF current[c] = r THEN to ELSE phase[c]
  BY <1>0
<1> HIDE DEF c
<1>4. ServiceOK'
  BY ServiceStays DEF IInv
<1>5. ClientOK(c)'
  <2>1. Latest(c)' = Latest(c)
    BY DEF Latest
  <2>2. CASE current[c] = r
    <3>1. r # None
      OBVIOUS
    <3>2. QED BY <1>0, <1>2, <1>3, <2>1, <2>2, <3>1 DEF ClientOK
  <2>3. CASE current[c] # r
    <3>1. current[c] # None => current[c] \in Requests
      BY <1>0 DEF ClientOK
    <3>2. phase[c] = "recording" => start[current[c]] = "done" /\ start'[current[c]] = "done"
      BY <1>0, <1>3, <2>3, <3>1 DEF ClientOK
    <3>3. QED BY <1>0, <1>3, <2>1, <2>3, <3>1, <3>2 DEF ClientOK
  <2>4. QED BY <2>2, <2>3
<1>6. ASSUME NEW x \in Requests, x[1] = c
      PROVE  RequestOK(x)'
  <2>1. RequestOK(x)
    BY <1>0
  <2>2. CASE x = r
    BY <1>2, <1>3, <1>6, <2>1, <2>2 DEF RequestOK
  <2>3. CASE x # r
    BY <1>0, <1>3, <1>6, <2>1, <2>3 DEF RequestOK
  <2>4. QED BY <2>2, <2>3
<1>7. ClientsOK'
  <2>1. \A x \in Requests : x[1] # c => start'[x] = start[x] /\ handler'[x] = handler[x]
    BY <1>0, <1>3 DEF c
  <2>2. QED BY <1>0, <1>3, <1>5, <1>6, <2>1, OtherClients DEF IInv
<1>8. \A d \in Clients : Legal(d)
  BY <1>1, <1>3 DEF Legal, Transitions
<1>9. QED BY <1>4, <1>7, <1>8 DEF Kept, IInv

\* recorder.start() returns.
LEMMA StartReturnsKeeps ==
  ASSUME IInv, NEW r \in Requests, StartReturns(r)
  PROVE  Kept
<1>0. /\ start[r] = "resuming" /\ start' = [start EXCEPT ![r] = "done"]
      /\ UNCHANGED <<started, current, service>> /\ TypeOK /\ r[1] \in Clients
      /\ start[r] \in {"permission", "resuming"}
  BY RequestParts DEF StartReturns, IInv, ClientsOK
<1>1. phase' = [phase EXCEPT ![r[1]] = IF current[r[1]] = r THEN "recording" ELSE phase[r[1]]]
  BY <1>0 DEF StartReturns, Client, TypeOK
<1>2. TypeOK'
  <2>1. capture' \in [Clients -> Requests \cup {None}] /\ microphones' \subseteq Requests
    BY <1>0 DEF StartReturns, CancelRecorder, TypeOK
  <2>2. phase' \in [Clients -> Phases]
    BY <1>0, <1>1 DEF TypeOK, Phases
  <2>3. QED BY <1>0, <2>1, <2>2 DEF TypeOK
<1>3. "recording" \in {"recording", "error"}
  OBVIOUS
<1>4. QED BY <1>0, <1>1, <1>2, <1>3, StartEnds

\* It fails.
LEMMA StartFailsKeeps ==
  ASSUME IInv, NEW r \in Requests, StartFails(r)
  PROVE  Kept
<1>0. /\ start[r] \in {"permission", "resuming"} /\ start' = [start EXCEPT ![r] = "done"]
      /\ UNCHANGED <<started, current, service>> /\ TypeOK /\ r[1] \in Clients
  BY RequestParts DEF StartFails, IInv, ClientsOK
<1>1. phase' = [phase EXCEPT ![r[1]] = IF current[r[1]] = r THEN "error" ELSE phase[r[1]]]
  BY <1>0 DEF StartFails, Fail, Client, TypeOK
<1>2. TypeOK'
  <2>1. capture' \in [Clients -> Requests \cup {None}] /\ microphones' \subseteq Requests
    BY <1>0 DEF StartFails, CancelRecorder, TypeOK
  <2>2. phase' \in [Clients -> Phases]
    BY <1>0, <1>1 DEF TypeOK, Phases
  <2>3. QED BY <1>0, <2>1, <2>2 DEF TypeOK
<1>3. "error" \in {"recording", "error"}
  OBVIOUS
<1>4. QED BY <1>0, <1>1, <1>2, <1>3, StartEnds

\* A client's phase changes, or its dictation is dropped, while its starts and requests stay.
LEMMA PhaseChanges ==
  ASSUME IInv, ServiceOK', TypeOK', NEW c \in Clients, NEW to \in {"idle", "error"},
         phase[c] \in {"recording", "transcribing", "error"} \/ current'[c] = None,
         UNCHANGED <<started, start, handler>>,
         phase' = [phase EXCEPT ![c] = to],
         \A d \in Clients \ {c} : current'[d] = current[d], current'[c] \in {current[c], None},
         <<phase[c], to>> \in Transitions \/ phase[c] = to
  PROVE  Kept
<1>0. /\ TypeOK /\ ClientOK(c) /\ \A x \in Requests : RequestOK(x)
      /\ phase \in [Clients -> Phases]
  BY DEF IInv, ClientsOK, TypeOK
<1>1. phase'[c] = to /\ \A d \in Clients \ {c} : phase'[d] = phase[d]
  BY <1>0
<1>2. ClientOK(c)'
  <2>1. Latest(c)' = Latest(c)
    BY DEF Latest
  <2>2. QED BY <1>0, <1>1, <2>1 DEF ClientOK
<1>3. ASSUME NEW x \in Requests, x[1] = c
      PROVE  RequestOK(x)'
  <2>1. RequestOK(x)
    BY <1>0
  <2>2. current'[c] = x => current[c] = x /\ current'[c] # None
    OBVIOUS
  <2>3. QED BY <1>1, <1>3, <2>1, <2>2 DEF RequestOK
<1>4. ClientsOK'
  BY <1>1, <1>2, <1>3, OtherClients DEF IInv
<1>5. \A d \in Clients : Legal(d)
  BY <1>1 DEF Legal
<1>6. QED BY <1>4, <1>5 DEF Kept, IInv
\* A recording is stopped, and uploaded if there is one.
LEMMA StopRecordingKeeps ==
  ASSUME IInv, NEW c \in Clients, StopRecording(c)
  PROVE  Kept
<1> DEFINE r == current[c]
<1>0. /\ TypeOK /\ ServiceOK /\ ClientOK(c) /\ \A x \in Requests : RequestOK(x)
      /\ phase[c] = "recording"
      /\ UNCHANGED <<started, current, start, answer, dropped, aborted, reservations, reservedBytes,
                     queue, queuedBytes, active, controller, closed>>
  BY DEF IInv, ClientsOK, StopRecording
<1>1. /\ r \in Requests /\ r # None /\ handler[r] = "none" /\ start[r] = "done" /\ r = Latest(c)
      /\ r[1] = c
  BY <1>0 DEF ClientOK, Latest
<1>2. CASE /\ CancelRecorder(c, {})
           /\ phase' = [phase EXCEPT ![c] = "transcribing"]
           /\ handler' = [handler EXCEPT ![current[c]] = "arriving"]
           /\ \E bytes \in Sizes : size' = [size EXCEPT ![current[c]] = bytes]
  <2>1. PICK bytes \in Sizes : size' = [size EXCEPT ![r] = bytes]
    BY <1>2
  <2>2. /\ handler \in [Requests -> Handlers] /\ size \in [Requests -> Sizes \cup {None}]
        /\ phase \in [Clients -> Phases]
    BY <1>0 DEF ServiceOK, ServiceTypeOK, TypeOK
  <2> HIDE DEF r
  <2>3. /\ handler' = [handler EXCEPT ![r] = "arriving"]
        /\ handler' \in [Requests -> Handlers] /\ size' \in [Requests -> Sizes \cup {None}]
        /\ handler'[r] = "arriving" /\ size'[r] \in Sizes
        /\ \A x \in Requests \ {r} : handler'[x] = handler[x] /\ size'[x] = size[x]
        /\ phase'[c] = "transcribing" /\ \A d \in Clients \ {c} : phase'[d] = phase[d]
    BY <1>1, <1>2, <2>1, <2>2 DEF Handlers, r
  <2>4. r \notin DOMAIN reservations /\ r \notin Range(queue) /\ r # active
    <3>1. Held(r)
      BY <1>0, <1>1 DEF ServiceOK, Places
    <3>2. QED BY <1>0, <1>1, <3>1 DEF Held, ServiceOK, Places
  <2>5. ServiceTypeOK'
    BY <1>0, <2>3 DEF ServiceOK, ServiceTypeOK
  <2>6. Places'
    <3>1. ASSUME NEW x \in Requests
          PROVE  Held(x)'
      <4>1. Held(x)
        BY <1>0 DEF ServiceOK, Places
      <4>2. CASE x = r
        BY <1>0, <2>3, <2>4, <4>2 DEF Held
      <4>3. CASE x # r
        BY <1>0, <2>3, <4>1, <4>3 DEF Held
      <4>4. QED BY <4>2, <4>3
    <3>2. \A x \in Requests : handler'[x] = "waiting" <=> handler[x] = "waiting"
      BY <1>1, <2>3
    <3>3. QED BY <1>0, <3>1, <3>2 DEF ServiceOK, Places
  <2>7. Accounts'
    <3>1. \A x \in Range(queue) : size[x] \in Int /\ size'[x] = size[x]
      BY <1>0, <2>3, <2>4, Finite DEF Sizes
    <3>2. SumFunctionOnSet(size, Range(queue)) = SumFunctionOnSet(size', Range(queue))
      BY <1>0, <3>1, Finite, SumSame
    <3>3. QED BY <1>0, <3>2 DEF ServiceOK, Accounts, Admitted
  <2>8. TypeOK'
    <3>1. capture' \in [Clients -> Requests \cup {None}] /\ microphones' \subseteq Requests
      BY <1>0, <1>2 DEF CancelRecorder, TypeOK
    <3>2. phase' \in [Clients -> Phases]
      BY <1>0, <1>2 DEF TypeOK, Phases
    <3>3. QED BY <1>0, <3>1, <3>2 DEF TypeOK
  <2>9. ClientOK(c)'
    <3>1. Latest(c)' = Latest(c)
      BY <1>0 DEF Latest
    <3>2. QED BY <1>0, <1>1, <2>3, <3>1 DEF ClientOK, r
  <2>10. ASSUME NEW x \in Requests, x[1] = c
         PROVE  RequestOK(x)'
    <3>1. RequestOK(x)
      BY <1>0
    <3>2. CASE x = r
      <4>1. start'[x] = "done" /\ current'[c] = x
        BY <1>0, <1>1, <3>2 DEF r
      <4>2. QED BY <1>0, <3>1, <4>1 DEF RequestOK
    <3>3. CASE x # r
      BY <1>0, <2>3, <2>10, <3>1, <3>3 DEF RequestOK, r
    <3>4. QED BY <3>2, <3>3
  <2>11. ClientsOK'
    <3>1. \A x \in Requests : x[1] # c => start'[x] = start[x] /\ handler'[x] = handler[x]
      BY <1>0, <1>1, <2>3
    <3>2. QED BY <1>0, <2>3, <2>8, <2>9, <2>10, <3>1, OtherClients DEF IInv
  <2>12. \A d \in Clients : Legal(d)
    BY <1>0, <2>3 DEF Legal, Transitions
  <2>13. QED BY <2>5, <2>6, <2>7, <2>11, <2>12 DEF Kept, IInv, ServiceOK
<1>3. CASE Fail(current[c]) /\ UNCHANGED <<capture, microphones, handler, size>>
  <2>1. phase' = [phase EXCEPT ![c] = "error"]
    BY <1>1, <1>3 DEF Fail, Client
  <2>2. ServiceOK'
    BY <1>0, <1>3, ServiceStays DEF service
  <2>3. TypeOK'
    BY <1>0, <1>3, <2>1 DEF TypeOK, Phases
  <2>4. <<phase[c], "error">> \in Transitions
    BY <1>0 DEF Transitions
  <2>5. QED BY <1>0, <1>3, <2>1, <2>2, <2>3, <2>4, PhaseChanges
<1>4. QED BY <1>2, <1>3 DEF StopRecording

\* A dictation is cancelled.
LEMMA CancelKeeps ==
  ASSUME IInv, NEW c \in Clients, Cancel(c)
  PROVE  Kept
<1>0. /\ TypeOK /\ phase[c] # "idle" /\ phase[c] \in Phases
      /\ current' = [current EXCEPT ![c] = None] /\ phase' = [phase EXCEPT ![c] = "idle"]
      /\ CancelRecorder(c, {}) /\ Abandon(c)
      /\ UNCHANGED <<started, start, handler, answer, size, aborted, reservations, reservedBytes,
                     queue, queuedBytes, active, controller, closed>>
  BY DEF IInv, ClientsOK, TypeOK, Cancel
<1>1. ServiceOK'
  BY <1>0, AbandonKeeps DEF IInv
<1>2. TypeOK'
  <2>1. capture' \in [Clients -> Requests \cup {None}] /\ microphones' \subseteq Requests
    BY <1>0 DEF CancelRecorder, TypeOK
  <2>2. phase' \in [Clients -> Phases] /\ current' \in [Clients -> Requests \cup {None}]
    BY <1>0 DEF TypeOK, Phases
  <2>3. QED BY <1>0, <2>1, <2>2 DEF TypeOK
<1>3. current'[c] = None /\ \A d \in Clients \ {c} : current'[d] = current[d]
  BY <1>0 DEF TypeOK
<1>4. <<phase[c], "idle">> \in Transitions
  BY <1>0 DEF Transitions, Phases
<1>5. QED BY <1>0, <1>1, <1>2, <1>3, <1>4, PhaseChanges

\* The connection of its request is lost.
LEMMA ConnectionLostKeeps ==
  ASSUME IInv, NEW c \in Clients, ConnectionLost(c)
  PROVE  Kept
<1>0. /\ TypeOK /\ ClientOK(c) /\ phase[c] = "transcribing" /\ Fail(current[c]) /\ Abandon(c)
      /\ UNCHANGED <<started, current, start, capture, microphones, handler, answer, size, aborted,
                     reservations, reservedBytes, queue, queuedBytes, active, controller, closed>>
  BY DEF IInv, ClientsOK, ConnectionLost
<1>1. current[c][1] = c
  BY <1>0 DEF ClientOK, Latest
<1>2. phase' = [phase EXCEPT ![c] = "error"]
  BY <1>0, <1>1 DEF Fail, Client
<1>3. ServiceOK'
  BY <1>0, AbandonKeeps DEF IInv
<1>4. TypeOK'
  BY <1>0, <1>2 DEF TypeOK, Phases
<1>5. <<phase[c], "error">> \in Transitions
  BY <1>0 DEF Transitions
<1>6. QED BY <1>0, <1>2, <1>3, <1>4, <1>5, PhaseChanges

\* Its answer arrives.
LEMMA ReceiveKeeps ==
  ASSUME IInv, NEW c \in Clients, Receive(c)
  PROVE  Kept
<1>0. /\ TypeOK /\ ClientOK(c) /\ phase[c] = "transcribing"
      /\ UNCHANGED <<started, current, start, capture, microphones, service>> /\ handler' = handler
  BY DEF IInv, ClientsOK, Receive, service
<1>1. current[c][1] = c
  BY <1>0 DEF ClientOK, Latest
<1>2. PICK to \in {"idle", "error"} : phase' = [phase EXCEPT ![c] = to]
  BY <1>0, <1>1 DEF Receive, Fail, Client
<1>3. ServiceOK'
  BY <1>0, ServiceStays DEF IInv
<1>4. TypeOK'
  BY <1>0, <1>2 DEF TypeOK, Phases
<1>5. <<phase[c], to>> \in Transitions
  BY <1>0 DEF Transitions
<1>6. QED BY <1>0, <1>2, <1>3, <1>4, <1>5, PhaseChanges

\* An error fades.
LEMMA ErrorFadesKeeps ==
  ASSUME IInv, NEW c \in Clients, ErrorFades(c)
  PROVE  Kept
<1>0. /\ TypeOK /\ phase[c] = "error" /\ phase' = [phase EXCEPT ![c] = "idle"]
      /\ UNCHANGED <<started, current, start, capture, microphones, service>> /\ handler' = handler
  BY DEF IInv, ClientsOK, ErrorFades, service
<1>1. ServiceOK'
  BY <1>0, ServiceStays DEF IInv
<1>2. TypeOK'
  BY <1>0 DEF TypeOK, Phases
<1>3. <<phase[c], "idle">> \in Transitions
  BY <1>0 DEF Transitions
<1>4. QED BY <1>0, <1>1, <1>2, <1>3, PhaseChanges

\* The service's steps leave the clients alone, and give a dictation without a request none.
LEMMA ServiceNextKeeps ==
  ASSUME IInv, ServiceNext, UNCHANGED client
  PROVE  Kept
<1>1. /\ ServiceOK' /\ \A r \in Requests : handler[r] = "none" => handler'[r] = "none"
      /\ UNCHANGED <<phase, started, current, start, capture, microphones>>
  BY ServiceSteps DEF IInv, client
<1>2. TypeOK'
  BY <1>1 DEF IInv, ClientsOK, TypeOK
<1>3. ASSUME NEW c \in Clients
      PROVE  ClientOK(c)'
  <2>1. ClientOK(c) /\ Latest(c)' = Latest(c)
    BY <1>1 DEF IInv, ClientsOK, Latest
  <2>2. QED BY <1>1, <2>1 DEF ClientOK
<1>4. ASSUME NEW r \in Requests
      PROVE  RequestOK(r)'
  <2>1. RequestOK(r)
    BY DEF IInv, ClientsOK
  <2>2. QED BY <1>1, <2>1 DEF RequestOK
<1>5. QED BY <1>1, <1>2, <1>3, <1>4 DEF Kept, IInv, ClientsOK, Legal

\* Every step.
LEMMA StepKeeps ==
  ASSUME IInv, [Next]_vars
  PROVE  Kept
<1>1. CASE UNCHANGED vars
  <2>1. UNCHANGED <<client, service>>
    BY <1>1 DEF vars
  <2>2. ServiceOK'
    BY <2>1, ServiceStays DEF IInv
  <2>3. ClientsOK'
    BY <2>1 DEF IInv, ClientsOK, TypeOK, ClientOK, RequestOK, Latest, client, service
  <2>4. QED BY <2>1, <2>2, <2>3 DEF Kept, IInv, Legal, client
<1>2. CASE ServiceNext /\ UNCHANGED client
  BY <1>2, ServiceNextKeeps
<1>3. CASE \E r \in Requests : StreamOpened(r) \/ StartReturns(r) \/ StartFails(r)
  BY <1>3, StreamOpenedKeeps, StartReturnsKeeps, StartFailsKeeps
<1>4. CASE \E c \in Clients : \/ StartRecording(c) \/ StopRecording(c) \/ Cancel(c)
                              \/ ConnectionLost(c) \/ Receive(c) \/ ErrorFades(c)
  BY <1>4, StartRecordingKeeps, StopRecordingKeeps, CancelKeeps, ConnectionLostKeeps, ReceiveKeeps,
     ErrorFadesKeeps
<1>5. QED BY <1>1, <1>2, <1>3, <1>4 DEF Next

\* In the beginning nothing is dictated.
LEMMA Starts ==
  ASSUME Init
  PROVE  IInv
<1>1. ServiceOK
  BY ServiceStarts DEF Init
<1>2. TypeOK
  <2>1. MaxDictations \in Nat
    BY DictationAssumption
  <2>2. 0 \in 0..MaxDictations
    BY <2>1
  <2>3. phase \in [Clients -> Phases] /\ started \in [Clients -> 0..MaxDictations]
        /\ current \in [Clients -> Requests \cup {None}] /\ capture \in [Clients -> Requests \cup {None}]
        /\ start \in [Requests -> {"none", "permission", "resuming", "done"}]
    BY <2>2 DEF Init, Phases
  <2>4. QED BY <2>3 DEF Init, TypeOK
<1>3. (\A c \in Clients : ClientOK(c)) /\ \A r \in Requests : RequestOK(r)
  BY RequestParts DEF Init, ServiceInit, ClientOK, RequestOK
<1>4. QED BY <1>1, <1>2, <1>3 DEF IInv, ClientsOK

\* The inductive invariant holds throughout.
THEOREM DictationInvariant == Spec => []IInv
<1>1. Init => IInv
  BY Starts
<1>2. IInv /\ [Next]_vars => IInv'
  BY StepKeeps DEF Kept
<1>3. QED BY <1>1, <1>2, PTL DEF Spec
-----------------------------------------------------------------------------
(* What the invariant gives.                                               *)

\* In whatever order uploads are admitted, break off, are cancelled or fail, queuedBytes and
\* reservedBytes are the sums they stand for and the limits are kept: no byte and no place of the
\* service is ever lost, for any number of clients, uploads and any limits
\* (SpeechService.admitUpload, enqueueReserved, releaseReservation, abortQueued, pump, close).
THEOREM CapacityIsKept == Spec => []CapacityKept
<1>1. IInv => CapacityKept
  <2>1. SUFFICES ASSUME ServiceOK
                 PROVE  CapacityKept
    BY DEF IInv
  <2> DEFINE f == [i \in DOMAIN queue |-> size[queue[i]]]
  <2>2. /\ queue \in Seq(Requests) /\ \A i, j \in DOMAIN queue : queue[i] = queue[j] => i = j
        /\ DOMAIN queue = 1..Len(queue) /\ Len(queue) \in Int
    BY <2>1 DEF ServiceOK, ServiceTypeOK, IsInjective
  <2>3. IsFiniteSet(DOMAIN queue)
    BY <2>2, FS_Interval
  <2>4. \A i \in DOMAIN queue : f[i] \in Int /\ size[queue[i]] = f[i]
    BY <2>1, <2>2, Finite DEF Range, Sizes
  <2>5. SumFunctionOnSet(f, DOMAIN queue) = SumFunctionOnSet(size, {queue[i] : i \in DOMAIN queue})
    <3> DEFINE h == queue
               S == DOMAIN queue
    <3>1. /\ IsFiniteSet(S) /\ \A i \in S : f[i] \in Int /\ size[h[i]] = f[i]
          /\ \A i, j \in S : h[i] = h[j] => i = j
      BY <2>2, <2>3, <2>4
    <3> HIDE DEF f, h, S
    <3>2. SumFunctionOnSet(f, S) = SumFunctionOnSet(size, {h[i] : i \in S})
      BY <3>1, SumRenamed
    <3>3. QED BY <3>2 DEF h, S
  <2>6. queuedBytes = SumFunction(f)
    BY <2>1, <2>5 DEF ServiceOK, Accounts, Range, SumFunction
  <2>7. \A r \in Requests : r \in DOMAIN reservations => handler[r] = "reading"
    BY <2>1 DEF ServiceOK, Places, Held
  <2>8. QED BY <2>1, <2>6, <2>7 DEF CapacityKept, ServiceOK, Accounts, Places, SumFunction
<1>2. QED BY <1>1, DictationInvariant, PTL

\* A recording that was cancelled while it waited is never given to the transcriber: what it is
\* given was in the queue, or joins it uncancelled, and the queue holds no cancelled recording
\* (abortQueued, enqueueReserved, pump).
THEOREM CancelledStaysOut == Spec => CancelledNotTranscribed
<1>1. IInv /\ [Next]_vars => [active' # active /\ active' # None => active' \notin aborted]_service
  <2>1. SUFFICES ASSUME IInv, [Next]_vars, ~UNCHANGED service
                 PROVE  active' # active /\ active' # None => active' \notin aborted
    OBVIOUS
  <2>2. CASE ServiceNext
    BY <2>1, <2>2, ServiceSteps DEF IInv
  <2>3. CASE \E c \in Clients : StopRecording(c) \/ Cancel(c) \/ ConnectionLost(c)
    BY <2>3 DEF StopRecording, Cancel, ConnectionLost
  <2>4. QED BY <2>1, <2>2, <2>3
            DEF Next, vars, StreamOpened, StartReturns, StartFails, StartRecording, Receive, ErrorFades
<1>2. QED BY <1>1, DictationInvariant, PTL DEF Spec, CancelledNotTranscribed

\* No step moves a dictation in a way transitionSpeechPhase throws on: a start or an answer that
\* comes late finds another generation and leaves the phase of the dictation that followed
\* (startRecording, fail, stateMachine.ts).
THEOREM MovesAreLegal == Spec => MovesLegal
<1>1. IInv /\ [Next]_vars => [\A c \in Clients : \/ phase'[c] = phase[c] \/ Refused(c)
                                                 \/ <<phase[c], phase'[c]>> \in Transitions]_vars
  BY StepKeeps DEF Kept, Legal
<1>2. QED BY <1>1, DictationInvariant, PTL DEF Spec, MovesLegal

-----------------------------------------------------------------------------
(* The microphone.                                                         *)

\* What a client's recorder holds while no more than one of its starts waits.
HeldBy(c) ==
  /\ capture[c] # None => capture[c][1] = c
  /\ phase[c] = "recording" => /\ capture[c] = current[c] /\ current[c] \in microphones
                               /\ Waiting(c) = {}
  /\ \A r \in microphones : r[1] = c => r = capture[c]
  /\ phase[c] # "recording" /\ Waiting(c) = {} => capture[c] = None
  /\ \A r \in Waiting(c) :
       /\ start[r] = "permission" => capture[c] = None
       /\ start[r] = "resuming" => capture[c] \in {None, r}
       /\ start[r] = "resuming" /\ current[c] = r => capture[c] = r /\ r \in microphones

AllHeld == \A c \in Clients : HeldBy(c)
OneStart == \A c \in Clients : Cardinality(Waiting(c)) <= 1

\* A set of one element at most.
LEMMA AtMostOne ==
  ASSUME NEW W, IsFiniteSet(W), Cardinality(W) <= 1, NEW x \in W, NEW y \in W
  PROVE  x = y
<1>1. Cardinality(W) \in Nat
  BY FS_CardinalityType
<1>2. Cardinality(W) # 0
  BY FS_EmptySet
<1>3. Cardinality(W) = 1
  BY <1>1, <1>2
<1>4. \E z : W = {z}
  BY <1>3, FS_Singleton
<1>5. QED BY <1>4

\* The starts of a client that wait are finitely many, before a step and after it.
LEMMA FewWait ==
  ASSUME NEW c
  PROVE  IsFiniteSet(Waiting(c)) /\ IsFiniteSet(Waiting(c)')
<1>1. Waiting(c) \subseteq Requests /\ Waiting(c)' \subseteq Requests
  BY DEF Waiting
<1>2. QED BY <1>1, FS_Subset

\* What one client's recorder does is nothing to another's.
LEMMA OthersHeld ==
  ASSUME AllHeld, TypeOK, NEW c \in Clients, HeldBy(c)',
         \A d \in Clients \ {c} : phase'[d] = phase[d] /\ current'[d] = current[d] /\ capture'[d] = capture[d],
         \A r \in Requests : r[1] # c =>
           start'[r] = start[r] /\ (r \in microphones' <=> r \in microphones),
         \A d \in Clients : phase[d] = "recording" => current[d] \in Requests /\ current[d][1] = d,
         microphones' \subseteq Requests
  PROVE  AllHeld'
<1>1. ASSUME NEW d \in Clients, d # c
      PROVE  HeldBy(d)'
  <2>1. HeldBy(d) /\ phase'[d] = phase[d] /\ current'[d] = current[d] /\ capture'[d] = capture[d]
    BY <1>1 DEF AllHeld
  <2>2. Waiting(d)' = Waiting(d) /\ \A r \in Waiting(d) : start'[r] = start[r] /\ r \in Requests /\ r[1] # c
    BY <1>1 DEF Waiting, Client
  <2>3. \A r \in microphones' : r[1] = d => r \in microphones
    BY <1>1
  <2>4. \A r \in Waiting(d) : r \in microphones' <=> r \in microphones
    BY <2>2
  <2>5. phase[d] = "recording" => (current[d] \in microphones' <=> current[d] \in microphones)
    BY <1>1
  <2>6. QED BY <2>1, <2>2, <2>3, <2>4, <2>5 DEF HeldBy
<1>2. QED BY <1>1 DEF AllHeld
\* What the invariant says of the recordings.
LEMMA RecordsOwn ==
  ASSUME IInv
  PROVE  /\ TypeOK
         /\ \A d \in Clients : phase[d] = "recording" => current[d] \in Requests /\ current[d][1] = d
         /\ \A r \in Requests : RequestOK(r)
BY DEF IInv, ClientsOK, ClientOK, Latest

\* A recorder that is cancelled holds nothing, and turns its microphone off.
LEMMA Cancelled ==
  ASSUME TypeOK, NEW c \in Clients, HeldBy(c), NEW E, CancelRecorder(c, E),
         \A r \in E : r[1] = c
  PROVE  /\ capture'[c] = None /\ \A d \in Clients \ {c} : capture'[d] = capture[d]
         /\ \A r \in microphones' : r \in Requests /\ r[1] # c
         /\ \A r \in Requests : r[1] # c => (r \in microphones' <=> r \in microphones)
         /\ microphones' \subseteq Requests
<1>1. /\ microphones' = microphones \ ({capture[c]} \cup E) /\ capture' = [capture EXCEPT ![c] = None]
      /\ capture \in [Clients -> Requests \cup {None}] /\ microphones \subseteq Requests
  BY DEF CancelRecorder, TypeOK
<1>2. \A r \in microphones : r[1] = c => r = capture[c]
  BY DEF HeldBy
<1>3. capture[c] # None => capture[c][1] = c
  BY DEF HeldBy
<1>4. capture[c] \in Requests => capture[c][1] = c
  BY <1>3
<1>5. QED BY <1>1, <1>2, <1>4

\* A new dictation begins with the recorder free, or is refused and frees it.
LEMMA StartRecordingHolds ==
  ASSUME IInv, AllHeld, OneStart, OneStart', NEW c \in Clients, StartRecording(c)
  PROVE  AllHeld'
<1> DEFINE n == started[c] + 1
           r == <<c, n>>
<1>0. /\ TypeOK /\ HeldBy(c)
      /\ \A x \in Requests : RequestOK(x)
      /\ \A d \in Clients : phase[d] = "recording" => current[d] \in Requests /\ current[d][1] = d
      /\ phase[c] # "recording" /\ started[c] < MaxDictations
      /\ current' = [current EXCEPT ![c] = r]
      /\ \/ /\ capture[c] = None /\ start' = [start EXCEPT ![r] = "permission"]
            /\ phase' = [phase EXCEPT ![c] = "requestingPermission"]
            /\ UNCHANGED <<capture, microphones>>
         \/ /\ start' = [start EXCEPT ![r] = "done"]
            /\ phase' = [phase EXCEPT ![c] = "error"]
            /\ CancelRecorder(c, {})
  BY RecordsOwn DEF AllHeld, StartRecording
<1>1. n \in 1..MaxDictations /\ started[c] \in Nat /\ n = started[c] + 1
  BY <1>0, DictationAssumption DEF TypeOK
<1>2. r \in Requests /\ r[1] = c /\ r[2] = n
  BY <1>1, RequestParts
<1>3. start[r] = "none"
  <2>1. r[2] > started[r[1]]
    BY <1>1, <1>2
  <2>2. QED BY <1>0, <1>2, <2>1 DEF RequestOK
<1> HIDE DEF r, n
<1>4. /\ current'[c] = r /\ phase'[c] # "recording"
      /\ \A x \in Requests : x # r => start'[x] = start[x]
      /\ \A d \in Clients \ {c} : phase'[d] = phase[d] /\ current'[d] = current[d]
      /\ r \notin Waiting(c)
  BY <1>0, <1>2, <1>3 DEF TypeOK, Waiting
<1>5. CASE /\ capture[c] = None /\ start' = [start EXCEPT ![r] = "permission"]
           /\ UNCHANGED <<capture, microphones>>
  <2>1. start'[r] = "permission"
    BY <1>0, <1>2, <1>5 DEF TypeOK
  <2>2. r \in Waiting(c)' /\ Cardinality(Waiting(c)') <= 1
    BY <1>2, <2>1 DEF Waiting, Client, OneStart
  <2>3. \A x \in Waiting(c)' : x = r
    BY <2>2, FewWait, AtMostOne
  <2>4. HeldBy(c)'
    BY <1>0, <1>4, <1>5, <2>1, <2>2, <2>3 DEF HeldBy
  <2>5. \A x \in Requests : x[1] # c => start'[x] = start[x]
    BY <1>2, <1>4
  <2>6. QED BY <1>0, <1>4, <1>5, <2>4, <2>5, OthersHeld DEF TypeOK
<1>6. CASE start' = [start EXCEPT ![r] = "done"] /\ CancelRecorder(c, {})
  <2>1. /\ capture'[c] = None /\ \A d \in Clients \ {c} : capture'[d] = capture[d]
        /\ \A x \in microphones' : x \in Requests /\ x[1] # c
        /\ \A x \in Requests : x[1] # c => (x \in microphones' <=> x \in microphones)
        /\ microphones' \subseteq Requests
    BY <1>0, <1>6, Cancelled
  <2>2. start'[r] = "done"
    BY <1>0, <1>2, <1>6 DEF TypeOK
  <2>3. \A x \in Waiting(c)' : x # r
    BY <2>2 DEF Waiting
  <2>4. HeldBy(c)'
    BY <1>4, <2>1, <2>3 DEF HeldBy
  <2>5. \A x \in Requests : x[1] # c => start'[x] = start[x]
    BY <1>2, <1>4
  <2>6. QED BY <1>0, <1>4, <2>1, <2>4, <2>5, OthersHeld
<1>7. QED BY <1>0, <1>5, <1>6

\* The only start that waits gets the microphone.
LEMMA StreamOpenedHolds ==
  ASSUME IInv, AllHeld, OneStart, NEW r \in Requests, StreamOpened(r)
  PROVE  AllHeld'
<1> DEFINE c == r[1]
<1>0. /\ TypeOK /\ c \in Clients /\ HeldBy(c)
      /\ \A d \in Clients : phase[d] = "recording" => current[d] \in Requests /\ current[d][1] = d
      /\ start[r] = "permission" /\ start' = [start EXCEPT ![r] = "resuming"]
      /\ capture' = [capture EXCEPT ![c] = r] /\ microphones' = microphones \cup {r}
      /\ UNCHANGED <<phase, started, current>> /\ microphones \subseteq Requests
  BY RecordsOwn, RequestParts DEF AllHeld, StreamOpened, Client, TypeOK
<1>1. r \in Waiting(c) /\ \A x \in Waiting(c) : x = r
  <2>1. r \in Waiting(c) /\ Cardinality(Waiting(c)) <= 1
    BY <1>0 DEF Waiting, Client, OneStart
  <2>2. QED BY <2>1, FewWait, AtMostOne
<1>2. capture[c] = None /\ phase[c] # "recording"
  BY <1>0, <1>1 DEF HeldBy
<1>3. /\ capture'[c] = r /\ start'[r] = "resuming"
      /\ \A x \in Requests : x # r => start'[x] = start[x]
      /\ \A d \in Clients \ {c} : capture'[d] = capture[d]
  BY <1>0 DEF TypeOK
<1>4. Waiting(c)' = Waiting(c)
  BY <1>0, <1>3 DEF Waiting
<1>5. \A x \in microphones' : x[1] = c => x = r
  <2>1. \A x \in microphones : x[1] # c
    BY <1>0, <1>2 DEF HeldBy
  <2>2. QED BY <1>0, <2>1
<1>6. r[1] = c /\ r \in microphones' /\ \A x \in Requests : x[1] # c => x # r
  BY <1>0
<1> HIDE DEF c
<1>7. HeldBy(c)'
  BY <1>0, <1>1, <1>2, <1>3, <1>4, <1>5, <1>6 DEF HeldBy
<1>8. QED BY <1>0, <1>3, <1>6, <1>7, OthersHeld

\* A start ends: it records, or its microphone goes off.
LEMMA StartEndsHolds ==
  ASSUME IInv, AllHeld, OneStart, NEW r \in Requests, StartReturns(r) \/ StartFails(r)
  PROVE  AllHeld'
<1> DEFINE c == r[1]
<1>0. /\ TypeOK /\ c \in Clients /\ HeldBy(c) /\ RequestOK(r)
      /\ \A d \in Clients : phase[d] = "recording" => current[d] \in Requests /\ current[d][1] = d
      /\ start[r] \in {"permission", "resuming"} /\ start' = [start EXCEPT ![r] = "done"]
      /\ UNCHANGED <<started, current>> /\ microphones \subseteq Requests /\ r[1] = c
  BY RecordsOwn, RequestParts DEF AllHeld, StartReturns, StartFails, Client, TypeOK
<1> HIDE DEF c
<1>1. r \in Waiting(c) /\ \A x \in Waiting(c) : x = r
  <2>1. r \in Waiting(c) /\ Cardinality(Waiting(c)) <= 1
    BY <1>0 DEF Waiting, Client, OneStart
  <2>2. QED BY <2>1, FewWait, AtMostOne
<1>2. phase[c] # "recording"
  BY <1>0, <1>1 DEF HeldBy
<1>3. /\ start'[r] = "done" /\ \A x \in Requests : x # r => start'[x] = start[x]
  BY <1>0 DEF TypeOK
<1>4. Waiting(c)' = {}
  BY <1>1, <1>3 DEF Waiting
<1>5. \A x \in Requests : x[1] # c => start'[x] = start[x]
  BY <1>0, <1>3
<1>6. CASE /\ start[r] = "resuming" /\ current[c] = r
           /\ phase' = [phase EXCEPT ![c] = "recording"] /\ UNCHANGED <<capture, microphones>>
  <2>1. capture[c] = r /\ r \in microphones
    BY <1>0, <1>1, <1>6 DEF HeldBy
  <2>2. phase'[c] = "recording" /\ \A d \in Clients \ {c} : phase'[d] = phase[d]
    BY <1>0, <1>6 DEF TypeOK
  <2>3. HeldBy(c)'
    BY <1>0, <1>4, <1>6, <2>1, <2>2 DEF HeldBy
  <2>4. QED BY <1>0, <1>5, <1>6, <2>2, <2>3, OthersHeld
<1>7. ASSUME NEW E, CancelRecorder(c, E), \A x \in E : x[1] = c,
             phase'[c] # "recording", \A d \in Clients \ {c} : phase'[d] = phase[d]
      PROVE  AllHeld'
  <2>1. /\ capture'[c] = None /\ \A d \in Clients \ {c} : capture'[d] = capture[d]
        /\ \A x \in microphones' : x \in Requests /\ x[1] # c
        /\ \A x \in Requests : x[1] # c => (x \in microphones' <=> x \in microphones)
        /\ microphones' \subseteq Requests
    BY <1>0, <1>7, Cancelled
  <2>2. HeldBy(c)'
    BY <1>4, <1>7, <2>1 DEF HeldBy
  <2>3. QED BY <1>0, <1>5, <1>7, <2>1, <2>2, OthersHeld
<1>8. CASE StartReturns(r)
  <2>1. CASE current[c] = r
    BY <1>0, <1>6, <1>8, <2>1 DEF StartReturns, Client
  <2>2. CASE current[c] # r
    <3>1. CancelRecorder(c, {}) /\ UNCHANGED phase
      BY <1>0, <1>8, <2>2 DEF StartReturns, Client
    <3>2. QED BY <1>2, <1>7, <3>1
  <2>3. QED BY <2>1, <2>2
<1>9. CASE StartFails(r)
  <2>1. CancelRecorder(c, {r}) /\ Fail(r) /\ \A x \in {r} : x[1] = c
    BY <1>0, <1>9 DEF StartFails, Client
  <2>2. phase'[c] # "recording" /\ \A d \in Clients \ {c} : phase'[d] = phase[d]
    BY <1>0, <1>2, <2>1 DEF Fail, Client, TypeOK
  <2>3. QED BY <1>7, <2>1, <2>2
<1>10. QED BY <1>8, <1>9
\* Stopping and cancelling turn the microphone off.
LEMMA StopHolds ==
  ASSUME IInv, AllHeld, NEW c \in Clients, StopRecording(c) \/ Cancel(c)
  PROVE  AllHeld'
<1>0. /\ TypeOK /\ HeldBy(c) /\ phase[c] # "idle" /\ UNCHANGED start
      /\ \A d \in Clients : phase[d] = "recording" => current[d] \in Requests /\ current[d][1] = d
  BY RecordsOwn DEF AllHeld, StopRecording, Cancel
<1>1. CancelRecorder(c, {})
  <2>1. phase[c] = "recording" => capture[c] # None
    BY <1>0 DEF HeldBy
  <2>2. QED BY <2>1 DEF StopRecording, Cancel
<1>2. /\ capture'[c] = None /\ \A d \in Clients \ {c} : capture'[d] = capture[d]
      /\ \A x \in microphones' : x \in Requests /\ x[1] # c
      /\ \A x \in Requests : x[1] # c => (x \in microphones' <=> x \in microphones)
      /\ microphones' \subseteq Requests
  BY <1>0, <1>1, Cancelled
<1>3. phase[c] = "recording" => capture[c] # None
  BY <1>0 DEF HeldBy
<1>4. /\ phase'[c] # "recording" /\ current'[c] \in {current[c], None}
      /\ \A d \in Clients \ {c} : phase'[d] = phase[d] /\ current'[d] = current[d]
  BY <1>0, <1>3 DEF StopRecording, Cancel, TypeOK
<1>5. Waiting(c)' = Waiting(c) /\ \A x \in Waiting(c) : start'[x] = start[x] /\ x \in Requests
  BY <1>0 DEF Waiting
<1>6. \A x \in Waiting(c) : start[x] = "resuming" => current'[c] # x
  <2>1. SUFFICES ASSUME NEW x \in Waiting(c), start[x] = "resuming", current'[c] = x
                 PROVE  FALSE
    OBVIOUS
  <2>2. x \in Requests /\ x[1] = c /\ x # None
    BY DEF Waiting, Client
  <2>3. current[c] = x
    BY <1>4, <2>1, <2>2
  <2>4. RequestOK(x)
    BY <2>2, RecordsOwn
  <2>5. phase[c] = "requestingPermission"
    BY <2>1, <2>2, <2>3, <2>4 DEF RequestOK
  <2>6. CASE StopRecording(c)
    BY <2>5, <2>6 DEF StopRecording
  <2>7. CASE Cancel(c)
    BY <1>0, <2>1, <2>2, <2>7 DEF Cancel, TypeOK
  <2>8. QED BY <2>6, <2>7
<1>7. HeldBy(c)'
  BY <1>2, <1>4, <1>5, <1>6 DEF HeldBy
<1>8. QED BY <1>0, <1>2, <1>4, <1>7, OthersHeld

\* An answer, a lost connection and an error that fades are nothing to the recorder.
LEMMA AnswerHolds ==
  ASSUME IInv, AllHeld, NEW c \in Clients, ConnectionLost(c) \/ Receive(c) \/ ErrorFades(c)
  PROVE  AllHeld'
<1>0. /\ TypeOK /\ HeldBy(c) /\ ClientOK(c) /\ UNCHANGED <<start, current, capture, microphones>>
      /\ phase[c] \in {"transcribing", "error"}
      /\ \A d \in Clients : phase[d] = "recording" => current[d] \in Requests /\ current[d][1] = d
  BY RecordsOwn DEF AllHeld, ConnectionLost, Receive, ErrorFades, IInv, ClientsOK
<1>1. phase[c] = "transcribing" => current[c][1] = c
  BY <1>0 DEF ClientOK, Latest
<1>2. /\ phase'[c] # "recording" /\ \A d \in Clients \ {c} : phase'[d] = phase[d]
  BY <1>0, <1>1 DEF ConnectionLost, Receive, ErrorFades, Fail, Client, TypeOK
<1>3. Waiting(c)' = Waiting(c) /\ \A x \in Waiting(c) : start'[x] = start[x]
  BY <1>0 DEF Waiting
<1>4. HeldBy(c)'
  BY <1>0, <1>2, <1>3 DEF HeldBy
<1>5. microphones \subseteq Requests
  BY <1>0 DEF TypeOK
<1>6. QED BY <1>0, <1>2, <1>4, <1>5, OthersHeld

\* While no more than one start of a client waits at a time, the recorder holds what it should.
LEMMA StepHolds ==
  ASSUME IInv, AllHeld, OneStart, OneStart', [Next]_vars
  PROVE  AllHeld'
<1>1. CASE UNCHANGED client
  BY <1>1 DEF client, AllHeld, HeldBy, Waiting
<1>2. CASE \E r \in Requests : StreamOpened(r) \/ StartReturns(r) \/ StartFails(r)
  BY <1>2, StreamOpenedHolds, StartEndsHolds
<1>3. CASE \E c \in Clients : \/ StartRecording(c) \/ StopRecording(c) \/ Cancel(c)
                              \/ ConnectionLost(c) \/ Receive(c) \/ ErrorFades(c)
  BY <1>3, StartRecordingHolds, StopHolds, AnswerHolds
<1>4. QED BY <1>1, <1>2, <1>3 DEF Next, vars

\* While no more than one start of a client waits at a time, a recording has the microphone and
\* nothing else keeps it on: a start that was cancelled, or was refused, gives it back
\* (startRecording, cancel, usePcmRecorder).
THEOREM MicrophoneIsGivenBack == Spec => OneStartHoldsTheMicrophone
<1>1. Init => AllHeld
  BY DEF Init, AllHeld, HeldBy, Waiting
<1>2. IInv /\ AllHeld /\ OneStart /\ OneStart' /\ [Next]_vars => AllHeld'
  BY StepHolds
<1>3. IInv => TypeOK
  BY DEF IInv, ClientsOK
<1>4. AllHeld => MicrophoneHeld
  BY DEF AllHeld, HeldBy, MicrophoneHeld, Client
<1>5. OneStart <=> \A c \in Clients : Cardinality(Waiting(c)) <= 1
  BY DEF OneStart
<1>6. QED BY <1>1, <1>2, <1>3, <1>4, <1>5, DictationInvariant, PTL DEF Spec, OneStartHoldsTheMicrophone
=============================================================================
