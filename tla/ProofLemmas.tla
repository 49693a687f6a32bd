------------------------------ MODULE ProofLemmas ------------------------------
(***************************************************************************)
(* Facts that several proofs share: least elements, sums of a function     *)
(* over a finite set (SumFunctionOnSet of module Functions), streams of    *)
(* numbered messages that are sent, received and joined in order, and what *)
(* a connection carries of a stream (Carried) when messages are appended   *)
(* to it and taken from it.  An induction is a choice of a minimal         *)
(* counterexample, in the well-founded orders of the library.              *)
(***************************************************************************)
EXTENDS Frames, Integers, Functions, FiniteSetsExt, FiniteSetTheorems, SequenceTheorems, WellFoundedInduction, TLAPS

(* Least elements.                                                         *)

\* A set of natural numbers that is not empty has a least element.
LEMMA LeastExists ==
  ASSUME NEW T \in SUBSET Nat, T # {}
  PROVE  \E x \in T : \A y \in T : x <= y
<1>1. IsWellFoundedOn({ss \in Nat \X Nat : ss[1] < ss[2]}, Nat)
  BY NatLessThanWellFounded DEF OpToRel
<1>2. PICK x \in T : \A y \in T : <<y, x>> \notin {ss \in Nat \X Nat : ss[1] < ss[2]}
  BY <1>1, WFMin
<1>3. ASSUME NEW y \in T
      PROVE  x <= y
  <2>1. ~ (y < x)
    BY <1>2
  <2>2. QED BY <2>1
<1>4. QED BY <1>3

\* Min is that element.
LEMMA MinIsLeast ==
  ASSUME NEW T \in SUBSET Nat, T # {}
  PROVE  Min(T) \in T /\ \A y \in T : Min(T) <= y
<1>1. \E x \in T : \A y \in T : x <= y
  BY LeastExists
<1>2. QED BY <1>1 DEF Min

\* Among the finite sets of a collection there is a smallest one.
LEMMA SmallestSet ==
  ASSUME NEW S, NEW C \in SUBSET FiniteSubsetsOf(S), C # {}
  PROVE  \E T \in C : \A U \in C : U \subseteq T => U = T
<1>1. \E T \in C : \A U \in C : <<U, T>> \notin StrictSubsetOrdering(S)
  BY WFMin, FS_StrictSubsetOrderingWellFounded
<1>2. QED BY <1>1 DEF StrictSubsetOrdering, FiniteSubsetsOf

-----------------------------------------------------------------------------
(* Sums.  SumFunctionOnSet removes one element after the other, in the     *)
(* order of CHOOSE.                                                        *)

Pick(s) == CHOOSE x \in s : TRUE
Adds(sum, f, S) ==
  sum = [s \in SUBSET S |-> IF s = {} THEN 0 ELSE f[Pick(s)] + sum[s \ {Pick(s)}]]
Total(f, S) == (CHOOSE sum : Adds(sum, f, S))[S]

\* Total is the sum.
LEMMA SumIsTotal ==
  ASSUME NEW f, NEW S
  PROVE  SumFunctionOnSet(f, S) = Total(f, S)
BY Zenon DEF SumFunctionOnSet, FoldFunctionOnSet, MapThenFoldSet, Adds, Pick, Total

\* What Pick picks is an element.
LEMMA PickIn ==
  ASSUME NEW s, s # {}
  PROVE  Pick(s) \in s
BY DEF Pick

\* What such a function sums up to does not depend on the set it is defined over.
LEMMA AddsUnique ==
  ASSUME NEW f, NEW S, NEW T, IsFiniteSet(T), NEW g, NEW h, Adds(g, f, S), Adds(h, f, T),
         T \subseteq S
  PROVE  g[T] = h[T]
<1> DEFINE C == {U \in SUBSET T : g[U] # h[U]}
<1>1. SUFFICES C # {} => FALSE
  OBVIOUS
<1>2. HAVE C # {}
<1>3. C \in SUBSET FiniteSubsetsOf(T)
  BY FS_FiniteSubsetsOfFinite
<1>4. PICK U \in C : \A V \in C : V \subseteq U => V = U
  <2> HIDE DEF C
  <2> QED BY <1>2, <1>3, SmallestSet
<1>5. U # {}
  BY <1>4 DEF Adds
<1>6. Pick(U) \in U
  BY <1>5, PickIn
<1>7. g[U \ {Pick(U)}] = h[U \ {Pick(U)}]
  BY <1>4, <1>6
<1>8. g[U] = f[Pick(U)] + g[U \ {Pick(U)}]
  BY <1>5, <1>6, <1>4, Zenon DEF Adds
<1>9. h[U] = f[Pick(U)] + h[U \ {Pick(U)}]
  BY <1>5, <1>6, <1>4, Zenon DEF Adds
<1>10. QED BY <1>4, <1>7, <1>8, <1>9

\* There is one for every finite set.
LEMMA AddsExists ==
  ASSUME NEW f, NEW S, IsFiniteSet(S)
  PROVE  \E sum : Adds(sum, f, S)
<1> DEFINE C == {T \in SUBSET S : ~ \E sum : Adds(sum, f, T)}
<1>1. SUFFICES C # {} => FALSE
  OBVIOUS
<1>2. HAVE C # {}
<1>3. C \in SUBSET FiniteSubsetsOf(S)
  BY FS_FiniteSubsetsOfFinite
<1>4. PICK T \in C : \A V \in C : V \subseteq T => V = T
  <2> HIDE DEF C
  <2> QED BY <1>2, <1>3, SmallestSet
<1> DEFINE sumOf(U) == CHOOSE sum : Adds(sum, f, U)
           sum      == [s \in SUBSET T |-> IF s = {} THEN 0 ELSE f[Pick(s)] + Total(f, s \ {Pick(s)})]
<1>5. \A U \in SUBSET T : U # T => Adds(sumOf(U), f, U)
  BY <1>4
<1>6. \A U \in SUBSET T : Total(f, U) = sumOf(U)[U]
  BY DEF Total
<1>7. \A U \in SUBSET T : U # T => sum[U] = Total(f, U)
  <2>1. SUFFICES ASSUME NEW U \in SUBSET T, U # T, U # {}
                 PROVE  sum[U] = Total(f, U)
    <3>1. ASSUME {} # T
          PROVE  Total(f, {}) = 0
      <4>1. \A g : Adds(g, f, {}) => g[{}] = 0
        BY DEF Adds
      <4>2. Adds(sumOf({}), f, {}) /\ Total(f, {}) = sumOf({})[{}]
        BY <1>5, <1>6, <3>1
      <4> HIDE DEF sumOf
      <4>3. QED BY <4>1, <4>2
    <3>2. QED BY <3>1
  <2> DEFINE V == U \ {Pick(U)}
  <2>2. Pick(U) \in U
    BY <2>1, PickIn
  <2>3. Adds(sumOf(U), f, U) /\ Adds(sumOf(V), f, V)
    BY <1>5, <2>1, <2>2
  <2>4. IsFiniteSet(V)
    BY <1>4, FS_Subset
  <2>5. sumOf(U)[V] = sumOf(V)[V]
    <3> HIDE DEF sumOf
    <3> QED BY <2>3, <2>4, AddsUnique
  <2>6. sumOf(U)[U] = f[Pick(U)] + sumOf(U)[V]
    <3>1. \A g : Adds(g, f, U) => g[U] = f[Pick(U)] + g[V]
      BY <2>1, <2>2, Zenon DEF Adds
    <3> HIDE DEF sumOf
    <3> QED BY <2>3, <3>1
  <2>7. sum[U] = f[Pick(U)] + Total(f, V)
    BY <2>1, Zenon
  <2>8. Total(f, V) = sumOf(V)[V] /\ Total(f, U) = sumOf(U)[U]
    BY <1>6, <2>2
  <2> HIDE DEF sumOf, sum, V
  <2>9. QED BY <2>5, <2>6, <2>7, <2>8
<1>8. Adds(sum, f, T)
  <2>1. \A s \in SUBSET T : s # {} => Total(f, s \ {Pick(s)}) = sum[s \ {Pick(s)}]
    <3>1. SUFFICES ASSUME NEW s \in SUBSET T, s # {}
                   PROVE  Total(f, s \ {Pick(s)}) = sum[s \ {Pick(s)}]
      OBVIOUS
    <3>2. Pick(s) \in s
      BY <3>1, PickIn
    <3> HIDE DEF sum
    <3>3. QED BY <1>7, <3>2
  <2>2. sum = [s \in SUBSET T |-> IF s = {} THEN 0 ELSE f[Pick(s)] + sum[s \ {Pick(s)}]]
    <3>1. \A s \in SUBSET T : (IF s = {} THEN 0 ELSE f[Pick(s)] + Total(f, s \ {Pick(s)}))
                            = (IF s = {} THEN 0 ELSE f[Pick(s)] + sum[s \ {Pick(s)}])
      <4> HIDE DEF sum
      <4> QED BY <2>1
    <3>2. QED BY <3>1, Zenon
  <2> HIDE DEF sum
  <2>3. QED BY <2>2 DEF Adds
<1>9. QED BY <1>4, <1>8

\* The equation of SumFunctionOnSet, for the element CHOOSE picks.
LEMMA SumEquation ==
  ASSUME NEW f, NEW S, IsFiniteSet(S)
  PROVE  /\ SumFunctionOnSet(f, {}) = 0
         /\ S # {} => SumFunctionOnSet(f, S) = f[Pick(S)] + SumFunctionOnSet(f, S \ {Pick(S)})
<1> DEFINE sumOf(U) == CHOOSE sum : Adds(sum, f, U)
<1>1. \A U : IsFiniteSet(U) => Adds(sumOf(U), f, U)
  BY AddsExists
<1>2. \A U : SumFunctionOnSet(f, U) = sumOf(U)[U]
  BY SumIsTotal DEF Total
<1>3. \A g : Adds(g, f, {}) => g[{}] = 0
  BY DEF Adds
<1>4. IsFiniteSet({})
  BY FS_EmptySet
<1> HIDE DEF sumOf
<1>5. SUFFICES ASSUME S # {}
               PROVE  SumFunctionOnSet(f, S) = f[Pick(S)] + SumFunctionOnSet(f, S \ {Pick(S)})
  BY <1>1, <1>2, <1>3, <1>4
<1>6. Pick(S) \in S
  BY <1>5, PickIn
<1> DEFINE V == S \ {Pick(S)}
<1>7. IsFiniteSet(V)
  BY FS_Subset
<1>8. sumOf(S)[V] = sumOf(V)[V]
  BY <1>1, <1>7, AddsUnique
<1>9. \A g : Adds(g, f, S) => g[S] = f[Pick(S)] + g[V]
  BY <1>5, <1>6, Zenon DEF Adds
<1> HIDE DEF V
<1>10. sumOf(S)[S] = f[Pick(S)] + sumOf(V)[V]
  BY <1>1, <1>8, <1>9
<1>11. QED BY <1>2, <1>10 DEF V

\* A sum of integers is an integer, and any element can be taken out of it.
LEMMA SumRemove ==
  ASSUME NEW f, NEW S, IsFiniteSet(S), \A x \in S : f[x] \in Int
  PROVE  /\ SumFunctionOnSet(f, S) \in Int
         /\ \A x \in S : SumFunctionOnSet(f, S) = f[x] + SumFunctionOnSet(f, S \ {x})
<1> DEFINE sum(T)  == SumFunctionOnSet(f, T)
           good(T) == sum(T) \in Int /\ \A x \in T : sum(T) = f[x] + sum(T \ {x})
           C       == {T \in SUBSET S : ~good(T)}
<1>1. SUFFICES C # {} => FALSE
  BY Zenon
<1>2. HAVE C # {}
<1>3. C \in SUBSET FiniteSubsetsOf(S)
  BY FS_FiniteSubsetsOfFinite
<1>4. PICK T \in C : \A U \in C : U \subseteq T => U = T
  <2> HIDE DEF C
  <2> QED BY <1>2, <1>3, SmallestSet
<1>5. \A U \in SUBSET T : U # T => good(U)
  BY <1>4
<1>6. \A U \in SUBSET T : IsFiniteSet(U) /\ \A x \in U : f[x] \in Int
  BY <1>4, FS_Subset
<1> HIDE DEF sum
<1>7. \A U \in SUBSET T : U # {} => Pick(U) \in U /\ sum(U) = f[Pick(U)] + sum(U \ {Pick(U)})
  BY <1>6, SumEquation, PickIn DEF sum
<1>8. sum({}) = 0
  BY <1>6, SumEquation DEF sum
<1>9. T # {}
  <2>1. good({})
    BY <1>8
  <2> HIDE DEF good
  <2>2. QED BY <1>4, <2>1
<1>10. good(T \ {Pick(T)})
  BY <1>5, <1>7, <1>9
<1>11. sum(T) \in Int
  <2>1. Pick(T) \in T /\ sum(T) = f[Pick(T)] + sum(T \ {Pick(T)})
    BY <1>7, <1>9
  <2>2. f[Pick(T)] \in Int /\ sum(T \ {Pick(T)}) \in Int
    BY <1>6, <1>10, <2>1
  <2>3. QED BY <2>1, <2>2
<1>12. ASSUME NEW x \in T
       PROVE  sum(T) = f[x] + sum(T \ {x})
  <2> DEFINE c == Pick(T)
             W == (T \ {c}) \ {x}
  <2>1. CASE x = c
    BY <2>1, <1>7, <1>9
  <2>2. CASE x # c
    <3>1. c \in T /\ sum(T) = f[c] + sum(T \ {c})
      BY <1>7, <1>9
    <3>2. sum(T \ {c}) = f[x] + sum(W)
      BY <1>10, <2>2
    <3>3. good(T \ {x}) /\ good(W)
      <4>1. T \ {x} # T /\ W # T
        BY <3>1
      <4> HIDE DEF good
      <4>2. QED BY <1>5, <4>1
    <3>4. sum(T \ {x}) = f[c] + sum(W)
      <4>1. (T \ {x}) \ {c} = W
        OBVIOUS
      <4>2. c \in T \ {x}
        BY <3>1, <2>2
      <4>3. QED BY <3>3, <4>1, <4>2
    <3>5. f[c] \in Int /\ f[x] \in Int /\ sum(W) \in Int
      BY <1>6, <3>1, <3>3
    <3> HIDE DEF c, W
    <3>6. QED BY <3>1, <3>2, <3>4, <3>5
  <2>3. QED BY <2>1, <2>2
<1>13. QED BY <1>4, <1>11, <1>12

\* Naturals sum up to a natural.
LEMMA SumNat ==
  ASSUME NEW f, NEW S, IsFiniteSet(S), \A x \in S : f[x] \in Nat
  PROVE  SumFunctionOnSet(f, S) \in Nat
<1> DEFINE sum(T) == SumFunctionOnSet(f, T)
           C      == {T \in SUBSET S : sum(T) \notin Nat}
<1>1. SUFFICES C # {} => FALSE
  OBVIOUS
<1>2. HAVE C # {}
<1>3. C \in SUBSET FiniteSubsetsOf(S)
  BY FS_FiniteSubsetsOfFinite
<1>4. PICK T \in C : \A U \in C : U \subseteq T => U = T
  <2> HIDE DEF C
  <2> QED BY <1>2, <1>3, SmallestSet
<1>5. IsFiniteSet(T) /\ \A x \in T : f[x] \in Nat
  BY <1>4, FS_Subset
<1>6. T # {}
  <2>1. sum({}) = 0
    BY <1>5, SumEquation
  <2>2. 0 \in Nat
    OBVIOUS
  <2> HIDE DEF sum
  <2>3. QED BY <1>4, <2>1, <2>2, Zenon
<1>7. PICK x \in T : TRUE
  BY <1>6
<1>8. sum(T) = f[x] + sum(T \ {x})
  BY <1>5, SumRemove
<1>9. sum(T \ {x}) \in Nat
  BY <1>4
<1> HIDE DEF sum
<1>10. QED BY <1>4, <1>5, <1>8, <1>9

\* The sum looks at the values only, and may be taken along any renaming of the indices.
LEMMA SumRenamed ==
  ASSUME NEW f, NEW g, NEW h, NEW S, IsFiniteSet(S),
         \A x \in S : f[x] \in Int /\ g[h[x]] = f[x],
         \A x, y \in S : h[x] = h[y] => x = y
  PROVE  SumFunctionOnSet(f, S) = SumFunctionOnSet(g, {h[x] : x \in S})
<1> DEFINE image(T) == {h[x] : x \in T}
           same(T)  == SumFunctionOnSet(f, T) = SumFunctionOnSet(g, image(T))
           C        == {T \in SUBSET S : ~same(T)}
<1>1. SUFFICES C # {} => FALSE
  BY Zenon
<1>2. HAVE C # {}
<1>3. C \in SUBSET FiniteSubsetsOf(S)
  BY FS_FiniteSubsetsOfFinite
<1>4. PICK T \in C : \A U \in C : U \subseteq T => U = T
  <2> HIDE DEF C
  <2> QED BY <1>2, <1>3, SmallestSet
<1>5. IsFiniteSet(T) /\ T \subseteq S
  BY <1>4, FS_Subset
<1>6. image({}) = {}
  OBVIOUS
<1>7. same({})
  <2>1. \A k : SumFunctionOnSet(k, {}) = 0
    BY <1>5, SumEquation
  <2>2. QED BY <1>6, <2>1
<1>8. PICK x \in T : TRUE
  BY <1>4, <1>7
<1>9. same(T \ {x})
  <2> HIDE DEF same
  <2> QED BY <1>4
<1>10. SumFunctionOnSet(f, T) = f[x] + SumFunctionOnSet(f, T \ {x})
  BY <1>5, SumRemove
<1>11. image(T) \ {h[x]} = image(T \ {x}) /\ h[x] \in image(T)
  BY <1>5
<1>12. IsFiniteSet(image(T)) /\ \A y \in image(T) : g[y] \in Int
  <2>1. \A y \in image(T) : g[y] \in Int
    BY <1>5
  <2>2. [z \in T |-> h[z]] \in Surjection(T, image(T))
    BY DEF Surjection
  <2>3. IsFiniteSet(image(T))
    <3> HIDE DEF image
    <3> QED BY <1>5, <2>2, FS_Surjection
  <2>4. QED BY <2>1, <2>3
<1>13. SumFunctionOnSet(g, image(T)) = g[h[x]] + SumFunctionOnSet(g, image(T) \ {h[x]})
  <2> HIDE DEF image
  <2> QED BY <1>11, <1>12, SumRemove
<1> HIDE DEF image
<1>14. same(T)
  BY <1>5, <1>9, <1>10, <1>11, <1>13
<1>15. QED BY <1>4, <1>14

\* A sequence of one summand, and none.
LEMMA SumSmall ==
  ASSUME NEW f, NEW x, f[x] \in Int
  PROVE  SumFunctionOnSet(f, {}) = 0 /\ SumFunctionOnSet(f, {x}) = f[x]
<1>1. IsFiniteSet({x})
  BY FS_Singleton
<1>2. SumFunctionOnSet(f, {}) = 0
  BY <1>1, SumEquation
<1>3. SumFunctionOnSet(f, {x}) = f[x] + SumFunctionOnSet(f, {x} \ {x})
  BY <1>1, SumRemove
<1>4. {x} \ {x} = {}
  OBVIOUS
<1>5. QED BY <1>2, <1>3, <1>4
-----------------------------------------------------------------------------
(* Streams: sequences of messages with a kind, of which an input carries a *)
(* number, and sequences of numbers.                                       *)

Has(q, k)    == \E m \in Range(q) : m.kind = k
Single(q, k) == \A i, j \in DOMAIN q : q[i].kind = k /\ q[j].kind = k => i = j
Numbers(q)   == {m.n : m \in {x \in Range(q) : x.kind = "input"}}
Rising(q)    == \A i, j \in DOMAIN q :
                  q[i].kind = "input" /\ q[j].kind = "input" /\ i < j => q[i].n < q[j].n
Ascends(s)   == \A i, j \in DOMAIN s : i < j => s[i] < s[j]
Before(A, B) == \A a \in A, b \in B : a < b

\* The elements of a concatenation, place by place.
LEMMA Joining ==
  ASSUME NEW S, NEW q \in Seq(S), NEW r \in Seq(S)
  PROVE  /\ q \o r \in Seq(S)
         /\ DOMAIN (q \o r) = 1..(Len(q) + Len(r))
         /\ \A i \in DOMAIN q : i \in DOMAIN (q \o r) /\ (q \o r)[i] = q[i]
         /\ \A i \in DOMAIN r : /\ Len(q) + i \in DOMAIN (q \o r)
                                /\ (q \o r)[Len(q) + i] = r[i]
         /\ \A x \in DOMAIN (q \o r) : \/ x \in DOMAIN q
                                       \/ \E i \in DOMAIN r : x = Len(q) + i
<1>1. Len(q) \in Nat /\ Len(r) \in Nat /\ DOMAIN q = 1..Len(q) /\ DOMAIN r = 1..Len(r)
  OBVIOUS
<1>2. /\ q \o r \in Seq(S) /\ Len(q \o r) = Len(q) + Len(r)
      /\ \A i \in 1..(Len(q) + Len(r)) : (q \o r)[i] = IF i <= Len(q) THEN q[i] ELSE r[i - Len(q)]
  BY ConcatProperties
<1>3. DOMAIN (q \o r) = 1..(Len(q) + Len(r))
  BY <1>2
<1>4. \A i \in DOMAIN r : Len(q) + i \in 1..(Len(q) + Len(r)) /\ ~(Len(q) + i <= Len(q))
                          /\ (Len(q) + i) - Len(q) = i
  BY <1>1
<1>5. ASSUME NEW x \in 1..(Len(q) + Len(r)), x \notin 1..Len(q)
      PROVE  \E i \in 1..Len(r) : x = Len(q) + i
  <2>1. x - Len(q) \in 1..Len(r) /\ x = Len(q) + (x - Len(q))
    BY <1>1, <1>5
  <2>2. QED BY <2>1
<1>6. \A i \in DOMAIN q : i \in 1..(Len(q) + Len(r)) /\ i <= Len(q)
  BY <1>1
<1>7. QED BY <1>1, <1>2, <1>3, <1>4, <1>5, <1>6

\* Its messages are those of the two.
LEMMA JoinedRange ==
  ASSUME NEW S, NEW q \in Seq(S), NEW r \in Seq(S)
  PROVE  Range(q \o r) = Range(q) \cup Range(r)
<1> DEFINE qr == q \o r
<1>1. /\ \A i \in DOMAIN q : i \in DOMAIN qr /\ qr[i] = q[i]
      /\ \A i \in DOMAIN r : Len(q) + i \in DOMAIN qr /\ qr[Len(q) + i] = r[i]
      /\ \A x \in DOMAIN qr : x \in DOMAIN q \/ \E i \in DOMAIN r : x = Len(q) + i
  BY Joining
<1> HIDE DEF qr
<1>2. \A x \in DOMAIN qr : qr[x] \in Range(q) \/ qr[x] \in Range(r)
  BY <1>1 DEF Range
<1>3. Range(q) \subseteq Range(qr) /\ Range(r) \subseteq Range(qr)
  BY <1>1 DEF Range
<1>4. Range(qr) \subseteq Range(q) \cup Range(r)
  BY <1>2 DEF Range
<1>5. QED BY <1>3, <1>4 DEF qr

\* What it has is what either has, once if not both have it.
LEMMA JoinedHas ==
  ASSUME NEW S, NEW q \in Seq(S), NEW r \in Seq(S), NEW k
  PROVE  /\ Has(q \o r, k) <=> (Has(q, k) \/ Has(r, k))
         /\ Single(q \o r, k) <=> (Single(q, k) /\ Single(r, k) /\ ~(Has(q, k) /\ Has(r, k)))
<1>1. Has(q \o r, k) <=> (Has(q, k) \/ Has(r, k))
  BY JoinedRange DEF Has
<1>2. Len(q) \in Nat /\ DOMAIN q = 1..Len(q) /\ DOMAIN r = 1..Len(r) /\ Len(r) \in Nat
  OBVIOUS
<1> DEFINE qr == q \o r
<1>3. /\ DOMAIN qr = 1..(Len(q) + Len(r))
      /\ \A i \in DOMAIN q : i \in DOMAIN qr /\ qr[i] = q[i]
      /\ \A i \in DOMAIN r : Len(q) + i \in DOMAIN qr /\ qr[Len(q) + i] = r[i]
      /\ \A x \in DOMAIN qr : x \in DOMAIN q \/ \E i \in DOMAIN r : x = Len(q) + i
  BY Joining
<1> HIDE DEF qr
<1>4. ASSUME Single(qr, k)
      PROVE  Single(q, k) /\ Single(r, k) /\ ~(Has(q, k) /\ Has(r, k))
  <2>1. Single(q, k)
    BY <1>3, <1>4 DEF Single
  <2>2. Single(r, k)
    <3> SUFFICES ASSUME NEW i \in DOMAIN r, NEW j \in DOMAIN r, r[i].kind = k, r[j].kind = k
                 PROVE  i = j
      BY DEF Single
    <3>1. Len(q) + i = Len(q) + j
      BY <1>3, <1>4 DEF Single
    <3>2. QED BY <1>2, <3>1
  <2>3. ASSUME Has(q, k), Has(r, k)
        PROVE  FALSE
    <3>1. PICK i \in DOMAIN q : q[i].kind = k
      BY <2>3 DEF Has, Range
    <3>2. PICK j \in DOMAIN r : r[j].kind = k
      BY <2>3 DEF Has, Range
    <3>3. i = Len(q) + j
      BY <1>3, <1>4, <3>1, <3>2 DEF Single
    <3>4. QED BY <1>2, <3>3
  <2>4. QED BY <2>1, <2>2, <2>3
<1>5. ASSUME Single(q, k), Single(r, k), ~(Has(q, k) /\ Has(r, k))
      PROVE  Single(qr, k)
  <2> SUFFICES ASSUME NEW i \in DOMAIN qr, NEW j \in DOMAIN qr, qr[i].kind = k, qr[j].kind = k
               PROVE  i = j
    BY DEF Single
  <2>1. CASE i \in DOMAIN q /\ j \in DOMAIN q
    BY <1>3, <1>5, <2>1 DEF Single
  <2>2. CASE i \notin DOMAIN q /\ j \notin DOMAIN q
    <3>1. PICK x \in DOMAIN r, y \in DOMAIN r : i = Len(q) + x /\ j = Len(q) + y
      BY <1>3, <2>2
    <3>2. x = y
      BY <1>3, <1>5, <3>1 DEF Single
    <3>3. QED BY <3>1, <3>2
  <2>3. ASSUME NEW x \in DOMAIN q, NEW y \in DOMAIN r, q[x].kind = k, r[y].kind = k
        PROVE  FALSE
    BY <1>5, <2>3 DEF Has, Range
  <2>4. QED BY <1>3, <2>1, <2>2, <2>3
<1>6. QED BY <1>1, <1>4, <1>5 DEF qr

\* Its inputs rise if those of the two do and the ones of the first come before.
LEMMA JoinedRising ==
  ASSUME NEW S, NEW q \in Seq(S), NEW r \in Seq(S)
  PROVE  /\ Numbers(q \o r) = Numbers(q) \cup Numbers(r)
         /\ Rising(q \o r) <=> (Rising(q) /\ Rising(r) /\ Before(Numbers(q), Numbers(r)))
<1>1. Numbers(q \o r) = Numbers(q) \cup Numbers(r)
  BY JoinedRange DEF Numbers
<1>2. Len(q) \in Nat /\ DOMAIN q = 1..Len(q) /\ DOMAIN r = 1..Len(r) /\ Len(r) \in Nat
  OBVIOUS
<1> DEFINE qr == q \o r
<1>3. /\ DOMAIN qr = 1..(Len(q) + Len(r))
      /\ \A i \in DOMAIN q : i \in DOMAIN qr /\ qr[i] = q[i]
      /\ \A i \in DOMAIN r : Len(q) + i \in DOMAIN qr /\ qr[Len(q) + i] = r[i]
      /\ \A x \in DOMAIN qr : x \in DOMAIN q \/ \E i \in DOMAIN r : x = Len(q) + i
  BY Joining
<1>4. /\ \A i \in DOMAIN q, j \in DOMAIN r : i < Len(q) + j /\ ~(Len(q) + j < i)
      /\ \A i, j \in DOMAIN r : Len(q) + i < Len(q) + j <=> i < j
  BY <1>2
<1> HIDE DEF qr
<1>5. ASSUME Rising(qr)
      PROVE  Rising(q) /\ Rising(r) /\ Before(Numbers(q), Numbers(r))
  <2>1. Rising(q)
    BY <1>3, <1>5 DEF Rising
  <2>2. Rising(r)
    BY <1>3, <1>4, <1>5 DEF Rising
  <2>3. ASSUME NEW a \in Numbers(q), NEW b \in Numbers(r)
        PROVE  a < b
    <3>1. PICK i \in DOMAIN q : q[i].kind = "input" /\ q[i].n = a
      BY DEF Numbers, Range
    <3>2. PICK j \in DOMAIN r : r[j].kind = "input" /\ r[j].n = b
      BY DEF Numbers, Range
    <3>3. QED BY <1>3, <1>4, <1>5, <3>1, <3>2 DEF Rising
  <2>4. QED BY <2>1, <2>2, <2>3 DEF Before
<1>6. ASSUME Rising(q), Rising(r), Before(Numbers(q), Numbers(r))
      PROVE  Rising(qr)
  <2> SUFFICES ASSUME NEW i \in DOMAIN qr, NEW j \in DOMAIN qr, qr[i].kind = "input",
                      qr[j].kind = "input", i < j
               PROVE  qr[i].n < qr[j].n
    BY DEF Rising
  <2>1. CASE i \in DOMAIN q /\ j \in DOMAIN q
    BY <1>3, <1>6, <2>1 DEF Rising
  <2>2. ASSUME NEW x \in DOMAIN r, i = Len(q) + x
        PROVE  qr[i].n < qr[j].n
    <3>1. PICK y \in DOMAIN r : j = Len(q) + y
      BY <1>3, <1>4, <2>2
    <3>2. QED BY <1>3, <1>4, <1>6, <2>2, <3>1 DEF Rising
  <2>3. ASSUME i \in DOMAIN q, NEW y \in DOMAIN r, j = Len(q) + y
        PROVE  qr[i].n < qr[j].n
    <3>1. q[i].n \in Numbers(q) /\ r[y].n \in Numbers(r)
      BY <1>3, <2>3 DEF Numbers, Range
    <3>2. QED BY <1>3, <1>6, <2>3, <3>1 DEF Before
  <2>4. QED BY <1>3, <2>1, <2>2, <2>3
<1>7. QED BY <1>1, <1>5, <1>6 DEF qr

\* One message.
LEMMA OneMessage ==
  ASSUME NEW m
  PROVE  /\ Range(<<m>>) = {m}
         /\ \A k : Single(<<m>>, k) /\ (Has(<<m>>, k) <=> m.kind = k)
         /\ Numbers(<<m>>) = {x \in {m.n} : m.kind = "input"} /\ Rising(<<m>>)
<1>1. DOMAIN <<m>> = {1} /\ <<m>>[1] = m
  OBVIOUS
<1>2. Range(<<m>>) = {m}
  BY <1>1 DEF Range
<1>3. \A k : Single(<<m>>, k)
  BY <1>1 DEF Single
<1>4. Rising(<<m>>)
  BY <1>1 DEF Rising
<1>5. QED BY <1>2, <1>3, <1>4 DEF Has, Numbers

\* A message is sent.
LEMMA Sent ==
  ASSUME NEW S, NEW q \in Seq(S), NEW m \in S
  PROVE  /\ Append(q, m) \in Seq(S) /\ Range(Append(q, m)) = Range(q) \cup {m}
         /\ \A k : /\ Has(Append(q, m), k) <=> (Has(q, k) \/ m.kind = k)
                   /\ Single(Append(q, m), k) <=> (Single(q, k) /\ ~(Has(q, k) /\ m.kind = k))
         /\ m.kind # "input" => /\ Numbers(Append(q, m)) = Numbers(q)
                                /\ Rising(Append(q, m)) <=> Rising(q)
<1> DEFINE one == <<m>>
<1>1. Append(q, m) = q \o one /\ one \in Seq(S)
  BY AppendIsConcat
<1>0. /\ Range(one) = {m}
      /\ \A k : Single(one, k) /\ (Has(one, k) <=> m.kind = k)
      /\ Numbers(one) = {x \in {m.n} : m.kind = "input"} /\ Rising(one)
  BY OneMessage
<1> HIDE DEF one
<1>2. Append(q, m) \in Seq(S) /\ Range(Append(q, m)) = Range(q) \cup {m}
  BY <1>0, <1>1, JoinedRange
<1>3. \A k : /\ Has(Append(q, m), k) <=> (Has(q, k) \/ m.kind = k)
             /\ Single(Append(q, m), k) <=> (Single(q, k) /\ ~(Has(q, k) /\ m.kind = k))
  BY <1>0, <1>1, JoinedHas
<1>4. ASSUME m.kind # "input"
      PROVE  /\ Numbers(Append(q, m)) = Numbers(q)
             /\ Rising(Append(q, m)) <=> Rising(q)
  <2>1. Numbers(one) = {} /\ Rising(one)
    BY <1>0, <1>4
  <2>2. Numbers(q \o one) = Numbers(q) \cup Numbers(one)
    BY <1>1, JoinedRising
  <2>3. Rising(q \o one) <=> (Rising(q) /\ Rising(one) /\ Before(Numbers(q), Numbers(one)))
    BY <1>1, JoinedRising
  <2>4. Before(Numbers(q), Numbers(one))
    BY <2>1 DEF Before
  <2>5. QED BY <1>1, <2>1, <2>2, <2>3, <2>4
<1>5. QED BY <1>2, <1>3, <1>4

\* The first message is taken off.
LEMMA Taken ==
  ASSUME NEW S, NEW q \in Seq(S), q # <<>>
  PROVE  /\ Head(q) \in S /\ Tail(q) \in Seq(S) /\ Range(q) = {Head(q)} \cup Range(Tail(q))
         /\ \A k : /\ Has(q, k) <=> (Head(q).kind = k \/ Has(Tail(q), k))
                   /\ Single(q, k) => /\ Single(Tail(q), k)
                                      /\ ~(Head(q).kind = k /\ Has(Tail(q), k))
         /\ Numbers(q) = {x \in {Head(q).n} : Head(q).kind = "input"} \cup Numbers(Tail(q))
         /\ Rising(q) => /\ Rising(Tail(q))
                         /\ Head(q).kind = "input" => \A x \in Numbers(Tail(q)) : Head(q).n < x
<1> DEFINE h == <<Head(q)>>
           t == Tail(q)
<1>1. Head(q) \in S /\ t \in Seq(S) /\ q = h \o t /\ h \in Seq(S)
  <2>1. Head(q) \in S /\ t \in Seq(S)
    OBVIOUS
  <2>2. h \in Seq(S) /\ Len(h) = 1
    BY <2>1
  <2>3. h \o t \in Seq(S) /\ Len(h \o t) = Len(q)
    BY <2>1, <2>2
  <2>4. \A i \in 1..Len(q) : (h \o t)[i] = q[i]
    BY <2>1, <2>2
  <2>5. QED BY <2>1, <2>2, <2>3, <2>4, SeqEqual
<1>2. Range(q) = {Head(q)} \cup Range(t)
  <2>1. Range(h) = {Head(q)}
    BY OneMessage
  <2> HIDE DEF h, t
  <2>2. QED BY <1>1, <2>1, JoinedRange
<1>3. /\ \A k : Single(h, k) /\ (Has(h, k) <=> Head(q).kind = k)
      /\ Numbers(h) = {x \in {Head(q).n} : Head(q).kind = "input"} /\ Rising(h)
  BY OneMessage
<1> HIDE DEF h, t
<1>4. \A k : /\ Has(q, k) <=> (Head(q).kind = k \/ Has(t, k))
             /\ Single(q, k) => Single(t, k) /\ ~(Head(q).kind = k /\ Has(t, k))
  BY <1>1, <1>3, JoinedHas
<1>5. /\ Numbers(q) = {x \in {Head(q).n} : Head(q).kind = "input"} \cup Numbers(t)
      /\ Rising(q) => Rising(t) /\ Before(Numbers(h), Numbers(t))
  <2>1. Numbers(h \o t) = Numbers(h) \cup Numbers(t)
    BY <1>1, JoinedRising
  <2>2. Rising(h \o t) => Rising(t) /\ Before(Numbers(h), Numbers(t))
    BY <1>1, JoinedRising
  <2>3. QED BY <1>1, <1>3, <2>1, <2>2
<1>6. QED BY <1>1, <1>2, <1>3, <1>4, <1>5 DEF t, Before

\* The pieces of a buffer, put into messages of one kind (Pieces of the two transports).
Packs(r, k, s) == DOMAIN r = DOMAIN s /\ \A i \in DOMAIN s : r[i].kind = k /\ r[i].n = s[i]

\* They have the kind, and the numbers of the pieces.
LEMMA Packed ==
  ASSUME NEW k, NEW N, NEW s \in Seq(N), NEW r, Packs(r, k, s)
  PROVE  /\ \A m \in Range(r) : m.kind = k /\ m.n \in Range(s) /\ m.n \in N
         /\ \A j : Has(r, j) <=> (j = k /\ s # <<>>)
         /\ k = "input" => Numbers(r) = Range(s) /\ (Rising(r) <=> Ascends(s))
         /\ k # "input" => Numbers(r) = {} /\ Rising(r)
<1>1. /\ DOMAIN s = 1..Len(s) /\ Len(s) \in Nat /\ \A i \in DOMAIN s : s[i] \in N
      /\ DOMAIN r = DOMAIN s /\ \A i \in DOMAIN s : r[i].kind = k /\ r[i].n = s[i]
  BY DEF Packs
<1>2. \A m \in Range(r) : m.kind = k /\ m.n \in Range(s) /\ m.n \in N
  BY <1>1 DEF Range
<1>3. \A x \in Range(s) : \E m \in Range(r) : m.kind = k /\ m.n = x
  BY <1>1 DEF Range
<1>4. s # <<>> <=> Range(s) # {}
  BY <1>1 DEF Range
<1>5. \A j : Has(r, j) <=> (j = k /\ s # <<>>)
  BY <1>2, <1>3, <1>4 DEF Has
<1>6. ASSUME k = "input"
      PROVE  Numbers(r) = Range(s) /\ (Rising(r) <=> Ascends(s))
  <2>1. Numbers(r) = Range(s)
    BY <1>2, <1>3, <1>6 DEF Numbers
  <2>2. QED BY <1>1, <1>6, <2>1 DEF Rising, Ascends
<1>7. ASSUME k # "input"
      PROVE  Numbers(r) = {} /\ Rising(r)
  BY <1>1, <1>2, <1>7 DEF Numbers, Rising
<1>8. QED BY <1>2, <1>5, <1>6, <1>7

\* A number is written behind the others.
LEMMA Written ==
  ASSUME NEW N, NEW s \in Seq(N), NEW x \in N
  PROVE  /\ Append(s, x) \in Seq(N) /\ Range(Append(s, x)) = Range(s) \cup {x}
         /\ Ascends(Append(s, x)) <=> (Ascends(s) /\ \A y \in Range(s) : y < x)
<1> DEFINE w == Append(s, x)
<1>1. /\ w \in Seq(N) /\ DOMAIN w = 1..(Len(s) + 1) /\ DOMAIN s = 1..Len(s) /\ Len(s) \in Nat
      /\ w[Len(s) + 1] = x /\ \A i \in 1..Len(s) : w[i] = s[i]
  OBVIOUS
<1> HIDE DEF w
<1>2. /\ \A i \in DOMAIN w : i \in DOMAIN s \/ i = Len(s) + 1
      /\ \A i \in DOMAIN s : i \in DOMAIN w /\ i < Len(s) + 1 /\ ~(Len(s) + 1 < i) /\ w[i] = s[i]
      /\ Len(s) + 1 \in DOMAIN w /\ ~(Len(s) + 1 < Len(s) + 1)
  BY <1>1
<1>3. Range(w) = Range(s) \cup {x}
  BY <1>1, <1>2 DEF Range
<1>4. Ascends(w) <=> (Ascends(s) /\ \A y \in Range(s) : y < x)
  <2>1. ASSUME Ascends(w)
        PROVE  Ascends(s) /\ \A y \in Range(s) : y < x
    <3>1. Ascends(s)
      BY <1>2, <2>1 DEF Ascends
    <3>2. \A i \in DOMAIN s : s[i] < x
      BY <1>1, <1>2, <2>1 DEF Ascends
    <3>3. QED BY <3>1, <3>2 DEF Range
  <2>2. ASSUME Ascends(s), \A y \in Range(s) : y < x
        PROVE  Ascends(w)
    BY <1>1, <1>2, <2>2 DEF Ascends, Range
  <2>3. QED BY <2>1, <2>2
<1>5. QED BY <1>1, <1>3, <1>4 DEF w
-----------------------------------------------------------------------------
(* The pieces a connection carries (Carried of the two transports).        *)

\* The prefix function of Carried, up to place n.
Gathers(c, k, s, n) ==
  c = [i \in 0..n |-> IF i = 0 THEN <<>>
                      ELSE IF s[i].kind = k THEN Append(c[i - 1], s[i].n) ELSE c[i - 1]]

\* There is one.
LEMMA GathersExists ==
  ASSUME NEW k, NEW s, NEW len \in Nat
  PROVE  \E c : Gathers(c, k, s, len)
<1> DEFINE C == {n \in Nat : ~ \E c : Gathers(c, k, s, n)}
<1>1. SUFFICES C # {} => FALSE
  OBVIOUS
<1>2. HAVE C # {}
<1>3. PICK n \in C : \A y \in C : n <= y
  <2>1. C \in SUBSET Nat
    OBVIOUS
  <2> HIDE DEF C
  <2>2. QED BY <1>2, <2>1, LeastExists
<1>4. n \in Nat
  OBVIOUS
<1>5. CASE n = 0
  <2> DEFINE c == [i \in 0..0 |-> <<>>]
  <2>1. c = [i \in 0..0 |-> IF i = 0 THEN <<>>
                            ELSE IF s[i].kind = k THEN Append(c[i - 1], s[i].n) ELSE c[i - 1]]
    OBVIOUS
  <2> HIDE DEF c
  <2>2. QED BY <1>3, <1>5, <2>1 DEF Gathers
<1>6. CASE n # 0
  <2>1. n - 1 \in Nat /\ n - 1 \notin C
    BY <1>3, <1>4, <1>6
  <2>2. PICK c : Gathers(c, k, s, n - 1)
    BY <2>1
  <2> DEFINE step(f, i) == IF i = 0 THEN <<>>
                           ELSE IF s[i].kind = k THEN Append(f[i - 1], s[i].n) ELSE f[i - 1]
             d == [i \in 0..n |-> step(c, i)]
  <2>3. \A i \in 0..(n - 1) : c[i] = step(c, i)
    <3>1. c = [i \in 0..(n - 1) |-> step(c, i)]
      BY <2>2 DEF Gathers
    <3> HIDE DEF step
    <3>2. QED BY <3>1
  <2>4. \A i \in 0..(n - 1) : i \in 0..n /\ d[i] = c[i]
    <3>1. 0..(n - 1) \subseteq 0..n
      BY <1>4
    <3> HIDE DEF step
    <3>2. QED BY <2>3, <3>1
  <2>5. \A i \in 0..n : i # 0 => i - 1 \in 0..(n - 1)
    BY <1>4
  <2>6. \A i \in 0..n : step(c, i) = step(d, i)
    <3> HIDE DEF d
    <3> QED BY <2>4, <2>5
  <2>7. d = [i \in 0..n |-> step(d, i)]
    <3>1. d = [i \in 0..n |-> step(c, i)]
      OBVIOUS
    <3> HIDE DEF d, step
    <3>2. QED BY <2>6, <3>1
  <2>8. Gathers(d, k, s, n)
    <3> HIDE DEF d
    <3> QED BY <2>7 DEF Gathers
  <2>9. QED BY <1>3, <2>8
<1>7. QED BY <1>5, <1>6

\* Carried is the last value of it.
LEMMA CarriedSteps ==
  ASSUME NEW k, NEW S, NEW s \in Seq(S)
  PROVE  \E c : /\ c[0] = <<>> /\ Carried(k, s) = c[Len(s)]
                /\ \A i \in 1..Len(s) : c[i] = IF s[i].kind = k THEN Append(c[i - 1], s[i].n) ELSE c[i - 1]
<1> DEFINE c == CHOOSE c : Gathers(c, k, s, Len(s))
<1>1. Len(s) \in Nat
  OBVIOUS
<1>2. Gathers(c, k, s, Len(s))
  BY <1>1, GathersExists
<1>3. Carried(k, s) = c[Len(s)]
  BY Zenon DEF Carried, Gathers
<1> HIDE DEF c
<1>4. \A i \in 0..Len(s) : c[i] = IF i = 0 THEN <<>>
                                  ELSE IF s[i].kind = k THEN Append(c[i - 1], s[i].n) ELSE c[i - 1]
  <2>1. c = [i \in 0..Len(s) |-> IF i = 0 THEN <<>>
                                 ELSE IF s[i].kind = k THEN Append(c[i - 1], s[i].n) ELSE c[i - 1]]
    BY <1>2 DEF Gathers
  <2>2. QED BY <2>1, Zenon
<1>5. 0 \in 0..Len(s) /\ \A i \in 1..Len(s) : i \in 0..Len(s) /\ i # 0
  BY <1>1
<1>6. c[0] = <<>>
  BY <1>4, <1>5
<1>7. \A i \in 1..Len(s) : c[i] = IF s[i].kind = k THEN Append(c[i - 1], s[i].n) ELSE c[i - 1]
  BY <1>4, <1>5
<1>8. QED BY <1>3, <1>6, <1>7

\* A property of the natural numbers up to a bound that goes on from each to the next.
LEMMA UpTo ==
  ASSUME NEW T, 0 \in T, NEW len \in Nat, \A i \in 1..len : i - 1 \in T => i \in T
  PROVE  \A i \in 0..len : i \in T
<1> DEFINE C == {i \in 0..len : i \notin T}
<1>1. SUFFICES C # {} => FALSE
  OBVIOUS
<1>2. HAVE C # {}
<1>3. PICK n \in C : \A y \in C : n <= y
  <2>1. C \in SUBSET Nat
    OBVIOUS
  <2> HIDE DEF C
  <2>2. QED BY <1>2, <2>1, LeastExists
<1>4. n \in 1..len /\ n - 1 \in 0..len /\ ~(n <= n - 1)
  BY <1>3
<1>5. n - 1 \in T
  BY <1>3, <1>4
<1>6. QED BY <1>3, <1>4, <1>5
\* What it carries are numbers of the messages of the kind.
LEMMA CarriedType ==
  ASSUME NEW k, NEW S, NEW s \in Seq(S), NEW N, \A m \in Range(s) : m.kind = k => m.n \in N
  PROVE  Carried(k, s) \in Seq(N)
<1>1. PICK c : /\ c[0] = <<>> /\ Carried(k, s) = c[Len(s)]
               /\ \A i \in 1..Len(s) : c[i] = IF s[i].kind = k THEN Append(c[i - 1], s[i].n) ELSE c[i - 1]
  BY CarriedSteps
<1>2. Len(s) \in Nat /\ DOMAIN s = 1..Len(s)
  OBVIOUS
<1>3. \A i \in 1..Len(s) : s[i].kind = k => s[i].n \in N
  BY <1>2 DEF Range
<1> DEFINE T == {i \in 0..Len(s) : c[i] \in Seq(N)}
<1>4. 0 \in T
  <2>1. <<>> \in Seq(N) /\ 0 \in 0..Len(s)
    BY <1>2
  <2>2. QED BY <1>1, <2>1
<1>5. ASSUME NEW i \in 1..Len(s), i - 1 \in T
      PROVE  i \in T
  <2>1. c[i - 1] \in Seq(N) /\ i \in 0..Len(s)
    BY <1>2, <1>5
  <2>2. CASE s[i].kind = k
    <3>1. c[i] = Append(c[i - 1], s[i].n) /\ s[i].n \in N
      BY <1>1, <1>3, <2>2
    <3>2. \A x \in Seq(N), n \in N : Append(x, n) \in Seq(N)
      OBVIOUS
    <3>3. QED BY <2>1, <3>1, <3>2
  <2>3. CASE s[i].kind # k
    BY <1>1, <2>1, <2>3
  <2>4. QED BY <2>2, <2>3
<1> HIDE DEF T
<1>6. \A i \in 0..Len(s) : i \in T
  BY <1>2, <1>4, <1>5, UpTo
<1>7. Len(s) \in 0..Len(s)
  BY <1>2
<1>8. QED BY <1>1, <1>6, <1>7 DEF T

\* A connection without such messages carries none of the stream.
LEMMA CarriedNone ==
  ASSUME NEW k, NEW S, NEW s \in Seq(S), ~Has(s, k)
  PROVE  Carried(k, s) = <<>>
<1>1. \A m \in Range(s) : m.kind = k => m.n \in {}
  BY DEF Has
<1>2. Carried(k, s) \in Seq({})
  BY <1>1, CarriedType
<1>3. QED BY <1>2

\* What a concatenation carries.
LEMMA CarriedJoined ==
  ASSUME NEW k, NEW S, NEW q \in Seq(S), NEW r \in Seq(S), NEW N,
         \A m \in Range(q) \cup Range(r) : m.kind = k => m.n \in N
  PROVE  Carried(k, q \o r) = Carried(k, q) \o Carried(k, r)
<1> DEFINE s == q \o r
<1>1. /\ s \in Seq(S) /\ DOMAIN s = 1..(Len(q) + Len(r)) /\ Len(q) \in Nat /\ Len(r) \in Nat
      /\ DOMAIN q = 1..Len(q) /\ DOMAIN r = 1..Len(r) /\ Len(s) = Len(q) + Len(r)
      /\ \A i \in 1..Len(q) : i \in 1..Len(s) /\ s[i] = q[i]
      /\ \A i \in 1..Len(r) : Len(q) + i \in 1..Len(s) /\ s[Len(q) + i] = r[i]
  <2>1. s \in Seq(S) /\ DOMAIN s = 1..(Len(q) + Len(r))
    BY Joining
  <2>2. \A i \in DOMAIN q : i \in DOMAIN s /\ s[i] = q[i]
    BY Joining
  <2>3. \A i \in DOMAIN r : Len(q) + i \in DOMAIN s /\ s[Len(q) + i] = r[i]
    BY Joining
  <2>4. Len(q) \in Nat /\ Len(r) \in Nat /\ DOMAIN q = 1..Len(q) /\ DOMAIN r = 1..Len(r)
    OBVIOUS
  <2> HIDE DEF s
  <2>5. DOMAIN s = 1..Len(s) /\ Len(s) \in Nat
    BY <2>1
  <2>6. Len(s) = Len(q) + Len(r)
    BY <2>1, <2>4, <2>5
  <2>7. QED BY <2>1, <2>2, <2>3, <2>4, <2>5, <2>6
<1> HIDE DEF s
<1>0. s \in Seq(S)
  BY <1>1
<1>2. PICK c : /\ c[0] = <<>> /\ Carried(k, s) = c[Len(s)]
               /\ \A i \in 1..Len(s) : c[i] = IF s[i].kind = k THEN Append(c[i - 1], s[i].n) ELSE c[i - 1]
  BY <1>0, CarriedSteps, SMTT(40)
<1>3. PICK d : /\ d[0] = <<>> /\ Carried(k, q) = d[Len(q)]
               /\ \A i \in 1..Len(q) : d[i] = IF q[i].kind = k THEN Append(d[i - 1], q[i].n) ELSE d[i - 1]
  BY CarriedSteps
<1>4. PICK e : /\ e[0] = <<>> /\ Carried(k, r) = e[Len(r)]
               /\ \A i \in 1..Len(r) : e[i] = IF r[i].kind = k THEN Append(e[i - 1], r[i].n) ELSE e[i - 1]
  BY CarriedSteps
<1>5. c[Len(q)] = Carried(k, q)
  <2> DEFINE T == {i \in 0..Len(q) : c[i] = d[i]}
  <2>1. 0 \in T
    BY <1>1, <1>2, <1>3
  <2>2. ASSUME NEW i \in 1..Len(q), i - 1 \in T
        PROVE  i \in T
    <3>1. c[i - 1] = d[i - 1] /\ i \in 0..Len(q) /\ i \in 1..Len(s) /\ s[i] = q[i]
      BY <1>1, <2>2
    <3>2. QED BY <1>2, <1>3, <3>1
  <2> HIDE DEF T
  <2>3. \A i \in 0..Len(q) : i \in T
    BY <1>1, <2>1, <2>2, UpTo
  <2>4. Len(q) \in 0..Len(q)
    BY <1>1
  <2>5. QED BY <1>3, <2>3, <2>4 DEF T
<1>6. Carried(k, q) \in Seq(N)
  BY CarriedType
<1> DEFINE Q == Carried(k, q)
<1>7. c[Len(q) + Len(r)] = Q \o Carried(k, r)
  <2> DEFINE T == {i \in 0..Len(r) : e[i] \in Seq(N) /\ c[Len(q) + i] = Q \o e[i]}
  <2>0. Q \in Seq(N)
    BY <1>6
  <2> HIDE DEF Q
  <2>1. 0 \in T
    <3>1. Q \o <<>> = Q /\ Len(q) + 0 = Len(q) /\ 0 \in 0..Len(r) /\ <<>> \in Seq(N)
      BY <1>1, <2>0
    <3>2. c[Len(q)] = Q
      BY <1>5 DEF Q
    <3>3. QED BY <1>4, <3>1, <3>2
  <2>2. ASSUME NEW i \in 1..Len(r), i - 1 \in T
        PROVE  i \in T
    <3>1. /\ e[i - 1] \in Seq(N) /\ c[Len(q) + (i - 1)] = Q \o e[i - 1]
          /\ i \in 0..Len(r) /\ Len(q) + i \in 1..Len(s) /\ s[Len(q) + i] = r[i]
          /\ (Len(q) + i) - 1 = Len(q) + (i - 1)
      BY <1>1, <2>2
    <3>2. CASE r[i].kind = k
      <4>1. r[i].n \in N
        BY <1>1, <3>2 DEF Range
      <4>2. e[i] = Append(e[i - 1], r[i].n) /\ c[Len(q) + i] = Append(Q \o e[i - 1], r[i].n)
        BY <1>2, <1>4, <3>1, <3>2
      <4>3. ASSUME NEW x \in Seq(N), NEW n \in N
            PROVE  Append(x, n) \in Seq(N) /\ Append(Q \o x, n) = Q \o Append(x, n)
        <5>1. Append(x, n) \in Seq(N) /\ Q \o x \in Seq(N)
          BY <2>0
        <5>2. Append(Q \o x, n) = (Q \o x) \o <<n>> /\ Append(x, n) = x \o <<n>>
          BY <5>1, AppendIsConcat
        <5>3. (Q \o x) \o <<n>> = Q \o (x \o <<n>>)
          <6>1. <<n>> \in Seq(N)
            OBVIOUS
          <6>2. QED BY <2>0, <6>1, ConcatAssociative, SMTT(60)
        <5>4. QED BY <5>1, <5>2, <5>3
      <4>4. QED BY <3>1, <4>1, <4>2, <4>3
    <3>3. CASE r[i].kind # k
      <4>1. e[i] = e[i - 1] /\ c[Len(q) + i] = Q \o e[i - 1]
        BY <1>2, <1>4, <3>1, <3>3
      <4>2. QED BY <3>1, <4>1
    <3>4. QED BY <3>2, <3>3
  <2> HIDE DEF T
  <2>3. \A i \in 0..Len(r) : i \in T
    BY <1>1, <2>1, <2>2, UpTo
  <2>4. Len(r) \in 0..Len(r)
    BY <1>1
  <2>5. QED BY <1>4, <2>3, <2>4 DEF T
<1>8. QED BY <1>1, <1>2, <1>7 DEF s

\* One message carries its number, if it is of the kind.
LEMMA CarriedOne ==
  ASSUME NEW k, NEW m
  PROVE  Carried(k, <<m>>) = IF m.kind = k THEN <<m.n>> ELSE <<>>
<1> DEFINE s == <<m>>
<1>1. s \in Seq({m}) /\ Len(s) = 1 /\ s[1] = m
  OBVIOUS
<1> HIDE DEF s
<1>2. PICK c : /\ c[0] = <<>> /\ Carried(k, s) = c[Len(s)]
               /\ \A i \in 1..Len(s) : c[i] = IF s[i].kind = k THEN Append(c[i - 1], s[i].n) ELSE c[i - 1]
  BY <1>1, CarriedSteps
<1>3. c[1] = IF m.kind = k THEN Append(c[0], m.n) ELSE c[0]
  <2>1. 1 \in 1..Len(s) /\ 1 - 1 = 0
    BY <1>1
  <2>2. QED BY <1>1, <1>2, <2>1
<1>4. Append(<<>>, m.n) = <<m.n>>
  OBVIOUS
<1>5. QED BY <1>1, <1>2, <1>3, <1>4 DEF s

\* What is carried once a message is sent,
LEMMA CarriedSent ==
  ASSUME NEW k, NEW S, NEW q \in Seq(S), NEW m \in S, NEW N,
         \A x \in Range(q) \cup {m} : x.kind = k => x.n \in N
  PROVE  Carried(k, Append(q, m)) = IF m.kind = k THEN Append(Carried(k, q), m.n) ELSE Carried(k, q)
<1> DEFINE one == <<m>>
           Q   == Carried(k, q)
<1>1. Append(q, m) = q \o one /\ one \in Seq(S)
  BY AppendIsConcat
<1>2. Range(one) = {m}
  BY OneMessage
<1>3. Carried(k, one) = IF m.kind = k THEN <<m.n>> ELSE <<>>
  BY CarriedOne
<1> HIDE DEF one
<1>4. Carried(k, q \o one) = Carried(k, q) \o Carried(k, one)
  BY <1>1, <1>2, CarriedJoined
<1>5. Q \in Seq(N)
  BY CarriedType
<1>6. Carried(k, q \o one) = Q \o Carried(k, one)
  BY <1>4
<1> HIDE DEF Q
<1>7. CASE m.kind = k
  <2>1. m.n \in N
    BY <1>7
  <2>2. Q \o <<m.n>> = Append(Q, m.n)
    BY <1>5, <2>1
  <2>3. QED BY <1>1, <1>3, <1>6, <1>7, <2>2 DEF Q
<1>8. CASE m.kind # k
  <2>1. Q \o <<>> = Q
    BY <1>5
  <2>2. QED BY <1>1, <1>3, <1>6, <1>8, <2>1 DEF Q
<1>9. QED BY <1>7, <1>8

\* before the first one is taken,
LEMMA CarriedTaken ==
  ASSUME NEW k, NEW S, NEW q \in Seq(S), q # <<>>, NEW N,
         \A x \in Range(q) : x.kind = k => x.n \in N
  PROVE  /\ Carried(k, Tail(q)) \in Seq(N) /\ Carried(k, q) \in Seq(N)
         /\ Head(q).kind = k => Carried(k, q) = <<Head(q).n>> \o Carried(k, Tail(q))
         /\ Head(q).kind # k => Carried(k, q) = Carried(k, Tail(q))
<1> DEFINE h == <<Head(q)>>
           t == Tail(q)
           R == Carried(k, t)
<1>1. Head(q) \in S /\ t \in Seq(S) /\ q = h \o t /\ h \in Seq(S)
  <2>1. Head(q) \in S /\ t \in Seq(S)
    OBVIOUS
  <2>2. h \in Seq(S) /\ Len(h) = 1
    BY <2>1
  <2>3. h \o t \in Seq(S) /\ Len(h \o t) = Len(q)
    BY <2>1, <2>2
  <2>4. \A i \in 1..Len(q) : (h \o t)[i] = q[i]
    BY <2>1, <2>2
  <2>5. QED BY <2>1, <2>2, <2>3, <2>4, SeqEqual
<1>2. Range(q) = {Head(q)} \cup Range(t)
  BY Taken
<1>3. Range(h) = {Head(q)}
  BY OneMessage
<1>4. Carried(k, h) = IF Head(q).kind = k THEN <<Head(q).n>> ELSE <<>>
  BY CarriedOne
<1> HIDE DEF h, t
<1>5. Carried(k, q) = Carried(k, h) \o Carried(k, t)
  BY <1>1, <1>2, <1>3, CarriedJoined
<1>6. R \in Seq(N) /\ Carried(k, q) \in Seq(N)
  BY <1>1, <1>2, CarriedType
<1>7. Carried(k, q) = Carried(k, h) \o R
  BY <1>5
<1> HIDE DEF R
<1>8. <<>> \o R = R
  BY <1>6
<1>9. QED BY <1>4, <1>6, <1>7, <1>8 DEF R, t

\* and by the pieces of a buffer.
LEMMA CarriedPacked ==
  ASSUME NEW k, NEW N, NEW s \in Seq(N), NEW S, NEW r \in Seq(S), Packs(r, k, s)
  PROVE  /\ Carried(k, r) = s
         /\ \A j : j # k => Carried(j, r) = <<>>
<1>1. /\ DOMAIN s = 1..Len(s) /\ Len(s) \in Nat /\ \A i \in 1..Len(s) : s[i] \in N
      /\ DOMAIN r = 1..Len(r) /\ Len(r) \in Nat /\ DOMAIN r = DOMAIN s
      /\ \A i \in 1..Len(s) : r[i].kind = k /\ r[i].n = s[i]
  BY DEF Packs
<1>2. Len(r) = Len(s)
  <2>1. Len(r) \in Nat /\ Len(s) \in Nat /\ 1..Len(r) = 1..Len(s)
    BY <1>1
  <2>2. ASSUME NEW x \in Nat, NEW y \in Nat, 1..x = 1..y, x < y
        PROVE  FALSE
    <3>1. y \in 1..y /\ y \notin 1..x
      BY <2>2
    <3>2. QED BY <2>2, <3>1
  <2>3. Len(r) < Len(s) \/ Len(s) < Len(r) \/ Len(r) = Len(s)
    BY <2>1
  <2>4. QED BY <2>1, <2>2, <2>3
<1>3. PICK c : /\ c[0] = <<>> /\ Carried(k, r) = c[Len(r)]
               /\ \A i \in 1..Len(r) : c[i] = IF r[i].kind = k THEN Append(c[i - 1], r[i].n) ELSE c[i - 1]
  BY CarriedSteps
<1> DEFINE T == {i \in 0..Len(s) : /\ c[i] \in Seq(N) /\ Len(c[i]) = i
                                   /\ \A j \in 1..i : c[i][j] = s[j]}
<1>4. 0 \in T
  <2>1. <<>> \in Seq(N) /\ 0 \in 0..Len(s) /\ Len(<<>>) = 0 /\ 1..0 = {}
    BY <1>1
  <2>2. QED BY <1>3, <2>1
<1>5. ASSUME NEW i \in 1..Len(s), i - 1 \in T
      PROVE  i \in T
  <2>1. /\ c[i - 1] \in Seq(N) /\ Len(c[i - 1]) = i - 1 /\ \A j \in 1..(i - 1) : c[i - 1][j] = s[j]
        /\ i \in 0..Len(s)
    BY <1>1, <1>5
  <2>2. c[i] = Append(c[i - 1], s[i]) /\ s[i] \in N
    <3>1. r[i].kind = k /\ r[i].n = s[i] /\ s[i] \in N
      BY <1>1
    <3>2. i \in 1..Len(r)
      BY <1>2
    <3>3. QED BY <1>3, <3>1, <3>2
  <2>3. Append(c[i - 1], s[i]) \in Seq(N) /\ Len(Append(c[i - 1], s[i])) = i
    BY <2>1, <2>2
  <2>4. \A j \in 1..i : Append(c[i - 1], s[i])[j] = s[j]
    BY <2>1, <2>2
  <2>5. QED BY <2>1, <2>2, <2>3, <2>4
<1> HIDE DEF T
<1>6. \A i \in 0..Len(s) : i \in T
  BY <1>1, <1>4, <1>5, UpTo
<1>7. Len(s) \in T
  <2>1. Len(s) \in 0..Len(s)
    BY <1>1
  <2>2. QED BY <1>6, <2>1
<1>8. Carried(k, r) = s
  <2>1. /\ c[Len(s)] \in Seq(N) /\ Len(c[Len(s)]) = Len(s)
        /\ \A j \in 1..Len(s) : c[Len(s)][j] = s[j]
    BY <1>7 DEF T
  <2>2. c[Len(s)] = s
    BY <2>1, SeqEqual
  <2>3. QED BY <1>2, <1>3, <2>2
<1>9. ASSUME NEW j, j # k
      PROVE  Carried(j, r) = <<>>
  <2>1. ~Has(r, j)
    BY <1>1, <1>9 DEF Has, Range
  <2>2. QED BY <2>1, CarriedNone
<1>10. QED BY <1>8, <1>9
-----------------------------------------------------------------------------
(* Order between two kinds of messages of a connection.                    *)

\* Every message of kind k is followed by one of kind l.
FollowedBy(q, k, l) == \A i \in DOMAIN q : q[i].kind = k => \E j \in DOMAIN q : i < j /\ q[j].kind = l

\* A message of kind l follows all that are there, and what is left of a stream stays followed.
LEMMA FollowedParts ==
  ASSUME NEW S, NEW q \in Seq(S), NEW k, NEW l, k # l
  PROVE  /\ FollowedBy(q, k, l) /\ ~Has(q, l) => ~Has(q, k)
         /\ q # <<>> /\ FollowedBy(q, k, l) => FollowedBy(Tail(q), k, l)
         /\ \A m \in S : m.kind = l => FollowedBy(Append(q, m), k, l)
         /\ \A m \in S : m.kind # k /\ FollowedBy(q, k, l) => FollowedBy(Append(q, m), k, l)
<1>1. ASSUME FollowedBy(q, k, l), ~Has(q, l)
      PROVE  ~Has(q, k)
  BY <1>1 DEF FollowedBy, Has, Range
<1>2. ASSUME q # <<>>, FollowedBy(q, k, l)
      PROVE  FollowedBy(Tail(q), k, l)
  <2> DEFINE t == Tail(q)
  <2>1. /\ DOMAIN q = 1..Len(q) /\ DOMAIN t = 1..(Len(q) - 1) /\ Len(q) \in Nat
        /\ \A i \in DOMAIN t : t[i] = q[i + 1]
    BY <1>2
  <2> HIDE DEF t
  <2>2. ASSUME NEW i \in DOMAIN t, t[i].kind = k
        PROVE  \E j \in DOMAIN t : i < j /\ t[j].kind = l
    <3>1. i + 1 \in DOMAIN q /\ q[i + 1].kind = k
      BY <2>1, <2>2
    <3>2. PICK j \in DOMAIN q : i + 1 < j /\ q[j].kind = l
      BY <1>2, <3>1 DEF FollowedBy
    <3>3. j - 1 \in DOMAIN t /\ i < j - 1 /\ (j - 1) + 1 = j
      BY <2>1, <3>2
    <3>4. QED BY <2>1, <3>2, <3>3
  <2>3. QED BY <2>2 DEF FollowedBy, t
<1>3. ASSUME NEW m \in S, m.kind = l \/ (m.kind # k /\ FollowedBy(q, k, l))
      PROVE  FollowedBy(Append(q, m), k, l)
  <2> DEFINE w == Append(q, m)
  <2>1. /\ DOMAIN w = 1..(Len(q) + 1) /\ DOMAIN q = 1..Len(q) /\ Len(q) \in Nat
        /\ w[Len(q) + 1] = m /\ \A i \in DOMAIN q : w[i] = q[i]
    OBVIOUS
  <2> HIDE DEF w
  <2>2. /\ Len(q) + 1 \in DOMAIN w
        /\ \A i \in DOMAIN w : i = Len(q) + 1 \/ (i \in DOMAIN q /\ i < Len(q) + 1)
        /\ \A i \in DOMAIN q : i \in DOMAIN w
    BY <2>1
  <2>3. ASSUME m.kind = l
        PROVE  FollowedBy(w, k, l)
    BY <2>1, <2>2, <2>3 DEF FollowedBy
  <2>4. ASSUME m.kind # k, FollowedBy(q, k, l)
        PROVE  FollowedBy(w, k, l)
    BY <2>1, <2>2, <2>4 DEF FollowedBy
  <2>5. FollowedBy(w, k, l)
    BY <1>3, <2>3, <2>4
  <2>6. QED BY <2>5 DEF w
<1>4. QED BY <1>1, <1>2, <1>3
-----------------------------------------------------------------------------
(* A queue of numbers that is carried by a connection, a buffer and        *)
(* another connection.                                                     *)

\* A sequence over a set holds elements of it.
LEMMA RangeWithin ==
  ASSUME NEW N, NEW s \in Seq(N)
  PROVE  Range(s) \subseteq N
BY DEF Range

\* The pieces of output that a connection carries.
OutputOn(q) == Carried("output", q)

\* They are numbers, and a message of another kind makes no difference.
LEMMA StreamIn ==
  ASSUME NEW S, \A m \in S : m.n \in Nat, NEW q \in Seq(S)
  PROVE  /\ OutputOn(q) \in Seq(Nat)
         /\ ~Has(q, "output") => OutputOn(q) = <<>>
         /\ \A m \in S : m.kind # "output" => OutputOn(Append(q, m)) = OutputOn(q)
         /\ q # <<>> /\ Head(q).kind # "output" => OutputOn(Tail(q)) = OutputOn(q)
         /\ q # <<>> /\ Head(q).kind = "output" =>
              /\ OutputOn(q) = <<Head(q).n>> \o OutputOn(Tail(q))
              /\ Head(q).n \in Nat
         /\ q # <<>> => OutputOn(Tail(q)) \in Seq(Nat)
<1>1. \A m \in S : m.n \in Nat
  OBVIOUS
<1>2. Range(q) \subseteq S
  BY RangeWithin
<1>3. \A m \in Range(q) : m.kind = "output" => m.n \in Nat
  BY <1>1, <1>2
<1>4. OutputOn(q) \in Seq(Nat)
  BY <1>3, CarriedType DEF OutputOn
<1>5. ~Has(q, "output") => OutputOn(q) = <<>>
  BY CarriedNone DEF OutputOn
<1>6. ASSUME NEW m \in S, m.kind # "output"
      PROVE  OutputOn(Append(q, m)) = OutputOn(q)
  <2>1. \A x \in Range(q) \cup {m} : x.kind = "output" => x.n \in Nat
    BY <1>3, <1>6
  <2>2. QED BY <1>6, <2>1, CarriedSent DEF OutputOn
<1>7. ASSUME q # <<>>
      PROVE  /\ OutputOn(Tail(q)) \in Seq(Nat)
             /\ Head(q).kind # "output" => OutputOn(Tail(q)) = OutputOn(q)
             /\ Head(q).kind = "output" => OutputOn(q) = <<Head(q).n>> \o OutputOn(Tail(q)) /\ Head(q).n \in Nat
  <2>1. /\ Carried("output", Tail(q)) \in Seq(Nat)
        /\ Head(q).kind = "output" => Carried("output", q) = <<Head(q).n>> \o Carried("output", Tail(q))
        /\ Head(q).kind # "output" => Carried("output", q) = Carried("output", Tail(q))
    BY <1>3, <1>7, CarriedTaken
  <2>2. Head(q) \in S
    BY <1>7
  <2>3. QED BY <1>1, <2>1, <2>2 DEF OutputOn
<1>8. QED BY <1>4, <1>5, <1>6, <1>7

\* Pieces that are sent join it.
LEMMA StreamJoined ==
  ASSUME NEW S, \A m \in S : m.n \in Nat, NEW q \in Seq(S), NEW b \in Seq(Nat),
         NEW p \in Seq(S), Packs(p, "output", b)
  PROVE  /\ OutputOn(q \o p) = OutputOn(q) \o b
         /\ \A m \in S : m.kind # "output" => OutputOn(q \o <<m>> \o p) = OutputOn(q) \o b
<1>1. OutputOn(p) = b
  BY CarriedPacked DEF OutputOn
<1>2. ASSUME NEW r \in Seq(S)
      PROVE  OutputOn(r \o p) = OutputOn(r) \o b
  <2>1. \A m \in Range(r) \cup Range(p) : m.kind = "output" => m.n \in Nat
    <3>1. Range(r) \subseteq S /\ Range(p) \subseteq S
      BY RangeWithin
    <3>2. QED BY <3>1
  <2>2. Carried("output", r \o p) = Carried("output", r) \o Carried("output", p)
    BY <2>1, CarriedJoined
  <2>3. QED BY <1>1, <2>2 DEF OutputOn
<1>3. ASSUME NEW m \in S, m.kind # "output"
      PROVE  OutputOn(q \o <<m>> \o p) = OutputOn(q) \o b
  <2>1. q \o <<m>> = Append(q, m) /\ Append(q, m) \in Seq(S)
    BY AppendIsConcat
  <2>2. OutputOn(Append(q, m)) = OutputOn(q)
    BY <1>3, StreamIn
  <2>3. OutputOn(Append(q, m) \o p) = OutputOn(Append(q, m)) \o b
    BY <1>2, <2>1
  <2>4. QED BY <2>1, <2>2, <2>3, Zenon
<1>4. QED BY <1>2, <1>3

\* The queue and its three parts.
LEMMA QueueParts ==
  ASSUME NEW a \in Seq(Nat), NEW b \in Seq(Nat), NEW d \in Seq(Nat)
  PROVE  /\ a \o b \o d \in Seq(Nat) /\ a \o b \in Seq(Nat)
         /\ a \o b \o <<>> = a \o b /\ a \o <<>> \o d = a \o d /\ <<>> \o <<>> \o d = d
         /\ a \o <<>> \o <<>> = a
         /\ a \o b \o d = a \o (b \o d) /\ b \o d \in Seq(Nat)
         /\ Len(a \o b \o d) = Len(a) + Len(b) + Len(d)
         /\ Len(a) \in Nat /\ Len(b) \in Nat /\ Len(d) \in Nat
<1>1. a \o b \in Seq(Nat) /\ Len(a \o b) = Len(a) + Len(b) /\ b \o d \in Seq(Nat)
  BY ConcatProperties
<1>2. a \o b \o d \in Seq(Nat) /\ Len(a \o b \o d) = Len(a \o b) + Len(d)
  BY <1>1, ConcatProperties
<1>3. a \o b \o d = a \o (b \o d)
  BY ConcatAssociative, SMTT(60)
<1>4. a \o <<>> = a /\ <<>> \o d = d /\ a \o b \o <<>> = a \o b
  BY <1>1, ConcatEmptySeq
<1>5. <<>> \o <<>> = <<>>
  <2>1. <<>> \in Seq(Nat)
    OBVIOUS
  <2>2. QED BY <2>1, ConcatEmptySeq
<1>6. Len(a) \in Nat /\ Len(b) \in Nat /\ Len(d) \in Nat
  OBVIOUS
<1>7. QED BY <1>1, <1>2, <1>3, <1>4, <1>5, <1>6

\* A beginning of a queue is one of those a cut may keep.
LEMMA PrefixKept ==
  ASSUME NEW s \in Seq(Nat), NEW r \in Seq(Nat)
  PROVE  \E kept \in 0..Len(s \o r) : s = SubSeq(s \o r, 1, kept)
<1> DEFINE q == s \o r
<1>1. /\ q \in Seq(Nat) /\ Len(q) = Len(s) + Len(r) /\ Len(s) \in Nat /\ Len(r) \in Nat
      /\ \A i \in 1..(Len(s) + Len(r)) : q[i] = IF i <= Len(s) THEN s[i] ELSE r[i - Len(s)]
  BY ConcatProperties
<1> HIDE DEF q
<1>2. Len(s) \in 0..Len(q) /\ Len(s) \in Int /\ 1 \in Int
  BY <1>1
<1>3. \A i \in 1..Len(s) : q[i] = s[i] /\ q[i] \in Nat
  BY <1>1
<1>4. /\ SubSeq(q, 1, Len(s)) \in Seq(Nat)
      /\ Len(SubSeq(q, 1, Len(s))) = IF 1 <= Len(s) THEN Len(s) - 1 + 1 ELSE 0
      /\ \A i \in 1..(Len(s) - 1 + 1) : SubSeq(q, 1, Len(s))[i] = q[1 + i - 1]
  BY <1>2, <1>3, SubSeqProperties
<1>5. /\ Len(SubSeq(q, 1, Len(s))) = Len(s)
      /\ \A i \in 1..Len(s) : SubSeq(q, 1, Len(s))[i] = s[i]
  <2>1. Len(s) - 1 + 1 = Len(s) /\ \A i \in 1..Len(s) : 1 + i - 1 = i
    BY <1>1
  <2>2. QED BY <1>1, <1>3, <1>4, <2>1
<1>6. SubSeq(q, 1, Len(s)) = s
  BY <1>4, <1>5, SeqEqual
<1>7. QED BY <1>2, <1>6 DEF q

\* The first piece of a queue, and the rest.
LEMMA HeadJoined ==
  ASSUME NEW n \in Nat, NEW s \in Seq(Nat)
  PROVE  <<n>> \o s # <<>> /\ Head(<<n>> \o s) = n /\ Tail(<<n>> \o s) = s
<1> DEFINE w == <<n>> \o s
<1>1. /\ w \in Seq(Nat) /\ Len(w) = 1 + Len(s) /\ w[1] = n /\ Len(s) \in Nat
      /\ \A i \in 1..Len(s) : w[i + 1] = s[i]
  OBVIOUS
<1> HIDE DEF w
<1>2. w # <<>> /\ Head(w) = n
  BY <1>1
<1>3. Tail(w) \in Seq(Nat) /\ Len(Tail(w)) = Len(s) /\ \A i \in 1..Len(s) : Tail(w)[i] = s[i]
  BY <1>1, <1>2
<1>4. Tail(w) = s
  BY <1>3, SeqEqual
<1>5. QED BY <1>2, <1>4 DEF w

\* A piece is written to the last part of the queue that is not empty.
LEMMA QueueWritten ==
  ASSUME NEW a \in Seq(Nat), NEW b \in Seq(Nat), NEW d \in Seq(Nat), NEW n \in Nat
  PROVE  /\ a \o b \o Append(d, n) = Append(a \o b \o d, n)
         /\ a \o Append(b, n) \o <<>> = Append(a \o b \o <<>>, n)
         /\ Append(a, n) \o <<>> \o <<>> = Append(a \o <<>> \o <<>>, n)
         /\ Append(a, n) = a \o <<n>>
<1>1. /\ \A s \in Seq(Nat) : Append(s, n) = s \o <<n>> /\ Append(s, n) \in Seq(Nat)
      /\ <<n>> \in Seq(Nat) /\ <<>> \in Seq(Nat)
  <2>1. <<n>> \in Seq(Nat) /\ <<>> \in Seq(Nat) /\ \A s \in Seq(Nat) : Append(s, n) \in Seq(Nat)
    OBVIOUS
  <2>2. \A s \in Seq(Nat) : Append(s, n) = s \o <<n>>
    BY AppendIsConcat
  <2>3. QED BY <2>1, <2>2
<1>2. a \o b \in Seq(Nat) /\ a \o b \o d \in Seq(Nat)
  BY QueueParts
<1>3. a \o b \o (d \o <<n>>) = a \o b \o d \o <<n>>
  BY <1>1, <1>2, ConcatAssociative, SMTT(60)
<1>4. a \o (b \o <<n>>) = a \o b \o <<n>>
  BY <1>1, <1>2, ConcatAssociative, SMTT(60)
<1>5. \A s \in Seq(Nat) : s \o <<>> = s
  BY ConcatEmptySeq
<1>6. a \o b \o <<>> = a \o b /\ a \o Append(b, n) \o <<>> = a \o Append(b, n)
  <2>1. a \o Append(b, n) \in Seq(Nat)
    BY <1>1, QueueParts
  <2>2. QED BY <1>2, <1>5, <2>1
<1>7. Append(a, n) \o <<>> \o <<>> = Append(a, n) /\ a \o <<>> \o <<>> = a
  BY <1>1, <1>5
<1>8. a \o b \o Append(d, n) = Append(a \o b \o d, n)
  BY <1>1, <1>2, <1>3, Zenon
<1>9. a \o Append(b, n) \o <<>> = Append(a \o b \o <<>>, n)
  BY <1>1, <1>2, <1>4, <1>6, Zenon
<1>10. QED BY <1>1, <1>7, <1>8, <1>9
\* A reader has read numbers up to w in order and without repetition, and those on their way come after.
Delivered(w, q, s) ==
  /\ w \in Nat /\ q \in Seq(Nat) /\ s \in Seq(Nat)
  /\ Ascends(s) /\ Ascends(q) /\ Before(Range(s), Range(q))
  /\ Range(s) \cup Range(q) \subseteq 1..w

\* A number greater than all of a sequence may be appended to it.
LEMMA AscendsOn ==
  ASSUME NEW s \in Seq(Nat), NEW n \in Nat, Ascends(s), \A x \in Range(s) : x < n
  PROVE  Append(s, n) \in Seq(Nat) /\ Ascends(Append(s, n)) /\ Range(Append(s, n)) = Range(s) \cup {n}
<1> DEFINE t == Append(s, n)
<1>1. /\ t \in Seq(Nat) /\ DOMAIN t = 1..(Len(s) + 1) /\ DOMAIN s = 1..Len(s) /\ Len(s) \in Nat
      /\ t[Len(s) + 1] = n /\ \A i \in 1..Len(s) : t[i] = s[i]
  OBVIOUS
<1> HIDE DEF t
<1>2. \A i \in 1..Len(s) : s[i] < n
  BY <1>1 DEF Range
<1>3. Ascends(t)
  <2>1. ASSUME NEW i \in DOMAIN t, NEW j \in DOMAIN t, i < j
        PROVE  t[i] < t[j]
    <3>1. i \in 1..Len(s)
      BY <1>1, <2>1
    <3>2. CASE j = Len(s) + 1
      BY <1>1, <1>2, <3>1, <3>2
    <3>3. CASE j \in 1..Len(s)
      BY <1>1, <2>1, <3>1, <3>3 DEF Ascends
    <3>4. QED BY <1>1, <3>2, <3>3
  <2>2. QED BY <2>1 DEF Ascends
<1>4. Range(t) = Range(s) \cup {n}
  <2>1. Len(s) + 1 \in DOMAIN t /\ \A i \in DOMAIN s : i \in DOMAIN t
    BY <1>1
  <2>2. \A i \in DOMAIN t : i \in DOMAIN s \/ i = Len(s) + 1
    BY <1>1
  <2>3. QED BY <1>1, <2>1, <2>2 DEF Range
<1>5. QED BY <1>1, <1>3, <1>4 DEF t

\* The beginning and the rest of an ascending sequence.
LEMMA AscendsIn ==
  ASSUME NEW s \in Seq(Nat), Ascends(s)
  PROVE  /\ \A k \in 0..Len(s) : LET r == SubSeq(s, 1, k)
                                 IN  r \in Seq(Nat) /\ Ascends(r) /\ Range(r) \subseteq Range(s)
         /\ s # <<>> => /\ Tail(s) \in Seq(Nat) /\ Ascends(Tail(s)) /\ Range(Tail(s)) \subseteq Range(s)
                        /\ Head(s) \in Range(s) /\ \A x \in Range(Tail(s)) : Head(s) < x
<1>1. DOMAIN s = 1..Len(s) /\ Len(s) \in Nat /\ \A i \in 1..Len(s) : s[i] \in Nat /\ s[i] \in Range(s)
  BY DEF Range
<1>2. ASSUME NEW k \in 0..Len(s)
      PROVE  LET r == SubSeq(s, 1, k) IN r \in Seq(Nat) /\ Ascends(r) /\ Range(r) \subseteq Range(s)
  <2> DEFINE r == SubSeq(s, 1, k)
  <2>1. k \in Int /\ 1 \in Int /\ \A i \in 1..k : s[i] \in Nat
    BY <1>1
  <2>2. /\ r \in Seq(Nat)
        /\ Len(r) = IF 1 <= k THEN k - 1 + 1 ELSE 0
        /\ \A i \in 1..(k - 1 + 1) : r[i] = s[1 + i - 1]
    BY <2>1, SubSeqProperties
  <2> HIDE DEF r
  <2>3. DOMAIN r = 1..k /\ \A i \in 1..k : r[i] = s[i] /\ i \in 1..Len(s)
    <3>1. Len(r) = k /\ k - 1 + 1 = k /\ \A i \in 1..k : 1 + i - 1 = i /\ i \in 1..Len(s)
      BY <1>1, <2>2
    <3>2. DOMAIN r = 1..k
      BY <2>2, <3>1
    <3>3. ASSUME NEW i \in 1..k
          PROVE  r[i] = s[i] /\ i \in 1..Len(s)
      <4>1. r[i] = s[1 + i - 1]
        BY <2>2, <3>1
      <4>2. QED BY <3>1, <4>1
    <3>4. QED BY <3>2, <3>3
  <2>4. Ascends(r)
    BY <1>1, <2>3 DEF Ascends
  <2>5. Range(r) \subseteq Range(s)
    BY <1>1, <2>3 DEF Range
  <2>6. QED BY <2>2, <2>4, <2>5 DEF r
<1>3. ASSUME s # <<>>
      PROVE  /\ Tail(s) \in Seq(Nat) /\ Ascends(Tail(s)) /\ Range(Tail(s)) \subseteq Range(s)
             /\ Head(s) \in Range(s) /\ \A x \in Range(Tail(s)) : Head(s) < x
  <2> DEFINE t == Tail(s)
  <2>1. /\ t \in Seq(Nat) /\ DOMAIN t = 1..(Len(s) - 1) /\ Head(s) = s[1] /\ 1 \in 1..Len(s)
        /\ \A i \in DOMAIN t : t[i] = s[i + 1]
    BY <1>3
  <2> HIDE DEF t
  <2>2. \A i \in DOMAIN t : i + 1 \in DOMAIN s /\ 1 < i + 1 /\ \A j \in DOMAIN t : i < j => i + 1 < j + 1
    BY <1>1, <2>1
  <2>3. Ascends(t)
    BY <2>1, <2>2 DEF Ascends
  <2>4. Range(t) \subseteq Range(s)
    BY <2>1, <2>2 DEF Range
  <2>5. \A x \in Range(t) : Head(s) < x
    <3>1. \A i \in DOMAIN t : s[1] < s[i + 1]
      BY <1>1, <2>1, <2>2 DEF Ascends
    <3>2. QED BY <2>1, <3>1 DEF Range
  <2>6. Head(s) \in Range(s)
    BY <1>1, <2>1
  <2>7. QED BY <2>1, <2>3, <2>4, <2>5, <2>6 DEF t
<1>4. QED BY <1>2, <1>3

\* It stays so when a number is written, read, or lost with all that are behind it: the steps of BytePipe.
LEMMA DeliveredOn ==
  ASSUME NEW w, NEW q, NEW s, Delivered(w, q, s)
  PROVE  /\ Delivered(w + 1, q, s) /\ Delivered(w + 1, Append(q, w + 1), s)
         /\ q # <<>> => Delivered(w, Tail(q), Append(s, Head(q)))
         /\ \A kept \in 0..Len(q) : /\ Delivered(w, SubSeq(q, 1, kept), s)
                                    /\ Delivered(w + 1, SubSeq(q, 1, kept), s)
<1>1. /\ w \in Nat /\ q \in Seq(Nat) /\ s \in Seq(Nat) /\ Ascends(s) /\ Ascends(q)
      /\ \A x \in Range(s), y \in Range(q) : x < y
      /\ \A x \in Range(s) \cup Range(q) : x \in 1..w
  BY DEF Delivered, Before
<1>2. w + 1 \in Nat /\ \A x \in 1..w : x < w + 1 /\ x \in 1..(w + 1)
  BY <1>1
<1>3. w + 1 \in 1..(w + 1)
  BY <1>1
<1>4. Delivered(w + 1, q, s)
  BY <1>1, <1>2 DEF Delivered, Before
<1>5. Delivered(w + 1, Append(q, w + 1), s)
  <2>1. /\ Append(q, w + 1) \in Seq(Nat) /\ Ascends(Append(q, w + 1))
        /\ Range(Append(q, w + 1)) = Range(q) \cup {w + 1}
    BY <1>1, <1>2, AscendsOn
  <2>2. QED BY <1>1, <1>2, <1>3, <2>1 DEF Delivered, Before
<1>6. ASSUME q # <<>>
      PROVE  Delivered(w, Tail(q), Append(s, Head(q)))
  <2>1. /\ Tail(q) \in Seq(Nat) /\ Ascends(Tail(q)) /\ Range(Tail(q)) \subseteq Range(q)
        /\ Head(q) \in Range(q) /\ \A x \in Range(Tail(q)) : Head(q) < x
    BY <1>1, <1>6, AscendsIn
  <2>2. Head(q) \in Nat /\ \A x \in Range(s) : x < Head(q)
    BY <1>1, <2>1
  <2>3. /\ Append(s, Head(q)) \in Seq(Nat) /\ Ascends(Append(s, Head(q)))
        /\ Range(Append(s, Head(q))) = Range(s) \cup {Head(q)}
    BY <1>1, <2>2, AscendsOn
  <2>4. QED BY <1>1, <2>1, <2>3 DEF Delivered, Before
<1>7. ASSUME NEW kept \in 0..Len(q)
      PROVE  Delivered(w, SubSeq(q, 1, kept), s) /\ Delivered(w + 1, SubSeq(q, 1, kept), s)
  <2>1. LET r == SubSeq(q, 1, kept) IN r \in Seq(Nat) /\ Ascends(r) /\ Range(r) \subseteq Range(q)
    BY <1>1, AscendsIn
  <2>2. QED BY <1>1, <1>2, <2>1 DEF Delivered, Before
<1>8. QED BY <1>4, <1>5, <1>6, <1>7

\* And of nothing it holds.
LEMMA NothingDelivered == Delivered(0, <<>>, <<>>)
<1>1. Range(<<>>) = {} /\ <<>> \in Seq(Nat) /\ Ascends(<<>>)
  BY DEF Range, Ascends
<1>2. QED BY <1>1 DEF Delivered, Before
=============================================================================
