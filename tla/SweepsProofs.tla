---------------------------- MODULE SweepsProofs ----------------------------
(***************************************************************************)
(* What a pass leaves of a list, for lists of any length: the lemmas about *)
(* module Sweeps, and those on numbers and sequences they rest on.         *)
(***************************************************************************)
EXTENDS Sweeps, FiniteSetTheorems, SequenceTheorems, TLAPS

(* Induction on the natural numbers, for sets: the least element of a set   *)
(* comes from the well-foundedness of <.                                    *)

\* Every set of numbers that is not empty has a least one.
LEMMA LeastNat ==
  ASSUME NEW T \in SUBSET Nat, T # {}
  PROVE  \E x \in T : \A y \in T : x <= y
<1> DEFINE R == {ss \in Nat \X Nat : ss[1] < ss[2]}
<1>1. IsWellFoundedOn(R, Nat)
  BY NatLessThanWellFounded DEF OpToRel
<1>2. PICK x \in T : \A y \in T : <<y, x>> \notin R
  <2> HIDE DEF R
  <2> QED BY <1>1, WFMin
<1>3. ASSUME NEW y \in T PROVE x <= y
  <2>1. x \in Nat /\ y \in Nat
    OBVIOUS
  <2>2. ~(y < x)
    BY <1>2, <2>1
  <2> QED BY <2>1, <2>2
<1> QED BY <1>3

\* A set of numbers up to n has a greatest element.
LEMMA GreatestNat ==
  ASSUME NEW n \in Nat, NEW T \in SUBSET (0..n), T # {}
  PROVE  \E x \in T : \A y \in T : y <= x
<1> DEFINE R == {n - y : y \in T}
<1>1. R \in SUBSET Nat /\ R # {}
  <2>1. ASSUME NEW y \in T PROVE n - y \in Nat
    OBVIOUS
  <2>2. PICK y \in T : TRUE
    OBVIOUS
  <2> QED BY <2>1, <2>2
<1>2. PICK z \in R : \A u \in R : z <= u
  BY <1>1, LeastNat
<1>3. PICK x \in T : z = n - x
  OBVIOUS
<1>4. ASSUME NEW y \in T PROVE y <= x
  <2>1. z <= n - y
    BY <1>2
  <2> QED BY <1>3, <2>1
<1> QED BY <1>4

\* A set with 0 that has the successor of each of its numbers has them all.
LEMMA NatInductionOnSet ==
  ASSUME NEW S, 0 \in S, \A n \in Nat : n \in S => n + 1 \in S
  PROVE  Nat \subseteq S
<1>1. SUFFICES ASSUME Nat \ S # {} PROVE FALSE
  OBVIOUS
<1>2. PICK x \in Nat \ S : \A y \in Nat \ S : x <= y
  BY <1>1, LeastNat
<1>3. x # 0 /\ x - 1 \in Nat
  BY <1>2
<1>4. x - 1 \in S
  BY <1>2, <1>3
<1> QED BY <1>2, <1>3, <1>4

-----------------------------------------------------------------------------
(* Sequences by position.                                                    *)

\* A function on 1..n is a sequence of length n.
LEMMA ASeq ==
  ASSUME NEW S, NEW n \in Nat, NEW c \in [1..n -> S]
  PROVE  c \in Seq(S) /\ Len(c) = n
<1>1. c \in Seq(S)
  BY SeqDef
<1>2. Len(c) \in Nat /\ DOMAIN c = 1..Len(c)
  BY <1>1, LenProperties
<1> QED BY <1>2

\* One more at the end is Append.
LEMMA AppendIs ==
  ASSUME NEW S, NEW n \in Nat, NEW c \in [1..n -> S], NEW v \in S,
         NEW d \in [1..(n + 1) -> S], d[n + 1] = v, \A k \in 1..n : d[k] = c[k]
  PROVE  d = Append(c, v)
<1>1. c \in Seq(S) /\ Len(c) = n
  BY ASeq
<1>2. d \in Seq(S) /\ Len(d) = n + 1
  BY ASeq
<1>3. /\ Append(c, v) \in Seq(S) /\ Len(Append(c, v)) = n + 1
      /\ \A k \in 1..n : Append(c, v)[k] = c[k]
      /\ Append(c, v)[n + 1] = v
  BY <1>1, AppendProperties
<1>4. \A k \in 1..Len(d) : d[k] = Append(c, v)[k]
  <2>1. \A k \in 1..(n + 1) : k \in 1..n \/ k = n + 1
    OBVIOUS
  <2> QED BY <1>2, <1>3, <2>1
<1> QED BY <1>2, <1>3, <1>4, SeqEqual

-----------------------------------------------------------------------------
(* The positions that a pass keeps.                                          *)

\* e lists the positions of K, of those from 1 to n, in their order.
Enumerates(e, c, K, n) ==
  /\ n \in Nat /\ K \subseteq 1..n
  /\ c \in Nat /\ e \in [1..c -> K]
  /\ \A p \in K : \E k \in 1..c : e[k] = p
  /\ \A j, k \in 1..c : j < k => e[j] < e[k]

\* Such a list is in order and names no position twice.
LEMMA Increasing ==
  ASSUME NEW n, NEW K, NEW c, NEW e, Enumerates(e, c, K, n)
  PROVE  /\ \A k \in 1..c : e[k] \in K /\ e[k] \in 1..n
         /\ \A j, k \in 1..c : /\ e[j] <= e[k] <=> j <= k
                               /\ e[j] = e[k] => j = k
<1>1. c \in Nat /\ \A k \in 1..c : e[k] \in K /\ e[k] \in 1..n
  BY DEF Enumerates
<1>2. ASSUME NEW j \in 1..c, NEW k \in 1..c
      PROVE  (e[j] <= e[k] <=> j <= k) /\ (e[j] = e[k] => j = k)
  <2>1. (j < k => e[j] < e[k]) /\ (k < j => e[k] < e[j])
    BY DEF Enumerates
  <2>2. j < k \/ j = k \/ k < j
    BY <1>1
  <2>3. e[j] \in Nat /\ e[k] \in Nat
    BY <1>1
  <2> QED BY <1>1, <2>1, <2>2, <2>3
<1> QED BY <1>1, <1>2

\* The rank of a position is where it is listed.
LEMMA RankIs ==
  ASSUME NEW n, NEW K, NEW c, NEW e, Enumerates(e, c, K, n),
         NEW k \in 1..c
  PROVE  Rank(K, e[k]) = k
<1> DEFINE Q == {q \in K : q <= e[k]}
           f == [j \in 1..k |-> e[j]]
<1>1. c \in Nat /\ k \in Nat /\ \A j \in 1..k : j \in 1..c
  BY DEF Enumerates
<1>2. \A j \in 1..k : e[j] \in Q
  BY <1>1, Increasing
<1>3. ASSUME NEW q \in Q PROVE \E j \in 1..k : e[j] = q
  <2>1. PICK j \in 1..c : e[j] = q
    BY DEF Enumerates
  <2>2. j <= k
    BY <2>1, Increasing
  <2> QED BY <1>1, <2>1, <2>2
<1>4. \A i, j \in 1..k : e[i] = e[j] => i = j
  BY <1>1, Increasing
<1> HIDE DEF Q
<1>5. f \in Injection(1..k, Q)
  <2>1. f \in [1..k -> Q]
    BY <1>2
  <2> QED BY <1>4, <2>1 DEF Injection, IsInjective
<1>6. f \in Surjection(1..k, Q)
  <2>1. f \in [1..k -> Q]
    BY <1>2
  <2>2. \A q \in Q : \E j \in 1..k : f[j] = q
    BY <1>3
  <2> QED BY <2>1, <2>2 DEF Surjection
<1>7. ExistsBijection(1..k, Q)
  BY <1>5, <1>6 DEF ExistsBijection, Bijection
<1>8. Cardinality(Q) = k
  BY <1>1, <1>7, FS_CountingElements
<1> QED BY <1>8 DEF Rank, Q

\* There are as many positions as are listed.
LEMMA EnumeratedSize ==
  ASSUME NEW n, NEW K, NEW c, NEW e, Enumerates(e, c, K, n)
  PROVE  Cardinality(K) = c
<1>1. c \in Nat /\ e \in [1..c -> K]
  BY DEF Enumerates
<1>2. \A j, k \in 1..c : e[j] = e[k] => j = k
  BY Increasing
<1>3. e \in Injection(1..c, K)
  BY <1>1, <1>2 DEF Injection, IsInjective
<1>4. e \in Surjection(1..c, K)
  BY <1>1 DEF Enumerates, Surjection
<1>5. ExistsBijection(1..c, K)
  BY <1>3, <1>4 DEF ExistsBijection, Bijection
<1> QED BY <1>1, <1>5, FS_CountingElements

\* Keep of module Sweeps keeps the items at the positions listed.
LEMMA KeepIs ==
  ASSUME NEW S, NEW w \in Seq(S), NEW K, NEW c, NEW e, Enumerates(e, c, K, Len(w))
  PROVE  Keep(w, K) = [k \in 1..c |-> w[e[k]]]
<1>1. PICK n : n = Len(w)
  OBVIOUS
<1>2. /\ n \in Nat /\ w \in [1..n -> S] /\ DOMAIN w = 1..n /\ K \subseteq 1..n
      /\ Enumerates(e, c, K, n)
  BY <1>1, LenProperties DEF Enumerates
<1>3. Cardinality(K) = c /\ c \in Nat
  <2>1. c \in Nat
    BY <1>2 DEF Enumerates
  <2> QED BY <1>2, <2>1, EnumeratedSize
<1>4. \A k \in 1..c : Rank(K, e[k]) = k /\ e[k] \in K
  BY <1>2, RankIs, Increasing
<1>5. CASE K = DOMAIN w
  <2>1. c = n
    <3>1. Cardinality(1..n) = n
      BY <1>2, FS_Interval
    <3> QED BY <1>2, <1>3, <1>5, <3>1
  <2>2. ASSUME NEW k \in 1..c PROVE e[k] = k
    <3>1. e[k] \in 1..n
      BY <1>2, <1>4
    <3>2. {q \in K : q <= e[k]} = 1..e[k]
      BY <1>2, <1>5, <3>1
    <3>3. Cardinality(1..e[k]) = e[k]
      <4>1. 1 \in Int /\ e[k] \in Int /\ ~(1 > e[k]) /\ e[k] - 1 + 1 = e[k]
        BY <1>2, <3>1
      <4> QED BY <4>1, FS_Interval
    <3> QED BY <1>4, <3>2, <3>3 DEF Rank
  <2>3. [k \in 1..c |-> w[e[k]]] = [k \in 1..c |-> w[k]]
    BY <2>2
  <2> QED BY <1>2, <1>5, <2>1, <2>3 DEF Keep
<1>6. CASE K # DOMAIN w
  <2>1. ASSUME NEW k \in 1..c PROVE (CHOOSE p \in K : Rank(K, p) = k) = e[k]
    <3> DEFINE p == CHOOSE q \in K : Rank(K, q) = k
    <3>1. p \in K /\ Rank(K, p) = k
      BY <1>4
    <3> HIDE DEF p
    <3>2. PICK j \in 1..c : e[j] = p
      BY <3>1 DEF Enumerates
    <3>3. j = k
      BY <1>4, <3>1, <3>2
    <3> QED BY <3>2, <3>3 DEF p
  <2>2. Keep(w, K) = [k \in 1..c |-> w[CHOOSE p \in K : Rank(K, p) = k]]
    BY <1>3, <1>6 DEF Keep
  <2> QED BY <2>1, <2>2
<1> QED BY <1>5, <1>6

\* Every set of positions can be listed in order.
LEMMA Enumerated ==
  ASSUME NEW n \in Nat, NEW K \in SUBSET (1..n)
  PROVE  \E c, e : Enumerates(e, c, K, n)
<1> DEFINE S == {m \in Nat : \A L \in SUBSET (1..m) : \E c, e : Enumerates(e, c, L, m)}
<1>1. 0 \in S
  <2>1. \A L \in SUBSET (1..0) : Enumerates([k \in 1..0 |-> 0], 0, L, 0)
    BY DEF Enumerates
  <2> QED BY <2>1
<1>2. ASSUME NEW m \in Nat, m \in S PROVE m + 1 \in S
  <2> SUFFICES ASSUME NEW L \in SUBSET (1..(m + 1))
               PROVE  \E c, e : Enumerates(e, c, L, m + 1)
    OBVIOUS
  <2> DEFINE low == L \ {m + 1}
  <2>1. low \in SUBSET (1..m)
    OBVIOUS
  <2>2. PICK c, e : Enumerates(e, c, low, m)
    BY <1>2, <2>1
  <2>3. /\ c \in Nat /\ e \in [1..c -> low]
        /\ \A p \in low : \E k \in 1..c : e[k] = p
        /\ \A j, k \in 1..c : j < k => e[j] < e[k]
    BY <2>2 DEF Enumerates
  <2>4. CASE m + 1 \notin L
    <3>1. low = L
      BY <2>4
    <3>2. e \in [1..c -> L] /\ \A p \in L : \E k \in 1..c : e[k] = p
      BY <2>3, <3>1
    <3>3. Enumerates(e, c, L, m + 1)
      BY <2>3, <3>2 DEF Enumerates
    <3> QED BY <3>3
  <2>5. CASE m + 1 \in L
    <3> DEFINE d == [k \in 1..(c + 1) |-> IF k <= c THEN e[k] ELSE m + 1]
    <3>1. \A k \in 1..c : d[k] = e[k] /\ e[k] \in low /\ k \in 1..(c + 1)
      BY <2>3
    <3>2. /\ d[c + 1] = m + 1 /\ c + 1 \in 1..(c + 1)
          /\ \A k \in 1..(c + 1) : k \in 1..c \/ k = c + 1
      BY <2>3
    <3>3. d \in [1..(c + 1) -> L]
      BY <2>5, <3>1, <3>2
    <3> HIDE DEF d
    <3>4. ASSUME NEW p \in L PROVE \E k \in 1..(c + 1) : d[k] = p
      <4>1. CASE p = m + 1
        BY <3>2, <4>1
      <4>2. CASE p # m + 1
        <5>1. PICK k \in 1..c : e[k] = p
          BY <2>3, <4>2
        <5> QED BY <3>1, <5>1
      <4> QED BY <4>1, <4>2
    <3>5. ASSUME NEW j \in 1..(c + 1), NEW k \in 1..(c + 1), j < k PROVE d[j] < d[k]
      <4>1. j \in 1..c
        BY <2>3, <3>5
      <4>2. CASE k \in 1..c
        BY <2>3, <3>1, <3>5, <4>1, <4>2
      <4>3. CASE k = c + 1
        <5>1. d[j] \in 1..m
          BY <2>1, <3>1, <4>1
        <5> QED BY <3>2, <4>3, <5>1
      <4> QED BY <3>2, <4>2, <4>3
    <3>6. Enumerates(d, c + 1, L, m + 1)
      BY <2>3, <3>3, <3>4, <3>5 DEF Enumerates
    <3> QED BY <3>6
  <2> QED BY <2>4, <2>5
<1>3. n \in S
  <2> HIDE DEF S
  <2> QED BY <1>1, <1>2, NatInductionOnSet
<1> QED BY <1>3

\* t is what is left of w, in its order, when only the positions of K are kept.
PartOf(w, K, c, e, t) ==
  Enumerates(e, c, K, Len(w)) /\ t = [k \in 1..c |-> w[e[k]]]

\* Keep leaves what it is told to keep.
LEMMA KeptIs ==
  ASSUME NEW S, NEW w \in Seq(S), NEW K \in SUBSET (DOMAIN w), NEW t, t = Keep(w, K)
  PROVE  t \in Seq(S) /\ \E c, e : PartOf(w, K, c, e, t)
<1>1. Len(w) \in Nat /\ DOMAIN w = 1..Len(w) /\ w \in [1..Len(w) -> S]
  BY LenProperties
<1>2. PICK c, e : Enumerates(e, c, K, Len(w))
  BY <1>1, Enumerated
<1>3. t = [k \in 1..c |-> w[e[k]]]
  BY <1>2, KeepIs
<1>4. c \in Nat /\ [k \in 1..c |-> w[e[k]]] \in [1..c -> S]
  BY <1>1, <1>2 DEF Enumerates
<1>5. t \in Seq(S)
  BY <1>3, <1>4, ASeq
<1> QED BY <1>2, <1>3, <1>5 DEF PartOf

\* The items of such a part are those of the list at the positions in K, each once.
LEMMA PartIs ==
  ASSUME NEW S, NEW w \in Seq(S), NEW K, NEW c, NEW e, NEW t, PartOf(w, K, c, e, t)
  PROVE  /\ c \in Nat /\ DOMAIN t = 1..c
         /\ \A i \in 1..c : e[i] \in K /\ e[i] \in 1..Len(w) /\ t[i] = w[e[i]]
         /\ \A i, j \in 1..c : e[i] = e[j] => i = j
         /\ \A p \in K : \E i \in 1..c : e[i] = p
<1>1. Enumerates(e, c, K, Len(w)) /\ t = [k \in 1..c |-> w[e[k]]]
  BY DEF PartOf
<1>2. c \in Nat /\ \A p \in K : \E i \in 1..c : e[i] = p
  BY <1>1 DEF Enumerates
<1>3. /\ \A i \in 1..c : e[i] \in K /\ e[i] \in 1..Len(w)
      /\ \A i, j \in 1..c : e[i] = e[j] => i = j
  BY <1>1, Increasing
<1> QED BY <1>1, <1>2, <1>3

\* The counted loop leaves all but what it deletes.
LEMMA SweepIs ==
  ASSUME NEW S, NEW w \in Seq(S), NEW bad, NEW t, t = CountedSweep(w, bad)
  PROVE  /\ t \in Seq(S)
         /\ \E c, e : PartOf(w, DOMAIN w \ SweptAt(w, bad), c, e, t)
BY KeptIs DEF CountedSweep
=============================================================================
