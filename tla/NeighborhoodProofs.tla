------------------------- MODULE NeighborhoodProofs -------------------------
(***************************************************************************)
(* What the buckets of a node promise, for ids of any width, any own id    *)
(* and any number of neighbours.                                           *)
(***************************************************************************)
EXTENDS Neighborhood, SweepsProofs

(* Powers of two, division by them, and bits.                                *)

\* tlapm knows nothing of powers; that there are 2^n subsets of a set of n is a
\* theorem of the library, from which the one law that is needed follows.
LEMMA PowerDoubles ==
  ASSUME NEW n \in Nat
  PROVE  2^n \in Nat \ {0} /\ 2^(n + 1) = 2 * 2^n
<1> DEFINE A == 1..n
           B == 1..(n + 1)
           X == SUBSET A
           Y == {T \cup {n + 1} : T \in X}
           f == [T \in X |-> T \cup {n + 1}]
<1>1. /\ IsFiniteSet(A) /\ Cardinality(A) = n
      /\ IsFiniteSet(B) /\ Cardinality(B) = n + 1
  BY FS_Interval
<1>2. IsFiniteSet(X) /\ Cardinality(X) = 2^n /\ Cardinality(X) \in Nat
  BY <1>1, FS_SUBSET, FS_CardinalityType
<1>3. Cardinality(SUBSET B) = 2^(n + 1)
  BY <1>1, FS_SUBSET
<1>4. \A T \in X : n + 1 \notin T
  OBVIOUS
<1>5. ExistsBijection(X, Y)
  <2>1. f \in [X -> Y]
    OBVIOUS
  <2>2. \A S, T \in X : f[S] = f[T] => S = T
    BY <1>4
  <2>3. \A S \in Y : \E T \in X : f[T] = S
    OBVIOUS
  <2> HIDE DEF f, X, Y
  <2>4. f \in Injection(X, Y)
    BY <2>1, <2>2 DEF Injection, IsInjective
  <2>5. f \in Surjection(X, Y)
    BY <2>1, <2>3 DEF Surjection
  <2> QED BY <2>4, <2>5 DEF ExistsBijection, Bijection
<1>6. IsFiniteSet(Y) /\ Cardinality(Y) = 2^n
  BY <1>2, <1>5, FS_Bijection
<1>7. X \cap Y = {}
  BY <1>4
<1>8. SUBSET B = X \cup Y
  <2>1. ASSUME NEW S \in SUBSET B PROVE S \in X \cup Y
    <3>1. \A k \in B : k \in A \/ k = n + 1
      OBVIOUS
    <3>2. S \ {n + 1} \in X
      BY <3>1
    <3>3. n + 1 \in S => S = (S \ {n + 1}) \cup {n + 1}
      OBVIOUS
    <3>4. n + 1 \notin S => S = S \ {n + 1}
      OBVIOUS
    <3> QED BY <3>2, <3>3, <3>4
  <2>2. A \subseteq B /\ n + 1 \in B
    OBVIOUS
  <2> QED BY <2>1, <2>2
<1> HIDE DEF X, Y
<1>9. 2^(n + 1) = 2 * 2^n
  <2>1. Cardinality(X \cup Y) = Cardinality(X) + Cardinality(Y) - Cardinality(X \cap Y)
    BY <1>2, <1>6, FS_Union
  <2>2. Cardinality(X \cap Y) = 0
    BY <1>7, FS_EmptySet
  <2>3. Cardinality(X \cup Y) = 2^(n + 1)
    BY <1>3, <1>8
  <2> QED BY <1>2, <1>6, <2>1, <2>2, <2>3
<1>10. 2^n # 0
  <2>1. {} \in X
    BY DEF X
  <2> QED BY <1>2, <2>1, FS_EmptySet
<1> QED BY <1>2, <1>9, <1>10

\* Quotient and remainder.
LEMMA Divided ==
  ASSUME NEW a \in Nat, NEW b \in Nat \ {0}
  PROVE  /\ a \div b \in Nat
         /\ b * (a \div b) <= a /\ a < b * (a \div b) + b
<1>1. a \div b \in Nat /\ b * (a \div b) <= a
  OBVIOUS
<1>2. a = b * (a \div b) + (a % b)
  OBVIOUS
<1>3. a % b < b /\ a % b \in Nat
  OBVIOUS
<1> QED BY <1>1, <1>2, <1>3

\* The quotient, by the interval its number is in.
LEMMA DividedIs ==
  ASSUME NEW a \in Nat, NEW b \in Nat \ {0}, NEW q \in Nat
  PROVE  a \div b = q <=> b * q <= a /\ a < b * q + b
<1>1. ASSUME b * q <= a, a < b * q + b PROVE a \div b = q
  <2>1. PICK r \in Nat : a = b * q + r /\ r < b
    <3>1. b * q \in Nat
      OBVIOUS
    <3>2. a - b * q \in Nat /\ a = b * q + (a - b * q) /\ a - b * q < b
      BY <1>1, <3>1
    <3> QED BY <3>2
  <2> QED BY <2>1
<1> QED BY <1>1, Divided

\* Division by twice as much is division of the quotient by two.
LEMMA HalfDivided ==
  ASSUME NEW a \in Nat, NEW m \in Nat \ {0}
  PROVE  a \div (2 * m) = (a \div m) \div 2
<1>1. PICK u \in Nat : u = a \div m /\ m * u <= a /\ a < m * u + m
  BY Divided
<1>2. PICK v \in Nat : v = u \div 2 /\ 2 * v <= u /\ u < 2 * v + 2
  BY Divided
<1>3. m * v \in Nat
  OBVIOUS
<1>4. (2 * m) * v = 2 * (m * v)
  OBVIOUS
<1>5. u = 2 * v \/ u = 2 * v + 1
  BY <1>2
<1>6. m * u = 2 * (m * v) \/ m * u = 2 * (m * v) + m
  <2>1. m * (2 * v) = 2 * (m * v)
    OBVIOUS
  <2>2. m * (2 * v + 1) = 2 * (m * v) + m
    OBVIOUS
  <2> QED BY <1>5, <2>1, <2>2
<1>7. (2 * m) * v <= a /\ a < (2 * m) * v + 2 * m
  BY <1>1, <1>3, <1>4, <1>6
<1>8. a \div (2 * m) = v
  <2>1. 2 * m \in Nat \ {0}
    OBVIOUS
  <2> QED BY <1>2, <1>7, <2>1, DividedIs
<1> QED BY <1>1, <1>2, <1>8

\* 2^0 is the number of subsets of the empty set.
LEMMA PowerOfZero == 2^0 = 1
<1>1. Cardinality(SUBSET {}) = 2^0
  BY FS_EmptySet, FS_SUBSET
<1>2. SUBSET {} = {{}}
  OBVIOUS
<1> QED BY <1>1, <1>2, FS_Singleton

\* A multiple of 2^(c + 1), or of a higher power, has a zero at place c.
LEMMA EvenBelow ==
  ASSUME NEW c \in Nat, NEW y \in Nat, c < y, NEW q \in Nat
  PROVE  ((2^y * q) \div 2^c) % 2 = 0
<1> DEFINE S == {d \in Nat : \A r \in Nat : ((2^(c + 1 + d) * r) \div 2^c) % 2 = 0}
<1>1. 0 \in S
  <2> SUFFICES ASSUME NEW r \in Nat PROVE ((2^(c + 1) * r) \div 2^c) % 2 = 0
    OBVIOUS
  <2>1. PICK m \in Nat \ {0} : m = 2^c /\ 2^(c + 1) = 2 * m
    BY PowerDoubles
  <2>2. (2 * m) * r = m * (2 * r) /\ m * (2 * r) \in Nat
    BY <2>1
  <2>3. (m * (2 * r)) \div m = 2 * r
    BY <2>1, <2>2, DividedIs
  <2>4. (2 * r) % 2 = 0
    OBVIOUS
  <2> QED BY <2>1, <2>2, <2>3, <2>4
<1>2. ASSUME NEW d \in Nat, d \in S PROVE d + 1 \in S
  <2> SUFFICES ASSUME NEW r \in Nat PROVE ((2^(c + 1 + (d + 1)) * r) \div 2^c) % 2 = 0
    OBVIOUS
  <2>1. PICK m \in Nat \ {0} : m = 2^(c + 1 + d) /\ 2^((c + 1 + d) + 1) = 2 * m
    BY PowerDoubles
  <2>2. c + 1 + (d + 1) = (c + 1 + d) + 1
    OBVIOUS
  <2>3. (2 * m) * r = m * (2 * r) /\ 2 * r \in Nat
    BY <2>1
  <2> QED BY <1>2, <2>1, <2>2, <2>3
<1> HIDE DEF S
<1>3. y - c - 1 \in S
  BY <1>1, <1>2, NatInductionOnSet
<1>4. c + 1 + (y - c - 1) = y
  OBVIOUS
<1> QED BY <1>3, <1>4 DEF S

\* Ids that agree in a prefix agree in each shorter one.
LEMMA ShorterPrefix ==
  ASSUME NEW a \in Nat, NEW b \in Nat, NEW c \in Nat, NEW d \in Nat, c <= d,
         a \div 2^c = b \div 2^c
  PROVE  a \div 2^d = b \div 2^d
<1> DEFINE S == {e \in Nat : a \div 2^(c + e) = b \div 2^(c + e)}
<1>1. 0 \in S
  OBVIOUS
<1>2. ASSUME NEW e \in Nat, e \in S PROVE e + 1 \in S
  <2>1. PICK m \in Nat \ {0} : m = 2^(c + e) /\ 2^((c + e) + 1) = 2 * m
    BY PowerDoubles
  <2>2. a \div (2 * m) = b \div (2 * m)
    BY <1>2, <2>1, HalfDivided
  <2>3. c + (e + 1) = (c + e) + 1
    OBVIOUS
  <2> QED BY <2>1, <2>2, <2>3
<1> HIDE DEF S
<1>3. d - c \in S
  BY <1>1, <1>2, NatInductionOnSet
<1> QED BY <1>3 DEF S

\* A number other than zero has a bit that is set.
LEMMA SomeBit ==
  ASSUME NEW n \in Nat, NEW a \in Nat \ {0}, a < 2^n
  PROVE  \E c \in 0..n - 1 : (a \div 2^c) % 2 = 1
<1> DEFINE S == {m \in Nat : a < 2^m => \E c \in 0..m - 1 : (a \div 2^c) % 2 = 1}
<1>1. 0 \in S
  BY PowerOfZero
<1>2. ASSUME NEW m \in Nat, m \in S PROVE m + 1 \in S
  <2> SUFFICES ASSUME a < 2^(m + 1)
               PROVE  \E c \in 0..m : (a \div 2^c) % 2 = 1
    OBVIOUS
  <2>1. PICK b \in Nat \ {0} : b = 2^m /\ 2^(m + 1) = 2 * b
    BY PowerDoubles
  <2>2. CASE a < b
    BY <1>2, <2>1, <2>2
  <2>3. CASE b <= a
    <3>1. a \div b = 1
      BY <2>1, <2>3, DividedIs
    <3> QED BY <2>1, <3>1
  <2> QED BY <2>1, <2>2, <2>3
<1> HIDE DEF S
<1>3. n \in S
  BY <1>1, <1>2, NatInductionOnSet
<1> QED BY <1>3 DEF S

-----------------------------------------------------------------------------
(* The bit of bckt_compute_id.                                               *)

\* Ids are numbers of Width bits.
LEMMA IdIs == Id \subseteq Nat /\ \A id \in Id : id < 2^Width
<1>1. 2^Width \in Nat
  BY PowerDoubles, BucketAssumption
<1> QED BY <1>1 DEF Id

\* A multiple of 2^(Width - L) has no bit behind the first L, and the last of
\* these is set if the factor is odd.
LEMMA BitsOfMultiple ==
  ASSUME NEW L \in 0..Width, NEW q \in Nat, NEW id \in Id, id = 2^(Width - L) * q
  PROVE  /\ \A b \in SetBits(id) : b < L
         /\ L > 0 => (L - 1 \in SetBits(id) <=> q % 2 = 1)
<1>1. Width \in Nat /\ L \in Nat /\ Width - L \in Nat
  BY BucketAssumption
<1>2. ASSUME NEW b \in SetBits(id) PROVE b < L
  <2>1. b \in 0..Width - 1 /\ (id \div 2^(Width - 1 - b)) % 2 = 1
    BY DEF SetBits
  <2>2. SUFFICES ASSUME b >= L PROVE FALSE
    BY <1>1, <2>1
  <2>3. Width - 1 - b \in Nat /\ Width - 1 - b < Width - L
    BY <1>1, <2>1, <2>2
  <2> QED BY <1>1, <2>1, <2>3, EvenBelow
<1>3. ASSUME L > 0 PROVE L - 1 \in SetBits(id) <=> q % 2 = 1
  <2>1. L - 1 \in 0..Width - 1 /\ Width - 1 - (L - 1) = Width - L
    BY <1>1, <1>3
  <2>2. PICK m \in Nat \ {0} : m = 2^(Width - L)
    BY <1>1, PowerDoubles
  <2>3. m * q \in Nat
    BY <2>2
  <2>4. id \div m = q
    BY <2>2, <2>3, DividedIs
  <2> QED BY <2>1, <2>2, <2>4 DEF SetBits
<1> QED BY <1>2, <1>3

\* bckt_significant_bit of such a multiple.
LEMMA SignificantIs ==
  ASSUME NEW L \in 0..Width, NEW q \in Nat, NEW id \in Id, id = 2^(Width - L) * q
  PROVE  /\ SignificantBit(id) \in -1..L - 1
         /\ L > 0 /\ q % 2 = 1 => SignificantBit(id) = L - 1
         /\ L > 0 /\ q % 2 = 0 => SignificantBit(id) < L - 1
<1>1. Width \in Nat \ {0} /\ L \in Nat /\ Width - L \in Nat /\ id \in Nat /\ id < 2^Width
  BY BucketAssumption, IdIs
<1>2. CASE id = 0
  <2>1. SignificantBit(id) = -1
    BY <1>2 DEF SignificantBit
  <2>2. q = 0
    <3>1. PICK m \in Nat \ {0} : m = 2^(Width - L)
      BY <1>1, PowerDoubles
    <3>2. m * q = 0
      BY <1>2, <3>1
    <3> QED BY <3>1, <3>2
  <2> QED BY <1>1, <2>1, <2>2
<1>3. CASE id # 0
  <2>1. SetBits(id) \in SUBSET (0..Width - 1) /\ Width - 1 \in Nat
    BY <1>1 DEF SetBits
  <2>2. SetBits(id) # {}
    <3>1. PICK c \in 0..Width - 1 : (id \div 2^c) % 2 = 1
      BY <1>1, <1>3, SomeBit
    <3>2. Width - 1 - c \in 0..Width - 1 /\ Width - 1 - (Width - 1 - c) = c
      BY <1>1
    <3>3. Width - 1 - c \in SetBits(id)
      BY <3>1, <3>2 DEF SetBits
    <3> QED BY <3>3
  <2>3. \E b \in SetBits(id) : \A c \in SetBits(id) : c <= b
    BY <2>1, <2>2, GreatestNat
  <2>4. /\ SignificantBit(id) \in SetBits(id)
        /\ \A c \in SetBits(id) : c <= SignificantBit(id)
    BY <1>3, <2>3 DEF SignificantBit
  <2>5. SignificantBit(id) \in Nat /\ SignificantBit(id) < L
    BY <2>1, <2>4, BitsOfMultiple
  <2>6. ASSUME L > 0, q % 2 = 1 PROVE SignificantBit(id) = L - 1
    <3>1. L - 1 <= SignificantBit(id)
      BY <2>4, <2>6, BitsOfMultiple
    <3> QED BY <1>1, <2>5, <3>1
  <2>7. ASSUME L > 0, q % 2 = 0 PROVE SignificantBit(id) < L - 1
    <3>1. L - 1 \notin SetBits(id)
      BY <2>7, BitsOfMultiple
    <3> QED BY <1>1, <2>4, <2>5, <3>1
  <2> QED BY <1>1, <2>5, <2>6, <2>7
<1> QED BY <1>2, <1>3

-----------------------------------------------------------------------------
(* The search of bckt_find_best_match.                                       *)

BucketRecord == [id : Id, nodes : Seq(Node)]
BucketList == {t \in [seq : Seq(BucketRecord), stop : Nat] : t.stop \in DOMAIN t.seq}

\* The buckets of u are those of t, whatever nodes they hold.
SameBuckets(t, u) ==
  /\ Len(u.seq) = Len(t.seq) /\ u.stop = t.stop
  /\ \A k \in 1..Len(t.seq) : u.seq[k].id = t.seq[k].id

\* What a bucket list is made of.
LEMMA BucketListIs ==
  ASSUME NEW t \in BucketList
  PROVE  /\ Len(t.seq) \in Nat /\ DOMAIN t.seq = 1..Len(t.seq)
         /\ t.stop \in 1..Len(t.seq)
         /\ \A k \in 1..Len(t.seq) :
              /\ t.seq[k] \in BucketRecord
              /\ t.seq[k].id \in Id /\ t.seq[k].id \in Nat
              /\ t.seq[k].nodes \in Seq(Node)
              /\ Len(t.seq[k].nodes) \in Nat
              /\ DOMAIN t.seq[k].nodes = 1..Len(t.seq[k].nodes)
              /\ \A p \in 1..Len(t.seq[k].nodes) : t.seq[k].nodes[p] \in Node
<1>1. t.seq \in Seq(BucketRecord) /\ t.stop \in DOMAIN t.seq
  BY DEF BucketList
<1>2. Len(t.seq) \in Nat /\ DOMAIN t.seq = 1..Len(t.seq)
  BY <1>1
<1>3. ASSUME NEW k \in 1..Len(t.seq)
      PROVE  /\ t.seq[k] \in BucketRecord
             /\ t.seq[k].id \in Id /\ t.seq[k].id \in Nat
             /\ t.seq[k].nodes \in Seq(Node)
             /\ Len(t.seq[k].nodes) \in Nat
             /\ DOMAIN t.seq[k].nodes = 1..Len(t.seq[k].nodes)
             /\ \A p \in 1..Len(t.seq[k].nodes) : t.seq[k].nodes[p] \in Node
  <2>1. t.seq[k] \in BucketRecord
    BY <1>1, <1>2
  <2>2. t.seq[k].id \in Id /\ t.seq[k].nodes \in Seq(Node)
    BY <2>1 DEF BucketRecord
  <2>3. PICK nodes \in Seq(Node) : nodes = t.seq[k].nodes
    BY <2>2
  <2>4. /\ Len(nodes) \in Nat /\ DOMAIN nodes = 1..Len(nodes)
        /\ \A p \in 1..Len(nodes) : nodes[p] \in Node
    OBVIOUS
  <2> QED BY <2>1, <2>2, <2>3, <2>4, IdIs
<1>4. t.stop \in 1..Len(t.seq)
  BY <1>1, <1>2
<1> QED BY <1>2, <1>3, <1>4

\* The search looks at the ids of the buckets only, not at their nodes.
LEMMA SameMatch ==
  ASSUME NEW t, NEW u, SameBuckets(t, u), Len(t.seq) \in Nat, NEW id
  PROVE  BestMatch(u, id) = BestMatch(t, id)
<1> DEFINE fits(x) == {k \in 1..Len(x.seq) - 1 : id < x.seq[k + 1].id}
           first(S) == CHOOSE k \in S : \A m \in S : k <= m
<1>1. fits(u) = fits(t)
  <2>1. Len(u.seq) = Len(t.seq)
    BY DEF SameBuckets
  <2>2. ASSUME NEW k \in 1..Len(t.seq) - 1 PROVE u.seq[k + 1].id = t.seq[k + 1].id
    <3>1. k + 1 \in 1..Len(t.seq)
      OBVIOUS
    <3> QED BY <3>1 DEF SameBuckets
  <2> QED BY <2>1, <2>2
<1>2. u.stop = t.stop
  BY DEF SameBuckets
<1>3. /\ BestMatch(t, id) = IF fits(t) = {} THEN t.stop ELSE first(fits(t))
      /\ BestMatch(u, id) = IF fits(u) = {} THEN u.stop ELSE first(fits(u))
  BY DEF BestMatch
<1> HIDE DEF fits, first
<1> QED BY <1>1, <1>2, <1>3

\* It is the first bucket with a greater successor, or else list->stop.
LEMMA MatchIsFirst ==
  ASSUME NEW t \in BucketList, NEW id \in Nat
  PROVE  LET k == BestMatch(t, id)
         IN  /\ k \in 1..Len(t.seq)
             /\ \/ /\ k < Len(t.seq) /\ id < t.seq[k + 1].id
                   /\ \A m \in 1..k - 1 : t.seq[m + 1].id <= id
                \/ /\ k = t.stop
                   /\ \A m \in 1..Len(t.seq) - 1 : t.seq[m + 1].id <= id
<1> DEFINE fits == {k \in 1..Len(t.seq) - 1 : id < t.seq[k + 1].id}
           k == BestMatch(t, id)
<1>1. /\ Len(t.seq) \in Nat /\ t.stop \in 1..Len(t.seq)
      /\ \A m \in 1..Len(t.seq) - 1 : t.seq[m + 1].id \in Nat
  <2>1. ASSUME NEW m \in 1..Len(t.seq) - 1 PROVE t.seq[m + 1].id \in Nat
    <3>1. m + 1 \in 1..Len(t.seq)
      BY BucketListIs
    <3> QED BY <3>1, BucketListIs
  <2> QED BY <2>1, BucketListIs
<1>2. CASE fits = {}
  <2>1. k = t.stop
    BY <1>2 DEF BestMatch
  <2>2. \A m \in 1..Len(t.seq) - 1 : t.seq[m + 1].id <= id
    <3>1. ASSUME NEW m \in 1..Len(t.seq) - 1 PROVE t.seq[m + 1].id <= id
      <4>1. ~ (id < t.seq[m + 1].id)
        BY <1>2
      <4> QED BY <1>1, <4>1
    <3> QED BY <3>1
  <2> QED BY <1>1, <2>1, <2>2
<1>3. CASE fits # {}
  <2>1. fits \in SUBSET Nat
    OBVIOUS
  <2>2. \E x \in fits : \A y \in fits : x <= y
    BY <1>3, <2>1, LeastNat
  <2>3. k = CHOOSE x \in fits : \A m \in fits : x <= m
    BY <1>3 DEF BestMatch
  <2>4. k \in fits /\ \A m \in fits : k <= m
    BY <2>2, <2>3
  <2>5. ASSUME NEW m \in 1..k - 1 PROVE t.seq[m + 1].id <= id
    <3>1. m \in 1..Len(t.seq) - 1 /\ m \notin fits
      BY <1>1, <2>4
    <3> QED BY <1>1, <3>1
  <2> QED BY <1>1, <2>4, <2>5
<1> QED BY <1>2, <1>3

-----------------------------------------------------------------------------
(* Buckets in order: the own id is in the lower half, or there was no split. *)

Ordered(t) ==
  /\ t.seq[1].id = 0
  /\ \A k \in 1..Len(t.seq) - 1 : t.seq[k].id < t.seq[k + 1].id
  /\ t.stop = Len(t.seq)

\* Ordered buckets are so at any distance.
LEMMA OrderedIs ==
  ASSUME NEW t \in BucketList, Ordered(t),
         NEW j \in 1..Len(t.seq), NEW k \in 1..Len(t.seq), j < k
  PROVE  t.seq[j].id < t.seq[k].id
<1> DEFINE S == {n \in Nat : j + 1 + n <= Len(t.seq) => t.seq[j].id < t.seq[j + 1 + n].id}
<1>1. Len(t.seq) \in Nat /\ \A m \in 1..Len(t.seq) : t.seq[m].id \in Nat
  BY BucketListIs
<1>2. \A m \in 1..Len(t.seq) - 1 : t.seq[m].id < t.seq[m + 1].id
  BY DEF Ordered
<1>3. 0 \in S
  BY <1>1, <1>2
<1>4. ASSUME NEW n \in Nat, n \in S PROVE n + 1 \in S
  <2> SUFFICES ASSUME j + 1 + (n + 1) <= Len(t.seq)
               PROVE  t.seq[j].id < t.seq[j + 1 + (n + 1)].id
    OBVIOUS
  <2>1. t.seq[j].id < t.seq[j + 1 + n].id
    BY <1>1, <1>4
  <2>2. PICK len \in Nat : len = Len(t.seq) /\ j \in 1..len
    BY <1>1
  <2>3. PICK m \in 1..len - 1 : m = j + 1 + n /\ m + 1 = j + 1 + (n + 1)
    BY <2>2
  <2>4. t.seq[m].id < t.seq[m + 1].id
    BY <1>2, <2>2, <2>3
  <2>5. t.seq[j].id \in Nat /\ t.seq[m].id \in Nat /\ t.seq[m + 1].id \in Nat
    <3>1. m \in 1..len /\ m + 1 \in 1..len
      BY <2>3
    <3> QED BY <1>1, <2>2, <3>1
  <2> QED BY <2>1, <2>3, <2>4, <2>5
<1> HIDE DEF S
<1>5. k - j - 1 \in S
  BY <1>3, <1>4, NatInductionOnSet
<1>6. j + 1 + (k - j - 1) = k
  OBVIOUS
<1> QED BY <1>5, <1>6 DEF S

\* The bucket of id is the one whose ids begin at id or below and end behind it.
LEMMA MatchIs ==
  ASSUME NEW t \in BucketList, Ordered(t), NEW id \in Nat, NEW j \in 1..Len(t.seq)
  PROVE  BestMatch(t, id) = j <=> /\ t.seq[j].id <= id
                                  /\ j < Len(t.seq) => id < t.seq[j + 1].id
<1> DEFINE k == BestMatch(t, id)
           fits(i) == t.seq[i].id <= id /\ (i < Len(t.seq) => id < t.seq[i + 1].id)
<1>1. Len(t.seq) \in Nat /\ \A m \in 1..Len(t.seq) : t.seq[m].id \in Nat
  BY BucketListIs
<1>2. /\ k \in 1..Len(t.seq)
      /\ \/ /\ k < Len(t.seq) /\ id < t.seq[k + 1].id
            /\ \A m \in 1..k - 1 : t.seq[m + 1].id <= id
         \/ /\ k = t.stop
            /\ \A m \in 1..Len(t.seq) - 1 : t.seq[m + 1].id <= id
  BY MatchIsFirst
<1> HIDE DEF k
<1>3. fits(k)
  <2>1. t.seq[k].id <= id
    <3>1. CASE k = 1
      BY <3>1 DEF Ordered
    <3>2. CASE k # 1
      <4>1. k - 1 \in 1..k - 1 /\ k - 1 \in 1..Len(t.seq) - 1 /\ (k - 1) + 1 = k
        BY <1>1, <1>2, <3>2
      <4>2. t.seq[(k - 1) + 1].id <= id
        BY <1>2, <4>1
      <4> QED BY <4>1, <4>2
    <3> QED BY <3>1, <3>2
  <2>2. k < Len(t.seq) => id < t.seq[k + 1].id
    BY <1>2 DEF Ordered
  <2> QED BY <2>1, <2>2
<1>4. ASSUME fits(j) PROVE j = k
  <2>1. ASSUME NEW a \in 1..Len(t.seq), NEW b \in 1..Len(t.seq), fits(a), fits(b), a < b
        PROVE  FALSE
    <3>1. a + 1 \in 1..Len(t.seq) /\ a < Len(t.seq) /\ (a + 1 = b \/ a + 1 < b)
      BY <1>1, <2>1
    <3>2. t.seq[a + 1].id <= t.seq[b].id
      BY <1>1, <3>1, OrderedIs
    <3>3. id < t.seq[a + 1].id /\ t.seq[b].id <= id
      BY <2>1, <3>1
    <3> QED BY <1>1, <3>1, <3>2, <3>3
  <2>2. ~ (j < k) /\ ~ (k < j)
    BY <1>2, <1>3, <1>4, <2>1
  <2> QED BY <1>1, <1>2, <2>2
<1> QED BY <1>3, <1>4 DEF k

-----------------------------------------------------------------------------
(* The shapes a bucket list can have.                                        *)

Depth(t) == Len(t.seq) - 1

\* An own id in the lower half: after L splits the own bucket has exactly the
\* ids that agree with the own one in the first L bits, and is not the last.
LowerShape(t, me) ==
  LET k == BestMatch(t, me)
      w == 2^(Width - Depth(t))
  IN  /\ Ordered(t)
      /\ Depth(t) <= Width
      /\ t.seq[k].id = w * (me \div w)
      /\ Depth(t) > 0 => k <= Depth(t) /\ t.seq[k + 1].id = t.seq[k].id + w

\* In the upper half, list->stop stays at the second bucket, and every further
\* split puts one more bucket with the same id behind it, which nothing matches.
UpperShape(t) ==
  /\ t.seq[1].id = 0
  /\ t.stop = IF Len(t.seq) = 1 THEN 1 ELSE 2
  /\ Len(t.seq) > 1 => t.seq[2].id = 2^(Width - 1)
  /\ \A k \in 3..Len(t.seq) : /\ Width > 1
                              /\ t.seq[k].id = 2^(Width - 1) + 2^(Width - 2)

\* The own bucket is the one of the ids with the own prefix.
LEMMA OwnBucketIs ==
  ASSUME NEW t \in BucketList, NEW me \in Id, LowerShape(t, me), NEW id \in Id,
         NEW w, w = 2^(Width - Depth(t))
  PROVE  BestMatch(t, id) = BestMatch(t, me) <=> id \div w = me \div w
<1> DEFINE k == BestMatch(t, me)
           q == me \div w
<1>1. /\ Len(t.seq) \in Nat \ {0} /\ \A m \in 1..Len(t.seq) : t.seq[m].id \in Nat
      /\ id \in Nat /\ me \in Nat /\ id < 2^Width /\ me < 2^Width
  BY BucketListIs, IdIs
<1>2. Depth(t) \in Nat /\ Width - Depth(t) \in Nat
  BY <1>1, BucketAssumption DEF LowerShape, Depth
<1>3. w \in Nat \ {0}
  BY <1>2, PowerDoubles
<1>4. Ordered(t) /\ k \in 1..Len(t.seq)
  BY <1>1, MatchIsFirst DEF LowerShape
<1>5. q \in Nat
  BY <1>1, <1>3, Divided
<1>6. t.seq[k].id = w * q
  BY DEF LowerShape
<1> HIDE DEF q
<1>7. id \div w = q <=> w * q <= id /\ id < w * q + w
  BY <1>1, <1>3, <1>5, DividedIs
<1>8. CASE Depth(t) > 0
  <2>1. k <= Depth(t) /\ t.seq[k + 1].id = t.seq[k].id + w
    BY <1>8 DEF LowerShape
  <2>2. k < Len(t.seq) /\ t.seq[k + 1].id = w * q + w
    BY <1>1, <1>4, <1>6, <2>1 DEF Depth
  <2> QED BY <1>1, <1>4, <1>6, <1>7, <2>2, MatchIs DEF q
<1>9. CASE Depth(t) = 0
  <2>1. k = 1 /\ Len(t.seq) = 1
    BY <1>1, <1>4, <1>9 DEF Depth
  <2>2. BestMatch(t, id) = 1
    <3>1. BestMatch(t, id) \in 1..Len(t.seq)
      BY <1>1, MatchIsFirst
    <3> QED BY <2>1, <3>1
  <2>3. w = 2^Width
    BY <1>9, BucketAssumption
  <2>4. w * q = 0
    BY <1>4, <1>6, <2>1 DEF Ordered
  <2> QED BY <1>1, <1>7, <2>1, <2>2, <2>3, <2>4 DEF q
<1> QED BY <1>2, <1>8, <1>9

\* bckt_compute_id takes the bit behind those the bucket agrees in.
LEMMA NextBitIs ==
  ASSUME NEW t \in BucketList, NEW me \in Id, LowerShape(t, me)
  PROVE  NextBit(t, BestMatch(t, me)) = Depth(t)
<1> DEFINE k == BestMatch(t, me)
           L == Depth(t)
           w == 2^(Width - L)
           q == me \div w
<1>1. /\ Len(t.seq) \in Nat \ {0} /\ \A m \in 1..Len(t.seq) : t.seq[m].id \in Id
      /\ me \in Nat
  <2>1. Len(t.seq) \in Nat /\ t.stop \in 1..Len(t.seq)
    BY BucketListIs
  <2>2. \A m \in 1..Len(t.seq) : t.seq[m].id \in Id
    BY BucketListIs
  <2>3. me \in Nat
    BY IdIs
  <2> QED BY <2>1, <2>2, <2>3
<1>2. L \in Nat /\ L \in 0..Width /\ L = Len(t.seq) - 1 /\ Width - L \in Nat
  BY <1>1, BucketAssumption DEF LowerShape, Depth
<1>3. w \in Nat \ {0}
  BY <1>2, PowerDoubles
<1>4. k \in 1..Len(t.seq) /\ t.stop = Len(t.seq)
  BY <1>1, MatchIsFirst DEF LowerShape, Ordered
<1>5. q \in Nat
  BY <1>1, <1>3, Divided
<1>6. t.seq[k].id = w * q
  BY DEF LowerShape
<1> HIDE DEF k, L, w, q
<1>7. CASE L = 0
  <2>1. SignificantBit(t.seq[k].id) \in -1..L - 1
    BY <1>1, <1>2, <1>4, <1>5, <1>6, SignificantIs DEF w
  <2>2. k = t.stop
    BY <1>1, <1>2, <1>4, <1>7
  <2> QED BY <1>7, <2>1, <2>2 DEF NextBit, k, L
<1>8. CASE L > 0
  <2> DEFINE b1 == SignificantBit(t.seq[k].id)
             b2 == SignificantBit(t.seq[k + 1].id)
  <2>1. k < Len(t.seq) /\ k # t.stop /\ t.seq[k + 1].id = w * q + w
    BY <1>2, <1>4, <1>6, <1>8 DEF LowerShape, k, L, w
  <2>2. w * (q + 1) = w * q + w
    BY <1>3, <1>5
  <2>3. t.seq[k].id \in Id /\ t.seq[k + 1].id \in Id
    BY <1>1, <1>4, <2>1
  <2>4. /\ b1 \in -1..L - 1
        /\ q % 2 = 1 => b1 = L - 1
        /\ q % 2 = 0 => b1 < L - 1
    BY <1>2, <1>5, <1>6, <1>8, <2>3, SignificantIs DEF w
  <2>5. /\ b2 \in -1..L - 1
        /\ (q + 1) % 2 = 1 => b2 = L - 1
        /\ (q + 1) % 2 = 0 => b2 < L - 1
    <3>1. q + 1 \in Nat /\ t.seq[k + 1].id = w * (q + 1)
      BY <1>5, <2>1, <2>2
    <3> QED BY <1>2, <1>8, <2>3, <3>1, SignificantIs DEF w
  <2>6. q % 2 = 1 \/ (q + 1) % 2 = 1
    BY <1>5
  <2>7. NextBit(t, k) = (IF b1 >= b2 THEN b1 ELSE b2) + 1
    BY <2>1 DEF NextBit
  <2> HIDE DEF b1, b2
  <2>8. NextBit(t, k) = L
    BY <1>2, <2>4, <2>5, <2>6, <2>7
  <2> QED BY <2>8 DEF k, L
<1>9. L = 0 \/ L > 0
  <2>1. L \in Nat
    BY <1>2
  <2>2. \A n \in Nat : n = 0 \/ n > 0
    OBVIOUS
  <2> QED BY <2>1, <2>2
<1> QED BY <1>7, <1>8, <1>9

\* The ids of the own bucket are the closest ones.
LEMMA OwnIsClosest ==
  ASSUME nbhd \in BucketList, node_id \in Id, LowerShape(nbhd, node_id)
  PROVE  OwnBucketIsClosest
<1> DEFINE own == BestMatch(nbhd, node_id)
           near == {id \in Id : BestMatch(nbhd, id) = own}
           L == Depth(nbhd)
           w == 2^(Width - L)
           C(a) == {n \in 1..Width : a \div 2^(Width - n) = node_id \div 2^(Width - n)}
<1> SUFFICES ASSUME NEW in \in near, NEW out \in Id \ near
             PROVE  Cardinality(C(in)) > Cardinality(C(out))
  BY DEF OwnBucketIsClosest, Common
<1>1. Width \in Nat /\ L \in Nat /\ L <= Width /\ Len(nbhd.seq) \in Nat
  BY BucketAssumption, BucketListIs DEF LowerShape, Depth
<1>2. in \in Id /\ out \in Id /\ in \in Nat /\ out \in Nat /\ node_id \in Nat
  BY IdIs
<1>3. in \div w = node_id \div w /\ out \div w # node_id \div w
  BY <1>2, OwnBucketIs
<1>4. L > 0
  <2>1. SUFFICES ASSUME L = 0 PROVE FALSE
    BY <1>1
  <2>2. Len(nbhd.seq) = 1
    BY <1>1, <2>1 DEF Depth
  <2>3. BestMatch(nbhd, out) \in 1..1 /\ BestMatch(nbhd, node_id) \in 1..1
    BY <1>2, <2>2, MatchIsFirst
  <2> QED BY <2>3
<1> HIDE DEF L, near
<1>5. ASSUME NEW n \in 1..L PROVE n \in C(in)
  <2>1. n \in 1..Width /\ Width - L \in Nat /\ Width - n \in Nat /\ Width - L <= Width - n
    BY <1>1
  <2>2. in \div 2^(Width - n) = node_id \div 2^(Width - n)
    BY <1>2, <1>3, <2>1, ShorterPrefix
  <2> QED BY <2>1, <2>2
<1>6. ASSUME NEW n \in C(out) PROVE n \in 1..L - 1
  <2>1. n \in 1..Width /\ out \div 2^(Width - n) = node_id \div 2^(Width - n)
    OBVIOUS
  <2>2. SUFFICES ASSUME n >= L PROVE FALSE
    BY <1>1, <2>1
  <2>3. Width - L \in Nat /\ Width - n \in Nat /\ Width - n <= Width - L
    BY <1>1, <2>1, <2>2
  <2> QED BY <1>2, <1>3, <2>1, <2>3, ShorterPrefix
<1>7. IsFiniteSet(C(in)) /\ Cardinality(C(in)) \in Nat
  <2>1. IsFiniteSet(1..Width) /\ C(in) \subseteq 1..Width
    BY <1>1, FS_Interval
  <2> QED BY <2>1, FS_Subset, FS_CardinalityType
<1>8. L <= Cardinality(C(in))
  <2>1. 1..L \subseteq C(in)
    BY <1>5
  <2>2. Cardinality(1..L) = L
    BY <1>1, FS_Interval
  <2> QED BY <1>7, <2>1, <2>2, FS_Subset
<1>9. Cardinality(C(out)) <= L - 1
  <2>1. C(out) \subseteq 1..L - 1
    BY <1>6
  <2>2. IsFiniteSet(1..L - 1) /\ Cardinality(1..L - 1) = L - 1
    BY <1>1, <1>4, FS_Interval
  <2> QED BY <2>1, <2>2, FS_Subset
<1>10. Cardinality(C(out)) \in Nat
  <2>1. IsFiniteSet(1..Width) /\ C(out) \subseteq 1..Width
    BY <1>1, FS_Interval
  <2> QED BY <2>1, FS_Subset, FS_CardinalityType
<1> HIDE DEF C
<1> QED BY <1>1, <1>7, <1>8, <1>9, <1>10

-----------------------------------------------------------------------------
(* Changes to a bucket list.                                                 *)

\* A bucket gets other nodes.
LEMMA InBucketIs ==
  ASSUME NEW t \in BucketList, NEW k \in 1..Len(t.seq), NEW nodes \in Seq(Node),
         NEW u, u = InBucket(t, k, nodes)
  PROVE  /\ u \in BucketList /\ SameBuckets(t, u)
         /\ \A j \in 1..Len(t.seq) : u.seq[j].nodes = IF j = k THEN nodes ELSE t.seq[j].nodes
<1>1. /\ Len(t.seq) \in Nat /\ DOMAIN t.seq = 1..Len(t.seq) /\ t.stop \in 1..Len(t.seq)
      /\ \A j \in 1..Len(t.seq) : t.seq[j] \in BucketRecord
  BY BucketListIs
<1>2. t \in [seq : Seq(BucketRecord), stop : Nat]
  BY DEF BucketList
<1>3. u = [t EXCEPT !.seq = [t.seq EXCEPT ![k] = [t.seq[k] EXCEPT !.nodes = nodes]]]
  BY DEF InBucket
<1> DEFINE b == [t.seq[k] EXCEPT !.nodes = nodes]
           s == [t.seq EXCEPT ![k] = b]
<1>4. b \in BucketRecord /\ b.id = t.seq[k].id /\ b.nodes = nodes
  BY <1>1 DEF BucketRecord
<1> HIDE DEF b
<1>5. s \in [1..Len(t.seq) -> BucketRecord]
  BY <1>1, <1>4
<1>6. \A j \in 1..Len(t.seq) : s[j] = IF j = k THEN b ELSE t.seq[j]
  BY <1>1
<1> HIDE DEF s
<1>7. s \in Seq(BucketRecord) /\ Len(s) = Len(t.seq) /\ DOMAIN s = 1..Len(t.seq)
  BY <1>1, <1>5, ASeq
<1>8. u = [t EXCEPT !.seq = s]
  BY <1>3 DEF s, b
<1>9. u \in [seq : Seq(BucketRecord), stop : Nat] /\ u.seq = s /\ u.stop = t.stop
  BY <1>2, <1>7, <1>8
<1>10. u \in BucketList
  BY <1>1, <1>7, <1>9 DEF BucketList
<1>11. SameBuckets(t, u)
  BY <1>4, <1>6, <1>7, <1>9 DEF SameBuckets
<1> QED BY <1>4, <1>6, <1>9, <1>10, <1>11

\* list_ins puts b behind item k and leaves list->stop at its item, but for the
\* first two items.
LEMMA InsertIs ==
  ASSUME NEW t \in BucketList, NEW k \in 1..Len(t.seq), NEW b \in BucketRecord,
         NEW u, u = Insert(t, k, b)
  PROVE  /\ u \in BucketList /\ Len(u.seq) = Len(t.seq) + 1
         /\ u.stop = IF k < t.stop \/ Len(t.seq) = 1 THEN t.stop + 1 ELSE t.stop
         /\ \A j \in 1..Len(t.seq) + 1 :
              u.seq[j] = IF j <= k THEN t.seq[j]
                         ELSE IF j = k + 1 THEN b ELSE t.seq[j - 1]
<1> DEFINE n == Len(t.seq)
           s == t.seq
<1>1. n \in Nat /\ n > 0 /\ k <= n /\ t.stop \in 1..n /\ s \in Seq(BucketRecord)
  BY BucketListIs DEF BucketList
<1>2. CASE n = 1
  <2>1. u = [seq |-> Append(s, b), stop |-> n + 1]
    BY <1>2 DEF Insert
  <2>2. /\ Append(s, b) \in Seq(BucketRecord) /\ Len(Append(s, b)) = n + 1
        /\ DOMAIN Append(s, b) = 1..n + 1
        /\ Append(s, b)[1] = s[1] /\ Append(s, b)[2] = b
    <3>1. /\ Append(s, b) \in Seq(BucketRecord) /\ Len(Append(s, b)) = Len(s) + 1
          /\ \A j \in 1..Len(s) : Append(s, b)[j] = s[j]
          /\ Append(s, b)[Len(s) + 1] = b
      BY <1>1, AppendProperties
    <3>2. DOMAIN Append(s, b) = 1..Len(Append(s, b))
      BY <3>1, LenProperties
    <3>3. n + 1 = 2 /\ 1 \in 1..n
      BY <1>2
    <3> QED BY <3>1, <3>2, <3>3
  <2>3. k = 1 /\ t.stop = 1
    BY <1>1, <1>2
  <2>4. u \in BucketList
    BY <1>1, <2>1, <2>2 DEF BucketList
  <2> QED BY <1>1, <1>2, <2>1, <2>2, <2>3, <2>4
<1>3. CASE n # 1
  <2> DEFINE front == SubSeq(s, 1, k)
             back == SubSeq(s, k + 1, n)
             r == front \o <<b>> \o back
  <2>1. u = [seq |-> r, stop |-> IF k < t.stop THEN t.stop + 1 ELSE t.stop]
    <3>1. ~ (Len(t.seq) <= 1)
      <4>1. \A m \in Nat : m > 0 /\ m # 1 => ~ (m <= 1)
        OBVIOUS
      <4> QED BY <1>1, <1>3, <4>1
    <3> QED BY <3>1 DEF Insert
  <2>2. /\ front \in Seq(BucketRecord) /\ Len(front) = k
        /\ \A j \in 1..k : front[j] = s[j]
    BY <1>1
  <2>3. /\ back \in Seq(BucketRecord) /\ Len(back) = n - k
        /\ \A j \in 1..n - k : back[j] = s[j + k]
    BY <1>1
  <2> HIDE DEF front, back
  <2>4. <<b>> \in Seq(BucketRecord) /\ Len(<<b>>) = 1 /\ <<b>>[1] = b
    OBVIOUS
  <2> DEFINE f == front \o <<b>>
  <2>5. /\ f \in Seq(BucketRecord) /\ Len(f) = k + 1
        /\ \A j \in 1..k : f[j] = s[j]
        /\ f[k + 1] = b
    BY <1>1, <2>2, <2>4
  <2> HIDE DEF f
  <2>6. /\ r \in Seq(BucketRecord) /\ Len(r) = n + 1 /\ DOMAIN r = 1..n + 1
        /\ \A j \in 1..k + 1 : r[j] = f[j]
        /\ \A j \in k + 2..n + 1 : r[j] = back[j - (k + 1)]
    <3>1. r = f \o back
      BY DEF f
    <3> HIDE DEF r, n, s
    <3>2. r \in Seq(BucketRecord)
      BY <2>3, <2>5, <3>1
    <3>3. Len(r) = n + 1 /\ DOMAIN r = 1..n + 1
      <4>1. Len(r) = Len(f) + Len(back)
        BY <2>3, <2>5, <3>1, ConcatProperties
      <4>2. Len(r) = n + 1
        BY <1>1, <2>3, <2>5, <4>1
      <4> QED BY <3>2, <4>2, LenProperties
    <3>4. ASSUME NEW j \in 1..k + 1 PROVE r[j] = f[j]
      BY <1>1, <2>3, <2>5, <3>1
    <3>5. ASSUME NEW j \in k + 2..n + 1 PROVE r[j] = back[j - (k + 1)]
      BY <1>1, <2>3, <2>5, <3>1
    <3> QED BY <3>2, <3>3, <3>4, <3>5
  <2>7. ASSUME NEW j \in k + 2..n + 1 PROVE back[j - (k + 1)] = s[j - 1]
    <3>1. j - (k + 1) \in 1..n - k /\ j - (k + 1) + k = j - 1
      BY <1>1
    <3> QED BY <2>3, <3>1
  <2> HIDE DEF r
  <2>8. u \in BucketList
    BY <1>1, <2>1, <2>6 DEF BucketList
  <2>9. ASSUME NEW j \in 1..n + 1
        PROVE  u.seq[j] = IF j <= k THEN s[j] ELSE IF j = k + 1 THEN b ELSE s[j - 1]
    <3>1. j \in 1..k \/ j = k + 1 \/ j \in k + 2..n + 1
      BY <1>1
    <3> QED BY <1>1, <2>1, <2>5, <2>6, <2>7, <3>1
  <2> QED BY <1>1, <1>3, <2>1, <2>6, <2>8, <2>9
<1> QED BY <1>2, <1>3

\* A split: the nodes of the own bucket are handed out by best match.
Sharers(t, k, u, j) ==
  {p \in DOMAIN t.seq[k].nodes : BestMatch(u, t.seq[k].nodes[p].id) = j}
\* The buckets of u are those of t with one of id new behind bucket k.
Inserted(t, u, k, new) ==
  /\ Len(u.seq) = Len(t.seq) + 1
  /\ u.stop = IF k < t.stop \/ Len(t.seq) = 1 THEN t.stop + 1 ELSE t.stop
  /\ \A j \in 1..Len(t.seq) + 1 :
       u.seq[j].id = IF j <= k THEN t.seq[j].id
                     ELSE IF j = k + 1 THEN new ELSE t.seq[j - 1].id

OldNodes(t, k, j) ==
  IF j = k \/ j = k + 1 THEN << >>
  ELSE IF j < k THEN t.seq[j].nodes ELSE t.seq[j - 1].nodes

\* Bucket j of u has its old nodes and its share of those of bucket k.
GetsShare(t, u, k, j) == \E share, c, e :
  /\ share \in Seq(Node) /\ PartOf(t.seq[k].nodes, Sharers(t, k, u, j), c, e, share)
  /\ u.seq[j].nodes = OldNodes(t, k, j) \o share

\* bckt_split: one bucket more, and each node in the bucket that matches it now.
LEMMA SplitIs ==
  ASSUME NEW t \in BucketList, NEW me, NEW k \in 1..Len(t.seq), k = BestMatch(t, me),
         ComputeId(t, k) \in Id, NEW u, u = bckt_split(t, me)
  PROVE  /\ u \in BucketList /\ Inserted(t, u, k, ComputeId(t, k))
         /\ \A j \in 1..Len(t.seq) + 1 : GetsShare(t, u, k, j)
<1> DEFINE n == Len(t.seq)
           nodes == t.seq[k].nodes
           new == [id |-> ComputeId(t, k), nodes |-> << >>]
           v == InBucket(t, k, << >>)
           wide == Insert(v, k, new)
           K(j) == Sharers(t, k, wide, j)
           Share(j) == Keep(nodes, K(j))
           b(j) == [wide.seq[j] EXCEPT !.nodes = wide.seq[j].nodes \o Share(j)]
           s == [j \in DOMAIN wide.seq |-> b(j)]
<1>1. u = [wide EXCEPT !.seq = s]
  BY DEF bckt_split, Sharers
<1>2. n \in Nat /\ nodes \in Seq(Node) /\ \A j \in 1..n : t.seq[j].nodes \in Seq(Node)
  BY BucketListIs
<1>3. << >> \in Seq(Node) /\ new \in BucketRecord /\ new.id = ComputeId(t, k)
      /\ new.nodes = << >>
  BY DEF BucketRecord
<1> HIDE DEF new, v, wide, K, Share, b, s, nodes
<1>4. /\ v \in BucketList /\ SameBuckets(t, v)
      /\ \A j \in 1..n : v.seq[j].nodes = IF j = k THEN << >> ELSE t.seq[j].nodes
  <2>1. PICK none \in Seq(Node) : none = << >>
    <3>1. << >> \in Seq(Node)
      OBVIOUS
    <3> QED BY <3>1, Zenon
  <2>2. v = InBucket(t, k, none)
    BY <2>1 DEF v
  <2>3. /\ v \in BucketList /\ SameBuckets(t, v)
        /\ \A j \in 1..n : v.seq[j].nodes = IF j = k THEN none ELSE t.seq[j].nodes
    BY <2>2, InBucketIs
  <2> QED BY <2>1, <2>3
<1>5. Len(v.seq) = n /\ v.stop = t.stop /\ \A j \in 1..n : v.seq[j].id = t.seq[j].id
  BY <1>4 DEF SameBuckets
<1>6. /\ wide \in BucketList /\ Len(wide.seq) = n + 1
      /\ wide.stop = IF k < t.stop \/ n = 1 THEN t.stop + 1 ELSE t.stop
      /\ \A j \in 1..n + 1 :
           wide.seq[j] = IF j <= k THEN v.seq[j]
                         ELSE IF j = k + 1 THEN new ELSE v.seq[j - 1]
  BY <1>3, <1>4, <1>5, InsertIs DEF wide
<1>7. ASSUME NEW j \in 1..n + 1
      PROVE  /\ wide.seq[j].id = IF j <= k THEN t.seq[j].id
                                 ELSE IF j = k + 1 THEN ComputeId(t, k) ELSE t.seq[j - 1].id
             /\ wide.seq[j].nodes = OldNodes(t, k, j)
  <2>1. CASE j < k
    <3>1. j \in 1..n /\ j # k /\ j <= k /\ j # k + 1
      BY <1>2, <2>1
    <3>2. wide.seq[j] = v.seq[j]
      BY <1>6, <3>1
    <3>3. v.seq[j].id = t.seq[j].id /\ v.seq[j].nodes = t.seq[j].nodes
      BY <1>4, <1>5, <3>1
    <3> QED BY <2>1, <3>1, <3>2, <3>3 DEF OldNodes
  <2>2. CASE j = k
    <3>1. wide.seq[k] = v.seq[k] /\ v.seq[k].id = t.seq[k].id
      BY <1>2, <1>5, <1>6
    <3>2. v.seq[k].nodes = << >>
      BY <1>4
    <3>3. OldNodes(t, k, k) = << >>
      BY DEF OldNodes
    <3>4. k <= k
      OBVIOUS
    <3> QED BY <2>2, <3>1, <3>2, <3>3, <3>4
  <2>3. CASE j = k + 1
    BY <1>2, <1>3, <1>6, <2>3 DEF OldNodes
  <2>4. CASE j > k + 1
    <3>1. j - 1 \in 1..n /\ j - 1 # k /\ ~ (j <= k) /\ j # k + 1
      BY <1>2, <2>4
    <3>2. wide.seq[j] = v.seq[j - 1]
      BY <1>6, <3>1
    <3>3. v.seq[j - 1].id = t.seq[j - 1].id /\ v.seq[j - 1].nodes = t.seq[j - 1].nodes
      BY <1>4, <1>5, <3>1
    <3>4. ~ (j < k) /\ j # k
      BY <1>2, <2>4
    <3> QED BY <3>1, <3>2, <3>3, <3>4 DEF OldNodes
  <2>5. j < k \/ j = k \/ j = k + 1 \/ j > k + 1
    <3>1. j \in Nat /\ k \in Nat
      BY <1>2
    <3> QED BY <3>1
  <2> QED BY <2>1, <2>2, <2>3, <2>4, <2>5
<1>8. /\ DOMAIN wide.seq = 1..n + 1 /\ wide.stop \in 1..n + 1
      /\ wide \in [seq : Seq(BucketRecord), stop : Nat]
      /\ \A j \in 1..n + 1 : wide.seq[j] \in BucketRecord
  BY <1>6, BucketListIs DEF BucketList
<1>9. ASSUME NEW j \in 1..n + 1
      PROVE  /\ Share(j) \in Seq(Node)
             /\ \E c, e : PartOf(nodes, K(j), c, e, Share(j))
             /\ b(j) \in BucketRecord
             /\ b(j).id = wide.seq[j].id
             /\ b(j).nodes = wide.seq[j].nodes \o Share(j)
  <2>1. K(j) \in SUBSET (DOMAIN nodes)
    BY DEF K, Sharers, nodes
  <2>2. Share(j) \in Seq(Node) /\ \E c, e : PartOf(nodes, K(j), c, e, Share(j))
    BY <1>2, <2>1, KeptIs DEF Share
  <2>3. wide.seq[j] \in BucketRecord
    BY <1>8
  <2>4. wide.seq[j].nodes \in Seq(Node)
    BY <2>3 DEF BucketRecord
  <2>5. wide.seq[j].nodes \o Share(j) \in Seq(Node)
    BY <2>2, <2>4, ConcatProperties
  <2> QED BY <2>2, <2>3, <2>5 DEF b, BucketRecord
<1>10. s \in Seq(BucketRecord) /\ Len(s) = n + 1
  <2>1. s \in [1..n + 1 -> BucketRecord]
    BY <1>8, <1>9 DEF s
  <2>2. n + 1 \in Nat
    BY <1>2
  <2> QED BY <2>1, <2>2, ASeq
<1>11. \A j \in 1..n + 1 : s[j] = b(j)
  BY <1>8 DEF s
<1>12. u \in [seq : Seq(BucketRecord), stop : Nat] /\ u.seq = s /\ u.stop = wide.stop
  BY <1>1, <1>8, <1>10
<1>13. u \in BucketList
  BY <1>2, <1>8, <1>10, <1>12, LenProperties DEF BucketList
<1>14. SameBuckets(wide, u)
  BY <1>6, <1>9, <1>10, <1>11, <1>12 DEF SameBuckets
<1>15. ASSUME NEW j \in 1..n + 1 PROVE K(j) = Sharers(t, k, u, j)
  <2>1. \A id : BestMatch(u, id) = BestMatch(wide, id)
    BY <1>2, <1>6, <1>14, SameMatch
  <2> QED BY <2>1 DEF K, Sharers
<1>16. ASSUME NEW j \in 1..n + 1
       PROVE  /\ u.seq[j].id = wide.seq[j].id
              /\ u.seq[j].nodes = OldNodes(t, k, j) \o Share(j)
  BY <1>7, <1>9, <1>11, <1>12
<1>17. ASSUME NEW j \in 1..n + 1 PROVE GetsShare(t, u, k, j)
  BY <1>9, <1>15, <1>16 DEF nodes, GetsShare
<1>18. Inserted(t, u, k, ComputeId(t, k))
  BY <1>6, <1>7, <1>10, <1>12, <1>16 DEF Inserted
<1> QED BY <1>13, <1>17, <1>18

-----------------------------------------------------------------------------
(* A split keeps the shape, and tells where an id belongs afterwards.        *)

\* The buckets in front of the own one keep their ids, those behind move on by
\* one, and the own ones are divided among two.
Shifted(t, u, k) ==
  \A id \in Id :
    /\ BestMatch(t, id) < k => BestMatch(u, id) = BestMatch(t, id)
    /\ BestMatch(t, id) = k => BestMatch(u, id) \in {k, k + 1}
    /\ BestMatch(t, id) > k => BestMatch(u, id) = BestMatch(t, id) + 1

\* A split in order: the ids of bucket k are shared, the rest moves up by one.
LEMMA OrderedSplit ==
  ASSUME NEW t \in BucketList, Ordered(t), NEW k \in 1..Len(t.seq),
         NEW new \in Nat, t.seq[k].id < new,
         k < Len(t.seq) => new < t.seq[k + 1].id,
         k < Len(t.seq) \/ Len(t.seq) = 1,
         NEW u \in BucketList, Inserted(t, u, k, new)
  PROVE  /\ Ordered(u) /\ Shifted(t, u, k)
         /\ \A id \in Id : BestMatch(t, id) = k =>
              BestMatch(u, id) = IF id < new THEN k ELSE k + 1
<1> DEFINE n == Len(t.seq)
<1>1. n \in Nat /\ n > 0 /\ k <= n /\ \A j \in 1..n : t.seq[j].id \in Nat
  BY BucketListIs
<1>2. /\ t.seq[1].id = 0 /\ t.stop = n
      /\ \A j \in 1..n - 1 : t.seq[j].id < t.seq[j + 1].id
  BY DEF Ordered
<1> USE DEF Inserted
<1>3. Ordered(u)
  <2>1. u.seq[1].id = 0
    BY <1>1, <1>2
  <2>2. u.stop = n + 1
    BY <1>1, <1>2
  <2>3. ASSUME NEW j \in 1..n PROVE u.seq[j].id < u.seq[j + 1].id
    <3>1. j \in 1..n + 1 /\ j + 1 \in 1..n + 1 /\ j \in Nat /\ k \in Nat
      BY <1>1
    <3>2. CASE j < k
      <4>1. j <= k /\ j + 1 <= k /\ j \in 1..n - 1
        BY <1>1, <3>1, <3>2
      <4> QED BY <1>2, <3>1, <4>1
    <3>3. CASE j = k
      <4>1. j <= k /\ ~ (j + 1 <= k) /\ j + 1 = k + 1
        BY <3>1, <3>3
      <4> QED BY <3>1, <3>3, <4>1
    <3>4. CASE j = k + 1
      <4>1. ~ (j <= k) /\ ~ (j + 1 <= k) /\ j + 1 # k + 1 /\ (j + 1) - 1 = k + 1 /\ k < n
        BY <1>1, <3>1, <3>4
      <4> QED BY <3>1, <3>4, <4>1
    <3>5. CASE j > k + 1
      <4>1. /\ ~ (j <= k) /\ j # k + 1 /\ ~ (j + 1 <= k) /\ j + 1 # k + 1
            /\ (j + 1) - 1 = (j - 1) + 1 /\ j - 1 \in 1..n - 1
        BY <1>1, <3>1, <3>5
      <4> QED BY <1>2, <3>1, <4>1
    <3> QED BY <3>1, <3>2, <3>3, <3>4, <3>5
  <2> QED BY <1>1, <2>1, <2>2, <2>3 DEF Ordered
<1>4. ASSUME NEW id \in Id, NEW j \in 1..n, j = BestMatch(t, id)
      PROVE  BestMatch(u, id) = IF j < k THEN j
                                ELSE IF j > k THEN j + 1
                                ELSE IF id < new THEN k ELSE k + 1
  <2>1. id \in Nat
    BY IdIs
  <2>2. t.seq[j].id <= id /\ (j < n => id < t.seq[j + 1].id)
    BY <1>4, <2>1, MatchIs
  <2>3. \A i \in 1..n + 1 :
          BestMatch(u, id) = i <=> u.seq[i].id <= id /\ (i < n + 1 => id < u.seq[i + 1].id)
    BY <1>3, <2>1, MatchIs
  <2>4. j \in Nat /\ k \in Nat
    BY <1>1
  <2>5. CASE j < k
    <3>1. /\ j \in 1..n + 1 /\ j + 1 \in 1..n + 1 /\ j <= k /\ j + 1 <= k /\ j < n
      BY <1>1, <2>4, <2>5
    <3>2. u.seq[j].id <= id /\ id < u.seq[j + 1].id
      BY <2>2, <3>1
    <3> QED BY <2>3, <2>5, <3>1, <3>2
  <2>6. CASE j > k
    <3>1. /\ j + 1 \in 1..n + 1 /\ ~ (j + 1 <= k) /\ j + 1 # k + 1 /\ (j + 1) - 1 = j
      BY <1>1, <2>4, <2>6
    <3>2. u.seq[j + 1].id <= id
      BY <2>2, <3>1
    <3>3. ASSUME j + 1 < n + 1 PROVE id < u.seq[(j + 1) + 1].id
      <4>1. /\ (j + 1) + 1 \in 1..n + 1 /\ ~ ((j + 1) + 1 <= k) /\ (j + 1) + 1 # k + 1
            /\ ((j + 1) + 1) - 1 = j + 1 /\ j < n
        BY <1>1, <2>4, <2>6, <3>3
      <4> QED BY <2>2, <4>1
    <3>4. BestMatch(u, id) = j + 1
      BY <2>3, <3>1, <3>2, <3>3
    <3>5. ~ (j < k)
      BY <2>4, <2>6
    <3> QED BY <2>6, <3>4, <3>5
  <2>7. CASE j = k /\ id < new
    <3>1. k \in 1..n + 1 /\ k + 1 \in 1..n + 1 /\ k <= k /\ ~ (k + 1 <= k)
      BY <1>1, <2>4
    <3>2. u.seq[k].id <= id /\ id < u.seq[k + 1].id
      BY <2>2, <2>7, <3>1
    <3>3. BestMatch(u, id) = k
      BY <2>3, <3>1, <3>2
    <3> QED BY <2>4, <2>7, <3>3
  <2>8. CASE j = k /\ ~ (id < new)
    <3>1. k + 1 \in 1..n + 1 /\ ~ (k + 1 <= k) /\ new <= id
      BY <1>1, <2>1, <2>4, <2>8
    <3>2. u.seq[k + 1].id <= id
      BY <3>1
    <3>3. ASSUME k + 1 < n + 1 PROVE id < u.seq[(k + 1) + 1].id
      <4>1. /\ (k + 1) + 1 \in 1..n + 1 /\ ~ ((k + 1) + 1 <= k) /\ (k + 1) + 1 # k + 1
            /\ ((k + 1) + 1) - 1 = k + 1 /\ k < n
        BY <1>1, <2>4, <3>3
      <4> QED BY <2>2, <2>8, <4>1
    <3>4. BestMatch(u, id) = k + 1
      BY <2>3, <3>1, <3>2, <3>3
    <3> QED BY <2>4, <2>8, <3>4
  <2> QED BY <2>4, <2>5, <2>6, <2>7, <2>8
<1>5. ASSUME NEW id \in Id PROVE BestMatch(t, id) \in 1..n
  BY IdIs, MatchIsFirst
<1>6. k \in Nat /\ \A id \in Id : BestMatch(t, id) \in Nat
  BY <1>1, <1>5
<1>7. Shifted(t, u, k)
  <2> SUFFICES ASSUME NEW id \in Id
               PROVE  /\ BestMatch(t, id) < k => BestMatch(u, id) = BestMatch(t, id)
                      /\ BestMatch(t, id) = k => BestMatch(u, id) \in {k, k + 1}
                      /\ BestMatch(t, id) > k => BestMatch(u, id) = BestMatch(t, id) + 1
    BY DEF Shifted
  <2>1. PICK j \in Nat : j = BestMatch(t, id)
    BY <1>6
  <2>2. BestMatch(u, id) = IF j < k THEN j
                           ELSE IF j > k THEN j + 1
                           ELSE IF id < new THEN k ELSE k + 1
    BY <1>4, <1>5, <2>1
  <2> QED BY <1>6, <2>1, <2>2
<1>8. ASSUME NEW id \in Id, BestMatch(t, id) = k
      PROVE  BestMatch(u, id) = IF id < new THEN k ELSE k + 1
  <2>1. ~ (k < k) /\ ~ (k > k)
    BY <1>6
  <2> QED BY <1>4, <1>5, <1>8, <2>1
<1> QED BY <1>3, <1>7, <1>8

\* Own ids in the lower half: the two halves of the own bucket.
LEMMA LowerSplit ==
  ASSUME NEW t \in BucketList, NEW me \in Id, me < 2^(Width - 1), LowerShape(t, me),
         MustSplit(t, me), NEW k, k = BestMatch(t, me), NEW u, u = bckt_split(t, me)
  PROVE  /\ ComputeId(t, k) \in Id
         /\ Shifted(t, u, k)
         /\ LowerShape(u, me)
<1> DEFINE n == Len(t.seq)
           L == Depth(t)
           w == 2^(Width - L)
           q == me \div w
           h == 2^(Width - 1 - L)
           new == t.seq[k].id + h
<1>1. /\ n \in Nat /\ n > 0 /\ me \in Nat /\ k \in 1..n /\ Width \in Nat
      /\ \A j \in 1..n : t.seq[j].id \in Nat /\ t.seq[j].id < 2^Width
      /\ me < 2^Width
  <2>1. me \in Nat /\ me < 2^Width
    BY IdIs
  <2>2. k \in 1..n
    BY <2>1, MatchIsFirst
  <2>3. \A j \in 1..n : t.seq[j].id \in Id
    BY BucketListIs
  <2>4. n \in Nat /\ n > 0
    BY <2>2, BucketListIs
  <2> QED BY <2>1, <2>2, <2>3, <2>4, IdIs, BucketAssumption
<1>2. L \in Nat /\ L = n - 1 /\ L < Width
  BY <1>1, NextBitIs DEF MustSplit, Depth
<1>3. h \in Nat \ {0} /\ w = 2 * h
  <2>1. Width - 1 - L \in Nat /\ (Width - 1 - L) + 1 = Width - L
    BY <1>1, <1>2
  <2> QED BY <2>1, PowerDoubles
<1>4. w \in Nat \ {0}
  BY <1>3
<1>5. q \in Nat /\ w * q <= me /\ me < w * q + w
  BY <1>1, <1>4, Divided
<1>6. Ordered(t) /\ t.seq[k].id = w * q
  BY DEF LowerShape
<1>7. ComputeId(t, k) = new
  <2>1. NextBit(t, k) = L
    BY NextBitIs
  <2> QED BY <2>1 DEF ComputeId
<1>8. ASSUME L > 0 PROVE k < n /\ t.seq[k + 1].id = w * q + w
  <2>1. k <= L /\ t.seq[k + 1].id = t.seq[k].id + w
    BY <1>8 DEF LowerShape
  <2>2. k < n
    BY <1>1, <1>2, <2>1
  <2> QED BY <1>6, <2>1, <2>2
<1>9. ASSUME L = 0 PROVE n = 1 /\ k = 1 /\ w = 2^Width /\ w * q = 0 /\ h = 2^(Width - 1)
  <2>1. n = 1 /\ k = 1
    BY <1>1, <1>2, <1>9
  <2>2. w * q = 0
    BY <1>6, <2>1 DEF Ordered
  <2>3. w = 2^Width /\ h = 2^(Width - 1)
    BY <1>1, <1>9
  <2> QED BY <2>1, <2>2, <2>3
<1> HIDE DEF n, L, w, h, q
<1>10. \A m \in Nat : m = 0 \/ m > 0
  OBVIOUS
<1>11. w * q \in Nat
  BY <1>4, <1>5
<1>12. new \in Nat /\ new < 2^Width
  <2>1. CASE L > 0
    <3>1. w * q + w < 2^Width
      <4>1. k + 1 \in 1..n
        BY <1>1, <1>8, <2>1
      <4> QED BY <1>1, <1>8, <2>1, <4>1
    <3> QED BY <1>1, <1>3, <1>6, <1>11, <3>1
  <2>2. CASE L = 0
    BY <1>1, <1>3, <1>6, <1>9, <1>11, <2>2
  <2> QED BY <1>2, <1>10, <2>1, <2>2
<1>13. ComputeId(t, k) \in Id
  BY <1>1, <1>7, <1>12, PowerDoubles DEF Id
<1>14. u \in BucketList /\ Inserted(t, u, k, new)
  BY <1>1, <1>7, <1>13, SplitIs DEF n
<1>15. /\ t.seq[k].id < new
       /\ k < n => new < t.seq[k + 1].id
       /\ k < n \/ n = 1
  <2>1. t.seq[k].id < new
    BY <1>3, <1>6, <1>11
  <2>2. CASE L > 0
    BY <1>3, <1>6, <1>8, <1>11, <2>1, <2>2
  <2>3. CASE L = 0
    BY <1>9, <2>1, <2>3
  <2> QED BY <1>2, <1>10, <2>2, <2>3
<1>16. /\ Len(u.seq) = n + 1
       /\ \A j \in 1..n + 1 :
            u.seq[j].id = IF j <= k THEN t.seq[j].id
                          ELSE IF j = k + 1 THEN new ELSE t.seq[j - 1].id
  BY <1>14 DEF Inserted, n
<1> HIDE DEF new
<1>17. /\ Ordered(u) /\ Shifted(t, u, k)
       /\ BestMatch(u, me) = IF me < new THEN k ELSE k + 1
  <2>1. /\ Ordered(u) /\ Shifted(t, u, k)
        /\ \A id \in Id : BestMatch(t, id) = k =>
             BestMatch(u, id) = IF id < new THEN k ELSE k + 1
    <3>1. /\ k \in 1..Len(t.seq) /\ t.seq[k].id < new
          /\ k < Len(t.seq) => new < t.seq[k + 1].id
          /\ k < Len(t.seq) \/ Len(t.seq) = 1
      BY <1>1, <1>15 DEF n
    <3> QED BY <1>6, <1>12, <1>14, <3>1, OrderedSplit
  <2> QED BY <2>1
<1>18. Depth(u) = L + 1 /\ 2^(Width - Depth(u)) = h
  <2>1. Depth(u) = L + 1
    BY <1>1, <1>2, <1>16 DEF Depth
  <2>2. Width - (L + 1) = Width - 1 - L
    BY <1>1, <1>2
  <2> QED BY <2>1, <2>2 DEF h
<1>19. /\ h * (2 * q) = w * q
       /\ h * (2 * q + 1) = w * q + h
  <2>1. h * (2 * q) = (2 * h) * q
    BY <1>3, <1>5
  <2>2. h * (2 * q + 1) = h * (2 * q) + h
    BY <1>3, <1>5
  <2> QED BY <1>3, <2>1, <2>2
<1>20. CASE me < new
  <2>1. BestMatch(u, me) = k
    BY <1>17, <1>20
  <2>2. me \div h = 2 * q
    <3>1. h * (2 * q) <= me /\ me < h * (2 * q) + h
      BY <1>5, <1>6, <1>19, <1>20 DEF new
    <3>2. 2 * q \in Nat
      BY <1>5
    <3> QED BY <1>1, <1>3, <3>1, <3>2, DividedIs
  <2>3. k \in 1..n + 1 /\ k + 1 \in 1..n + 1 /\ k <= k /\ ~ (k + 1 <= k) /\ k <= L + 1
    BY <1>1, <1>2
  <2>4. u.seq[k].id = h * (me \div h)
    BY <1>6, <1>16, <1>19, <2>2, <2>3
  <2>5. u.seq[k + 1].id = u.seq[k].id + h
    BY <1>16, <2>3 DEF new
  <2>6. Depth(u) <= Width
    BY <1>1, <1>2, <1>18
  <2>7. LowerShape(u, me)
    BY <1>17, <1>18, <2>1, <2>3, <2>4, <2>5, <2>6 DEF LowerShape
  <2> QED BY <1>13, <1>17, <2>7
<1>21. CASE ~ (me < new)
  <2>1. BestMatch(u, me) = k + 1
    BY <1>17, <1>21
  <2>2. me \div h = 2 * q + 1
    <3>1. h * (2 * q + 1) <= me /\ me < h * (2 * q + 1) + h
      BY <1>1, <1>3, <1>5, <1>6, <1>11, <1>12, <1>19, <1>21 DEF new
    <3>2. 2 * q + 1 \in Nat
      BY <1>5
    <3> QED BY <1>1, <1>3, <3>1, <3>2, DividedIs
  <2>3. L > 0
    <3>1. L # 0
      BY <1>3, <1>6, <1>9, <1>21 DEF new
    <3> QED BY <1>2, <1>10, <3>1
  <2>4. k < n /\ t.seq[k + 1].id = w * q + w
    BY <1>8, <2>3
  <2>5. /\ k + 1 \in 1..n + 1 /\ (k + 1) + 1 \in 1..n + 1 /\ k + 1 <= L + 1
        /\ ~ (k + 1 <= k) /\ ~ ((k + 1) + 1 <= k) /\ (k + 1) + 1 # k + 1
        /\ ((k + 1) + 1) - 1 = k + 1
    BY <1>1, <1>2, <2>4
  <2>6. u.seq[k + 1].id = h * (me \div h)
    BY <1>6, <1>16, <1>19, <2>2, <2>5 DEF new
  <2>7. u.seq[(k + 1) + 1].id = u.seq[k + 1].id + h
    <3>1. u.seq[(k + 1) + 1].id = w * q + w
      BY <1>16, <2>4, <2>5
    <3>2. u.seq[k + 1].id = w * q + h
      BY <1>6, <1>16, <2>5 DEF new
    <3> QED BY <1>3, <1>11, <3>1, <3>2
  <2>8. Depth(u) <= Width
    BY <1>1, <1>2, <1>18
  <2>9. LowerShape(u, me)
    BY <1>17, <1>18, <2>1, <2>5, <2>6, <2>7, <2>8 DEF LowerShape
  <2> QED BY <1>13, <1>17, <2>9
<1> QED BY <1>20, <1>21

\* Own ids in the upper half: only two buckets are ever matched.
LEMMA UpperMatch ==
  ASSUME NEW t \in BucketList, UpperShape(t), Len(t.seq) > 1, NEW id \in Id
  PROVE  BestMatch(t, id) = IF id < 2^(Width - 1) THEN 1 ELSE 2
<1> DEFINE n == Len(t.seq)
           half == 2^(Width - 1)
           k == BestMatch(t, id)
<1>1. n \in Nat /\ n > 1 /\ id \in Nat /\ half \in Nat
  BY BucketListIs, IdIs, BucketAssumption, PowerDoubles
<1>2. t.seq[2].id = half /\ t.stop = 2
  BY <1>1 DEF UpperShape
<1>3. /\ k \in 1..n
      /\ \/ /\ k < n /\ id < t.seq[k + 1].id
            /\ \A m \in 1..k - 1 : t.seq[m + 1].id <= id
         \/ /\ k = 2
            /\ \A m \in 1..n - 1 : t.seq[m + 1].id <= id
  BY <1>1, <1>2, MatchIsFirst
<1> DEFINE over == half + 2^(Width - 2)
<1>4. \A j \in 3..n : t.seq[j].id = over /\ over \in Nat
  <2> SUFFICES ASSUME NEW j \in 3..n PROVE t.seq[j].id = over /\ over \in Nat
    OBVIOUS
  <2>1. t.seq[j].id = over /\ Width > 1
    BY DEF UpperShape
  <2>2. j \in 1..n
    BY <1>1
  <2> QED BY <2>1, <2>2, BucketListIs
<1> HIDE DEF n, half, k, over
<1>5. CASE id < half
  <2>1. 1 \in 1..n - 1 /\ 1 + 1 = 2
    BY <1>1
  <2>2. ~ (t.seq[1 + 1].id <= id)
    BY <1>1, <1>2, <1>5
  <2>3. k \in 1..n /\ ~ (1 \in 1..k - 1)
    BY <1>3, <2>1, <2>2
  <2>4. k = 1
    BY <1>1, <2>3
  <2> QED BY <1>5, <2>4 DEF k, half
<1>6. CASE ~ (id < half)
  <2>1. k # 1
    BY <1>2, <1>3, <1>6
  <2>2. SUFFICES ASSUME k # 2 PROVE FALSE
    BY <1>6 DEF k, half
  <2>3. k \in 3..n - 1 /\ k + 1 \in 3..n /\ 2 \in 1..k - 1 /\ 3 \in 3..n /\ 2 + 1 = 3
    BY <1>1, <1>3, <2>1, <2>2
  <2>4. id < over
    BY <1>3, <1>4, <2>2, <2>3
  <2>5. over <= id
    <3>1. t.seq[2 + 1].id <= id
      BY <1>3, <2>2, <2>3
    <3> QED BY <1>4, <2>3, <3>1
  <2> QED BY <1>1, <1>4, <2>3, <2>4, <2>5
<1> QED BY <1>5, <1>6

\* A split with an own id in the upper half keeps the shape.
LEMMA UpperSplit ==
  ASSUME NEW t \in BucketList, NEW me \in Id, ~ (me < 2^(Width - 1)), UpperShape(t),
         MustSplit(t, me), NEW k, k = BestMatch(t, me), NEW u, u = bckt_split(t, me)
  PROVE  /\ ComputeId(t, k) \in Id
         /\ Shifted(t, u, k)
         /\ UpperShape(u)
<1> DEFINE n == Len(t.seq)
           half == 2^(Width - 1)
<1>1. n \in Nat /\ n > 0 /\ me \in Nat /\ k \in 1..n
  <2>1. me \in Nat
    BY IdIs
  <2> QED BY <2>1, MatchIsFirst, BucketListIs
<1>2. Width \in Nat \ {0} /\ half \in Nat \ {0} /\ 2^Width = 2 * half
  <2>1. Width \in Nat \ {0} /\ Width - 1 \in Nat /\ (Width - 1) + 1 = Width
    BY BucketAssumption
  <2> QED BY <2>1, PowerDoubles
<1>3. half \in Id
  BY <1>2 DEF Id
<1>4. t.seq[1].id = 0 /\ t.stop = IF n = 1 THEN 1 ELSE 2
  BY DEF UpperShape
<1> HIDE DEF n, half
<1>5. CASE n = 1
  <2>1. k = 1 /\ k = t.stop
    BY <1>1, <1>4, <1>5
  <2>2. NextBit(t, k) = 0
    BY <1>4, <2>1 DEF NextBit, SignificantBit
  <2>3. ComputeId(t, k) = half
    <3>1. Width - 1 - 0 = Width - 1
      BY <1>2
    <3> QED BY <1>2, <1>4, <2>1, <2>2, <3>1 DEF ComputeId, half
  <2>4. u \in BucketList /\ Inserted(t, u, k, half)
    BY <1>1, <1>3, <2>3, SplitIs DEF n
  <2>5. /\ Len(u.seq) = 2 /\ u.stop = 2
        /\ u.seq[1].id = 0 /\ u.seq[2].id = half
    BY <1>4, <1>5, <2>1, <2>4 DEF Inserted, n
  <2>6. UpperShape(u)
    BY <2>5 DEF UpperShape, half
  <2>7. Shifted(t, u, k)
    <3> SUFFICES ASSUME NEW id \in Id
                 PROVE  BestMatch(t, id) = 1 /\ BestMatch(u, id) \in {1, 2}
      BY <2>1 DEF Shifted
    <3>1. id \in Nat
      BY IdIs
    <3>2. BestMatch(t, id) \in 1..1
      BY <1>5, <3>1, MatchIsFirst DEF n
    <3>3. BestMatch(u, id) \in 1..2
      BY <2>4, <2>5, <3>1, MatchIsFirst
    <3> QED BY <3>2, <3>3
  <2> QED BY <1>3, <2>3, <2>6, <2>7
<1>6. CASE n # 1
  <2>1. n > 1
    BY <1>1, <1>6
  <2>2. k = 2 /\ t.stop = 2 /\ t.seq[2].id = half
    BY <1>4, <1>6, <2>1, UpperMatch DEF UpperShape, n, half
  <2>3. SignificantBit(half) = 0
    <3>1. half = 2^(Width - 1) * 1
      BY <1>2 DEF half
    <3>2. 1 \in 0..Width /\ 1 \in Nat /\ 1 > 0 /\ 1 % 2 = 1 /\ 1 - 1 = 0
      BY <1>2
    <3> QED BY <1>3, <3>1, <3>2, SignificantIs
  <2>4. NextBit(t, k) = 1
    BY <2>2, <2>3 DEF NextBit
  <2>5. Width > 1
    BY <1>2, <2>2, <2>4 DEF MustSplit
  <2> DEFINE over == half + 2^(Width - 2)
  <2>6. ComputeId(t, k) = over
    <3>1. Width - 1 - 1 = Width - 2
      BY <1>2
    <3> QED BY <2>2, <2>4, <3>1 DEF ComputeId
  <2>7. over \in Id
    <3>1. Width - 2 \in Nat /\ (Width - 2) + 1 = Width - 1
      BY <1>2, <2>5
    <3>2. 2^(Width - 2) \in Nat \ {0} /\ half = 2 * 2^(Width - 2)
      BY <3>1, PowerDoubles DEF half
    <3> QED BY <1>2, <3>2 DEF Id
  <2>8. u \in BucketList /\ Inserted(t, u, k, over)
    <3>1. ComputeId(t, k) \in Id
      BY <2>6, <2>7
    <3>2. u \in BucketList /\ Inserted(t, u, k, ComputeId(t, k))
      BY <1>1, <3>1, SplitIs DEF n
    <3> QED BY <2>6, <3>2
  <2> HIDE DEF over
  <2>9. /\ Len(u.seq) = n + 1 /\ u.stop = 2
        /\ u.seq[1].id = 0 /\ u.seq[2].id = half
        /\ u.seq[3].id = over
        /\ \A j \in 4..n + 1 : u.seq[j].id = t.seq[j - 1].id
    <3>1. /\ Len(u.seq) = n + 1
          /\ u.stop = IF k < t.stop \/ n = 1 THEN t.stop + 1 ELSE t.stop
          /\ \A j \in 1..n + 1 : u.seq[j].id = IF j <= k THEN t.seq[j].id
                                               ELSE IF j = k + 1 THEN over ELSE t.seq[j - 1].id
      BY <2>8 DEF Inserted, n
    <3>2. 1 \in 1..n + 1 /\ 2 \in 1..n + 1 /\ 3 \in 1..n + 1
      BY <1>1, <2>1
    <3>3. ASSUME NEW j \in 4..n + 1 PROVE u.seq[j].id = t.seq[j - 1].id
      <4>1. j \in 1..n + 1 /\ ~ (j <= 2) /\ j # 3
        BY <1>1
      <4> QED BY <2>2, <3>1, <4>1
    <3> QED BY <1>4, <1>6, <2>2, <3>1, <3>2, <3>3
  <2>10. UpperShape(u)
    <3>1. ASSUME NEW j \in 3..n + 1 PROVE u.seq[j].id = over
      <4>1. CASE j = 3
        BY <2>9, <4>1
      <4>2. CASE j # 3
        <5>1. j \in 4..n + 1 /\ j - 1 \in 3..n
          BY <1>1, <4>2
        <5>2. t.seq[j - 1].id = over
          BY <5>1 DEF UpperShape, n, over, half
        <5> QED BY <2>9, <5>1, <5>2
      <4> QED BY <4>1, <4>2
    <3>2. Len(u.seq) # 1
      BY <1>1, <2>1, <2>9
    <3> QED BY <2>5, <2>9, <3>1, <3>2 DEF UpperShape, over, half
  <2>11. Shifted(t, u, k)
    <3> SUFFICES ASSUME NEW id \in Id
                 PROVE  /\ BestMatch(t, id) = BestMatch(u, id)
                        /\ BestMatch(t, id) \in {1, 2}
      BY <2>2 DEF Shifted
    <3>1. BestMatch(t, id) = IF id < half THEN 1 ELSE 2
      BY <2>1, UpperMatch DEF n, half
    <3>2. BestMatch(u, id) = IF id < half THEN 1 ELSE 2
      <4>1. Len(u.seq) > 1
        BY <1>1, <2>1, <2>9
      <4> QED BY <2>8, <2>10, <4>1, UpperMatch DEF half
    <3> QED BY <3>1, <3>2
  <2> QED BY <2>6, <2>7, <2>10, <2>11
<1> QED BY <1>5, <1>6

-----------------------------------------------------------------------------
(* The nodes in the buckets.                                                 *)

\* The nodes of bucket k belong there, and none is there twice.
Sound(t, k) ==
  LET nodes == t.seq[k].nodes
  IN  /\ \A p \in 1..Len(nodes) : BestMatch(t, nodes[p].id) = k
      /\ \A p, q \in 1..Len(nodes) : nodes[p].id = nodes[q].id => p = q

Placed(t) == \A k \in 1..Len(t.seq) : Sound(t, k)

\* Some node of the table has this id.
Has(t, id) ==
  \E k \in 1..Len(t.seq) : \E p \in 1..Len(t.seq[k].nodes) : t.seq[k].nodes[p].id = id

\* Ids of nodes are ids.
LEMMA NodeIds ==
  ASSUME node_id \in OwnId
  PROVE  \A n \in Node : n.id \in Peer[node_id] /\ n.id \in Id
BY NeighborhoodAssumption DEF Node

\* What a split does to the nodes: two buckets share those of the own one.
LEMMA SplitNodes ==
  ASSUME node_id \in OwnId, NEW t \in BucketList, Placed(t), NEW me,
         NEW k \in 1..Len(t.seq), k = BestMatch(t, me), ComputeId(t, k) \in Id,
         NEW u, u = bckt_split(t, me), Shifted(t, u, k), NEW j \in 1..Len(t.seq) + 1
  PROVE  /\ j = k \/ j = k + 1 =>
              \E c, e : PartOf(t.seq[k].nodes, Sharers(t, k, u, j), c, e, u.seq[j].nodes)
         /\ j < k => u.seq[j].nodes = t.seq[j].nodes
         /\ j > k + 1 => u.seq[j].nodes = t.seq[j - 1].nodes
<1> DEFINE N == t.seq[k].nodes
           K == Sharers(t, k, u, j)
<1>1. /\ Len(t.seq) \in Nat /\ k \in Nat /\ j \in Nat
      /\ N \in Seq(Node) /\ Len(N) \in Nat /\ DOMAIN N = 1..Len(N)
      /\ \A p \in 1..Len(N) : N[p] \in Node
      /\ \A m \in 1..Len(t.seq) : t.seq[m].nodes \in Seq(Node)
  <2>1. Len(t.seq) \in Nat /\ k \in Nat /\ j \in Nat
    BY BucketListIs
  <2>2. N \in Seq(Node) /\ Len(N) \in Nat /\ DOMAIN N = 1..Len(N)
    BY BucketListIs
  <2>3. \A p \in 1..Len(N) : N[p] \in Node
    BY BucketListIs
  <2>4. \A m \in 1..Len(t.seq) : t.seq[m].nodes \in Seq(Node)
    BY BucketListIs
  <2> QED BY <2>1, <2>2, <2>3, <2>4
<1>2. PICK share, c, e :
        /\ share \in Seq(Node) /\ PartOf(N, K, c, e, share)
        /\ u.seq[j].nodes = OldNodes(t, k, j) \o share
  <2>1. GetsShare(t, u, k, j)
    BY SplitIs
  <2> QED BY <2>1 DEF GetsShare
<1>3. /\ c \in Nat /\ DOMAIN share = 1..c
      /\ \A i \in 1..c : e[i] \in K
  BY <1>1, <1>2, PartIs
<1>4. CASE j = k \/ j = k + 1
  <2>1. OldNodes(t, k, j) = << >>
    BY <1>4 DEF OldNodes
  <2>2. u.seq[j].nodes = share
    BY <1>2, <2>1, ConcatEmptySeq
  <2>3. ~ (j < k) /\ ~ (j > k + 1)
    BY <1>1, <1>4
  <2> QED BY <1>2, <2>2, <2>3
<1>5. ASSUME ~ (j = k \/ j = k + 1)
      PROVE  u.seq[j].nodes = OldNodes(t, k, j)
  <2>1. ASSUME NEW p \in K PROVE FALSE
    <3>1. p \in 1..Len(N) /\ BestMatch(u, N[p].id) = j
      BY <1>1 DEF Sharers
    <3>2. N[p].id \in Id
      BY <1>1, <3>1, NodeIds
    <3>3. BestMatch(t, N[p].id) = k
      BY <3>1 DEF Placed, Sound
    <3>4. BestMatch(u, N[p].id) \in {k, k + 1}
      BY <3>2, <3>3 DEF Shifted
    <3> QED BY <1>5, <3>1, <3>4
  <2>2. c = 0
    <3>1. SUFFICES ASSUME c # 0 PROVE FALSE
      OBVIOUS
    <3>2. 1 \in 1..c
      BY <1>3, <3>1
    <3> QED BY <1>3, <2>1, <3>2
  <2>3. share = << >>
    BY <1>2, <1>3, <2>2
  <2>4. OldNodes(t, k, j) \in Seq(Node)
    <3>1. j < k => j \in 1..Len(t.seq)
      BY <1>1
    <3>2. ~ (j < k) => j - 1 \in 1..Len(t.seq)
      BY <1>1, <1>5
    <3> QED BY <1>1, <1>5, <3>1, <3>2 DEF OldNodes
  <2> QED BY <1>2, <2>3, <2>4, ConcatEmptySeq
<1>6. CASE j < k
  <2>1. ~ (j = k \/ j = k + 1) /\ ~ (j > k + 1)
    BY <1>1, <1>6
  <2> QED BY <1>5, <1>6, <2>1 DEF OldNodes
<1>7. CASE j > k + 1
  <2>1. ~ (j = k \/ j = k + 1) /\ ~ (j < k)
    BY <1>1, <1>7
  <2> QED BY <1>5, <1>7, <2>1 DEF OldNodes
<1>8. j = k \/ j = k + 1 \/ j < k \/ j > k + 1
  BY <1>1
<1> QED BY <1>4, <1>6, <1>7, <1>8

\* Nodes stay where best match finds them, and all of them stay.
LEMMA SplitKeepsNodes ==
  ASSUME node_id \in OwnId, NEW t \in BucketList, Placed(t), NEW me,
         NEW k \in 1..Len(t.seq), k = BestMatch(t, me), ComputeId(t, k) \in Id,
         NEW u, u = bckt_split(t, me), Shifted(t, u, k)
  PROVE  Placed(u) /\ \A id : Has(t, id) => Has(u, id)
<1> DEFINE n == Len(t.seq)
           N == t.seq[k].nodes
<1>1. /\ n \in Nat /\ k \in Nat
      /\ \A m \in 1..n : /\ t.seq[m].nodes \in Seq(Node)
                         /\ Len(t.seq[m].nodes) \in Nat
                         /\ \A p \in 1..Len(t.seq[m].nodes) : t.seq[m].nodes[p].id \in Id
  <2>1. n \in Nat /\ k \in Nat
    BY BucketListIs
  <2>2. ASSUME NEW m \in 1..n
        PROVE  /\ t.seq[m].nodes \in Seq(Node)
               /\ Len(t.seq[m].nodes) \in Nat
               /\ \A p \in 1..Len(t.seq[m].nodes) : t.seq[m].nodes[p] \in Node
    BY BucketListIs
  <2> QED BY <2>1, <2>2, NodeIds
<1>2. u \in BucketList /\ Len(u.seq) = n + 1
  BY SplitIs DEF Inserted
<1>3. \A m \in 1..n + 1 : DOMAIN u.seq[m].nodes = 1..Len(u.seq[m].nodes)
  BY <1>2, BucketListIs
<1>4. \A m \in 1..n :
        /\ \A p \in 1..Len(t.seq[m].nodes) : BestMatch(t, t.seq[m].nodes[p].id) = m
        /\ \A p, q \in 1..Len(t.seq[m].nodes) :
             t.seq[m].nodes[p].id = t.seq[m].nodes[q].id => p = q
  BY DEF Placed, Sound
<1>5. DOMAIN N = 1..Len(N)
  BY BucketListIs
<1>6. ASSUME NEW j \in 1..n + 1, j = k \/ j = k + 1
      PROVE  /\ Sound(u, j)
             /\ \A p \in Sharers(t, k, u, j) :
                  \E i \in 1..Len(u.seq[j].nodes) : u.seq[j].nodes[i] = N[p]
  <2> DEFINE s == u.seq[j].nodes
             K == Sharers(t, k, u, j)
  <2>1. PICK c, e : PartOf(N, K, c, e, s)
    BY <1>6, SplitNodes
  <2>2. /\ c \in Nat /\ DOMAIN s = 1..c
        /\ \A i \in 1..c : e[i] \in K /\ e[i] \in 1..Len(N) /\ s[i] = N[e[i]]
        /\ \A i, m \in 1..c : e[i] = e[m] => i = m
        /\ \A p \in K : \E i \in 1..c : e[i] = p
    <3>1. N \in Seq(Node)
      BY <1>1
    <3> HIDE DEF N, K, s
    <3> QED BY <2>1, <3>1, PartIs
  <2>3. DOMAIN s = 1..Len(s)
    BY <1>3
  <2>4. ASSUME NEW i \in 1..Len(s) PROVE BestMatch(u, s[i].id) = j
    BY <2>2, <2>3 DEF Sharers
  <2>5. ASSUME NEW i \in 1..Len(s), NEW m \in 1..Len(s), s[i].id = s[m].id PROVE i = m
    <3>1. i \in 1..c /\ m \in 1..c
      BY <2>2, <2>3
    <3>2. e[i] \in 1..Len(N) /\ e[m] \in 1..Len(N) /\ N[e[i]].id = N[e[m]].id
      BY <2>2, <2>5, <3>1
    <3>3. e[i] = e[m]
      BY <1>4, <3>2
    <3> QED BY <2>2, <3>1, <3>3
  <2>6. ASSUME NEW p \in K PROVE \E i \in 1..Len(s) : s[i] = N[p]
    <3>1. PICK i \in 1..c : e[i] = p
      BY <2>2
    <3>2. s[i] = N[p] /\ i \in 1..Len(s)
      BY <2>2, <2>3, <3>1
    <3> QED BY <3>2
  <2> QED BY <2>4, <2>5, <2>6 DEF Sound
<1>7. ASSUME NEW m \in 1..n, m # k
      PROVE  \E j \in 1..n + 1 : /\ u.seq[j].nodes = t.seq[m].nodes
                                 /\ j = IF m < k THEN m ELSE m + 1
  <2>1. CASE m < k
    <3>1. m \in 1..n + 1
      BY <1>1
    <3>2. u.seq[m].nodes = t.seq[m].nodes
      BY <2>1, <3>1, SplitNodes
    <3> QED BY <2>1, <3>1, <3>2
  <2>2. CASE ~ (m < k)
    <3>1. m + 1 \in 1..n + 1 /\ m + 1 > k + 1 /\ (m + 1) - 1 = m
      BY <1>1, <1>7, <2>2
    <3>2. u.seq[m + 1].nodes = t.seq[m].nodes
      BY <3>1, SplitNodes
    <3> QED BY <2>2, <3>1, <3>2
  <2> QED BY <2>1, <2>2
<1>8. ASSUME NEW j \in 1..n + 1, ~ (j = k \/ j = k + 1) PROVE Sound(u, j)
  <2>1. PICK m \in 1..n : /\ u.seq[j].nodes = t.seq[m].nodes
                          /\ (m < k /\ j = m) \/ (m > k /\ j = m + 1)
    <3>1. CASE j < k
      <4>1. j \in 1..n
        BY <1>1, <3>1
      <4>2. u.seq[j].nodes = t.seq[j].nodes
        BY <3>1, SplitNodes
      <4> QED BY <3>1, <4>1, <4>2
    <3>2. CASE ~ (j < k)
      <4>1. j > k + 1 /\ j - 1 \in 1..n /\ j - 1 > k /\ j = (j - 1) + 1
        BY <1>1, <1>8, <3>2
      <4>2. u.seq[j].nodes = t.seq[j - 1].nodes
        BY <4>1, SplitNodes
      <4> QED BY <4>1, <4>2
    <3> QED BY <3>1, <3>2
  <2>2. ASSUME NEW p \in 1..Len(t.seq[m].nodes) PROVE BestMatch(u, t.seq[m].nodes[p].id) = j
    <3>1. BestMatch(t, t.seq[m].nodes[p].id) = m /\ t.seq[m].nodes[p].id \in Id
      BY <1>1, <1>4
    <3> QED BY <2>1, <3>1 DEF Shifted
  <2> QED BY <1>4, <2>1, <2>2 DEF Sound
<1>9. Placed(u)
  BY <1>2, <1>6, <1>8 DEF Placed
<1>10. ASSUME NEW id, Has(t, id) PROVE Has(u, id)
  <2>1. PICK m \in 1..n : \E p \in 1..Len(t.seq[m].nodes) : t.seq[m].nodes[p].id = id
    BY <1>10 DEF Has
  <2>2. PICK p \in 1..Len(t.seq[m].nodes) : t.seq[m].nodes[p].id = id
    BY <2>1
  <2>3. CASE m # k
    <3>1. PICK j \in 1..n + 1 : u.seq[j].nodes = t.seq[m].nodes
      BY <1>7, <2>3
    <3> QED BY <1>2, <2>2, <3>1 DEF Has
  <2>4. CASE m = k
    <3>1. BestMatch(t, id) = k /\ id \in Id
      BY <1>1, <1>4, <2>2, <2>4
    <3>2. PICK j \in {k, k + 1} : j = BestMatch(u, id)
      BY <3>1 DEF Shifted
    <3>3. j \in 1..n + 1
      BY <1>1, <3>2
    <3>4. p \in Sharers(t, k, u, j)
      BY <1>5, <2>2, <2>4, <3>2 DEF Sharers
    <3>5. PICK i \in 1..Len(u.seq[j].nodes) : u.seq[j].nodes[i] = N[p]
      BY <1>6, <3>2, <3>3, <3>4
    <3> QED BY <1>2, <2>2, <2>4, <3>3, <3>5 DEF Has
  <2> QED BY <2>3, <2>4
<1> QED BY <1>9, <1>10

-----------------------------------------------------------------------------
(* The other changes leave the buckets as they are.                          *)

InShape(t, me) == IF me < 2^(Width - 1) THEN LowerShape(t, me) ELSE UpperShape(t)

\* Every node of t is in u too, unless it is bad.
Keeps(t, u) ==
  \A k \in 1..Len(t.seq) : \A p \in 1..Len(t.seq[k].nodes) :
    Has(u, t.seq[k].nodes[p].id) \/ IsBad(t.seq[k].nodes[p])

\* The shape depends on the ids of the buckets only.
LEMMA SameShape ==
  ASSUME NEW t \in BucketList, NEW u, SameBuckets(t, u), NEW me \in Id, InShape(t, me)
  PROVE  InShape(u, me)
<1>1. /\ Len(t.seq) \in Nat \ {0} /\ Len(u.seq) = Len(t.seq) /\ u.stop = t.stop
      /\ \A k \in 1..Len(t.seq) : u.seq[k].id = t.seq[k].id
  BY BucketListIs DEF SameBuckets
<1>2. BestMatch(u, me) = BestMatch(t, me) /\ BestMatch(t, me) \in 1..Len(t.seq)
  BY <1>1, SameMatch, MatchIsFirst, IdIs
<1>3. Depth(u) = Depth(t) /\ Depth(t) = Len(t.seq) - 1
  BY <1>1 DEF Depth
<1>4. ASSUME LowerShape(t, me) PROVE LowerShape(u, me)
  <2> DEFINE k == BestMatch(t, me)
             w == 2^(Width - Depth(t))
  <2>1. /\ Ordered(t) /\ Depth(t) <= Width
        /\ t.seq[k].id = w * (me \div w)
        /\ Depth(t) > 0 => k <= Depth(t) /\ t.seq[k + 1].id = t.seq[k].id + w
    BY <1>4 DEF LowerShape
  <2>2. Ordered(u)
    <3>1. t.seq[1].id = 0 /\ t.stop = Len(t.seq)
      BY <2>1 DEF Ordered
    <3>2. ASSUME NEW j \in 1..Len(t.seq) - 1 PROVE u.seq[j].id < u.seq[j + 1].id
      <4>1. j \in 1..Len(t.seq) /\ j + 1 \in 1..Len(t.seq)
        BY <1>1
      <4> QED BY <1>1, <2>1, <4>1 DEF Ordered
    <3> QED BY <1>1, <3>1, <3>2 DEF Ordered
  <2>3. u.seq[k].id = w * (me \div w)
    BY <1>1, <1>2, <2>1
  <2>4. ASSUME Depth(t) > 0 PROVE k <= Depth(t) /\ u.seq[k + 1].id = u.seq[k].id + w
    <3>1. k <= Depth(t) /\ t.seq[k + 1].id = t.seq[k].id + w
      BY <2>1, <2>4
    <3>2. k \in 1..Len(t.seq) /\ k + 1 \in 1..Len(t.seq)
      BY <1>1, <1>2, <1>3, <3>1
    <3> QED BY <1>1, <3>1, <3>2
  <2> HIDE DEF k, w
  <2>5. LowerShape(u, me) <=> /\ Ordered(u) /\ Depth(t) <= Width
                              /\ u.seq[k].id = w * (me \div w)
                              /\ Depth(t) > 0 => k <= Depth(t) /\ u.seq[k + 1].id = u.seq[k].id + w
    BY <1>2, <1>3 DEF LowerShape, k, w
  <2> QED BY <2>1, <2>2, <2>3, <2>4, <2>5
<1>5. ASSUME UpperShape(t) PROVE UpperShape(u)
  <2>1. 1 \in 1..Len(t.seq) /\ (Len(t.seq) > 1 => 2 \in 1..Len(t.seq))
    BY <1>1
  <2>2. 3..Len(t.seq) \subseteq 1..Len(t.seq)
    BY <1>1
  <2>3. ASSUME NEW k \in 3..Len(t.seq)
        PROVE  Width > 1 /\ u.seq[k].id = 2^(Width - 1) + 2^(Width - 2)
    BY <1>1, <1>5, <2>2 DEF UpperShape
  <2>4. u.seq[1].id = 0 /\ u.stop = IF Len(u.seq) = 1 THEN 1 ELSE 2
    BY <1>1, <1>5, <2>1 DEF UpperShape
  <2>5. Len(u.seq) > 1 => u.seq[2].id = 2^(Width - 1)
    BY <1>1, <1>5, <2>1 DEF UpperShape
  <2> QED BY <1>1, <2>3, <2>4, <2>5 DEF UpperShape
<1> QED BY <1>4, <1>5 DEF InShape

WithNodes(t, g) ==
  [t EXCEPT !.seq = [k \in DOMAIN t.seq |-> [t.seq[k] EXCEPT !.nodes = g[k]]]]

\* Each bucket gets other nodes.
LEMMA EachBucketIs ==
  ASSUME NEW t \in BucketList, NEW g \in [1..Len(t.seq) -> Seq(Node)],
         NEW u, u = WithNodes(t, g)
  PROVE  /\ u \in BucketList /\ SameBuckets(t, u)
         /\ \A k \in 1..Len(t.seq) : u.seq[k].nodes = g[k]
<1> DEFINE b(k) == [t.seq[k] EXCEPT !.nodes = g[k]]
           s == [k \in DOMAIN t.seq |-> b(k)]
<1>1. /\ Len(t.seq) \in Nat /\ DOMAIN t.seq = 1..Len(t.seq) /\ t.stop \in 1..Len(t.seq)
      /\ \A j \in 1..Len(t.seq) : t.seq[j] \in BucketRecord
      /\ t \in [seq : Seq(BucketRecord), stop : Nat]
  BY BucketListIs DEF BucketList
<1>2. ASSUME NEW k \in 1..Len(t.seq)
      PROVE  b(k) \in BucketRecord /\ b(k).id = t.seq[k].id /\ b(k).nodes = g[k]
  <2>1. t.seq[k] \in BucketRecord /\ g[k] \in Seq(Node)
    BY <1>1
  <2> QED BY <2>1 DEF BucketRecord
<1>3. u = [t EXCEPT !.seq = s]
  BY DEF WithNodes
<1> HIDE DEF b
<1>4. s \in [1..Len(t.seq) -> BucketRecord] /\ \A k \in 1..Len(t.seq) : s[k] = b(k)
  BY <1>1, <1>2
<1> HIDE DEF s
<1>5. s \in Seq(BucketRecord) /\ Len(s) = Len(t.seq) /\ DOMAIN s = 1..Len(t.seq)
  BY <1>1, <1>4, ASeq, LenProperties
<1>6. u \in [seq : Seq(BucketRecord), stop : Nat] /\ u.seq = s /\ u.stop = t.stop
  BY <1>1, <1>3, <1>5
<1>7. u \in BucketList
  BY <1>1, <1>5, <1>6 DEF BucketList
<1>8. SameBuckets(t, u)
  BY <1>2, <1>4, <1>5, <1>6 DEF SameBuckets
<1> QED BY <1>2, <1>4, <1>6, <1>7, <1>8

\* The nodes of u are those of t, at the same places, with other fields.
Renewed(t, u) ==
  \A k \in 1..Len(t.seq) :
    /\ Len(u.seq[k].nodes) = Len(t.seq[k].nodes)
    /\ \A p \in 1..Len(t.seq[k].nodes) : u.seq[k].nodes[p].id = t.seq[k].nodes[p].id

\* Nodes updated in place stay in place.
LEMMA RenewedKeeps ==
  ASSUME NEW t \in BucketList, Placed(t), NEW u, SameBuckets(t, u), Renewed(t, u)
  PROVE  Placed(u) /\ Keeps(t, u)
<1>1. Len(t.seq) \in Nat /\ Len(u.seq) = Len(t.seq)
  BY BucketListIs DEF SameBuckets
<1>2. \A id : BestMatch(u, id) = BestMatch(t, id)
  BY <1>1, SameMatch
<1>3. ASSUME NEW k \in 1..Len(t.seq) PROVE Sound(u, k)
  <2>1. /\ Len(u.seq[k].nodes) = Len(t.seq[k].nodes)
        /\ \A p \in 1..Len(t.seq[k].nodes) : u.seq[k].nodes[p].id = t.seq[k].nodes[p].id
    BY DEF Renewed
  <2>2. Sound(t, k)
    BY DEF Placed
  <2> QED BY <1>2, <2>1, <2>2 DEF Sound
<1>4. ASSUME NEW k \in 1..Len(t.seq), NEW p \in 1..Len(t.seq[k].nodes)
      PROVE  Has(u, t.seq[k].nodes[p].id)
  <2>1. p \in 1..Len(u.seq[k].nodes) /\ u.seq[k].nodes[p].id = t.seq[k].nodes[p].id
    BY DEF Renewed
  <2> QED BY <1>1, <2>1 DEF Has
<1> QED BY <1>1, <1>3, <1>4 DEF Placed, Keeps

\* One bucket is renewed.
LEMMA RenewBucket ==
  ASSUME NEW t \in BucketList, Placed(t), NEW me \in Id, InShape(t, me),
         NEW k \in 1..Len(t.seq), NEW nodes \in [1..Len(t.seq[k].nodes) -> Node],
         \A p \in 1..Len(t.seq[k].nodes) : nodes[p].id = t.seq[k].nodes[p].id,
         NEW u, u = InBucket(t, k, nodes)
  PROVE  u \in BucketList /\ InShape(u, me) /\ Placed(u) /\ Keeps(t, u)
<1>1. Len(t.seq[k].nodes) \in Nat
  BY BucketListIs
<1>2. nodes \in Seq(Node) /\ Len(nodes) = Len(t.seq[k].nodes)
  BY <1>1, ASeq
<1>3. /\ u \in BucketList /\ SameBuckets(t, u)
      /\ \A j \in 1..Len(t.seq) : u.seq[j].nodes = IF j = k THEN nodes ELSE t.seq[j].nodes
  BY <1>2, InBucketIs
<1>4. Renewed(t, u)
  BY <1>2, <1>3 DEF Renewed
<1> QED BY <1>3, <1>4, SameShape, RenewedKeeps

-----------------------------------------------------------------------------
(* The invariant, and one lemma for each kind of change.                     *)

Sorted(t) == t \in BucketList /\ InShape(t, node_id) /\ Placed(t)

NbhdIInv ==
  /\ node_id \in OwnId /\ mode \in {"run", "split", "segfault"}
  /\ Sorted(nbhd)

\* The own id is an id.
LEMMA OwnIdIs ==
  ASSUME node_id \in OwnId
  PROVE  node_id \in Id /\ node_id \in Nat
BY NeighborhoodAssumption, IdIs

\* The search always finds a bucket.
LEMMA MatchExists ==
  ASSUME NEW t \in BucketList, NEW id \in Id
  PROVE  /\ BestMatch(t, id) \in 1..Len(t.seq)
         /\ BestNodes(t, id) = t.seq[BestMatch(t, id)].nodes
         /\ Len(BestNodes(t, id)) \in Nat
         /\ DOMAIN BestNodes(t, id) = 1..Len(BestNodes(t, id))
         /\ \A p \in 1..Len(BestNodes(t, id)) : BestNodes(t, id)[p] \in Node
<1>1. id \in Nat
  BY IdIs
<1>2. BestMatch(t, id) \in 1..Len(t.seq)
  BY <1>1, MatchIsFirst
<1>3. BestNodes(t, id) = t.seq[BestMatch(t, id)].nodes
  BY DEF BestNodes
<1>4. PICK k \in 1..Len(t.seq) : k = BestMatch(t, id)
  BY <1>2
<1>5. /\ Len(t.seq[k].nodes) \in Nat
      /\ DOMAIN t.seq[k].nodes = 1..Len(t.seq[k].nodes)
      /\ \A p \in 1..Len(t.seq[k].nodes) : t.seq[k].nodes[p] \in Node
  BY BucketListIs
<1> QED BY <1>2, <1>3, <1>4, <1>5

\* bckt_find_node finds nothing only if nobody in the table has the id.
LEMMA UnknownIsNowhere ==
  ASSUME NEW t \in BucketList, NEW id \in Id, ~ Known(t, id)
  PROVE  \A p \in 1..Len(BestNodes(t, id)) : BestNodes(t, id)[p].id # id
<1> DEFINE N == BestNodes(t, id)
           T == {p \in 1..Len(N) : N[p].id = id}
<1>1. DOMAIN N = 1..Len(N) /\ Len(N) \in Nat
  BY MatchExists
<1>2. SUFFICES ASSUME T # {} PROVE FALSE
  OBVIOUS
<1>3. T \in SUBSET Nat
  OBVIOUS
<1>4. PICK p \in T : \A q \in T : p <= q
  BY <1>2, <1>3, LeastNat
<1>5. ASSUME NEW q \in 1..p - 1 PROVE N[q].id # id
  <2>1. q \in 1..Len(N) /\ ~ (p <= q)
    BY <1>1, <1>4
  <2> QED BY <1>4, <2>1
<1>6. p \in FindNode(t, id)
  BY <1>1, <1>4, <1>5 DEF FindNode
<1> QED BY <1>6 DEF Known

\* A field of a node that is found by its id is set.
LEMMA UpdateKeeps ==
  ASSUME node_id \in OwnId, NEW t, Sorted(t), NEW id \in Id,
         NEW nodes, nodes \in [1..Len(BestNodes(t, id)) -> Node],
         \A p \in 1..Len(BestNodes(t, id)) : nodes[p].id = BestNodes(t, id)[p].id,
         NEW u, u = InBucket(t, BestMatch(t, id), nodes)
  PROVE  Sorted(u) /\ Keeps(t, u)
<1>1. t \in BucketList /\ InShape(t, node_id) /\ Placed(t)
  BY DEF Sorted
<1>2. PICK k \in 1..Len(t.seq) : k = BestMatch(t, id)
  BY <1>1, MatchExists
<1>3. BestNodes(t, id) = t.seq[k].nodes
  BY <1>2 DEF BestNodes
<1>4. u \in BucketList /\ InShape(u, node_id) /\ Placed(u) /\ Keeps(t, u)
  BY <1>1, <1>2, <1>3, OwnIdIs, RenewBucket
<1> QED BY <1>4 DEF Sorted

\* nbhd_put of a node that is not known puts it where best match looks for it.
LEMMA AppendKeeps ==
  ASSUME node_id \in OwnId, NEW t, Sorted(t), NEW n \in Node, ~ Known(t, n.id),
         NEW u, u = bckt_put(t, n)
  PROVE  Sorted(u) /\ Keeps(t, u)
<1> DEFINE k == BestMatch(t, n.id)
           N == t.seq[k].nodes
           nodes == Append(N, n)
<1>1. t \in BucketList /\ InShape(t, node_id) /\ Placed(t) /\ n.id \in Id
  BY NodeIds DEF Sorted
<1>2. k \in 1..Len(t.seq) /\ BestNodes(t, n.id) = N /\ Len(N) \in Nat
  BY <1>1, MatchExists
<1>3. N \in Seq(Node) /\ Len(t.seq) \in Nat
  BY <1>1, <1>2, BucketListIs
<1>4. u = InBucket(t, k, nodes)
  BY <1>2 DEF bckt_put
<1>5. /\ nodes \in Seq(Node) /\ Len(nodes) = Len(N) + 1
      /\ \A p \in 1..Len(N) : nodes[p] = N[p]
      /\ nodes[Len(N) + 1] = n
  BY <1>3, AppendProperties
<1>6. \A p \in 1..Len(N) : N[p].id # n.id
  BY <1>1, <1>2, UnknownIsNowhere
<1> HIDE DEF nodes, N, k
<1>7. /\ u \in BucketList /\ SameBuckets(t, u)
      /\ \A j \in 1..Len(t.seq) : u.seq[j].nodes = IF j = k THEN nodes ELSE t.seq[j].nodes
  BY <1>1, <1>2, <1>4, <1>5, InBucketIs
<1>8. Len(u.seq) = Len(t.seq) /\ \A id : BestMatch(u, id) = BestMatch(t, id)
  BY <1>3, <1>7, SameMatch DEF SameBuckets
<1>9. ASSUME NEW j \in 1..Len(t.seq) PROVE Sound(u, j)
  <2>1. Sound(t, j)
    BY <1>1 DEF Placed
  <2>2. CASE j # k
    BY <1>7, <1>8, <2>1, <2>2 DEF Sound
  <2>3. CASE j = k
    <3>1. u.seq[j].nodes = nodes
      BY <1>7, <2>3
    <3>2. /\ \A p \in 1..Len(N) : BestMatch(t, N[p].id) = k
          /\ \A p, q \in 1..Len(N) : N[p].id = N[q].id => p = q
      BY <2>1, <2>3 DEF Sound, N
    <3>3. ASSUME NEW p \in 1..Len(nodes) PROVE p \in 1..Len(N) \/ p = Len(N) + 1
      BY <1>2, <1>5
    <3>4. ASSUME NEW p \in 1..Len(nodes) PROVE BestMatch(u, nodes[p].id) = k
      <4>1. CASE p \in 1..Len(N)
        BY <1>5, <1>8, <3>2, <4>1
      <4>2. CASE p = Len(N) + 1
        BY <1>5, <1>8, <4>2 DEF k
      <4> QED BY <3>3, <4>1, <4>2
    <3>5. ASSUME NEW p \in 1..Len(nodes), NEW q \in 1..Len(nodes), nodes[p].id = nodes[q].id
          PROVE  p = q
      <4>1. CASE p \in 1..Len(N) /\ q \in 1..Len(N)
        BY <1>5, <3>2, <3>5, <4>1
      <4>2. CASE p = Len(N) + 1 /\ q \in 1..Len(N)
        BY <1>5, <1>6, <3>5, <4>2
      <4>3. CASE p \in 1..Len(N) /\ q = Len(N) + 1
        BY <1>5, <1>6, <3>5, <4>3
      <4> QED BY <3>3, <4>1, <4>2, <4>3
    <3> QED BY <2>3, <3>1, <3>4, <3>5 DEF Sound
  <2> QED BY <2>2, <2>3
<1>10. Placed(u)
  BY <1>8, <1>9 DEF Placed
<1>11. ASSUME NEW j \in 1..Len(t.seq), NEW p \in 1..Len(t.seq[j].nodes)
       PROVE  Has(u, t.seq[j].nodes[p].id)
  <2>1. p \in 1..Len(u.seq[j].nodes) /\ u.seq[j].nodes[p] = t.seq[j].nodes[p]
    <3>1. CASE j # k
      BY <1>7, <3>1
    <3>2. CASE j = k
      BY <1>2, <1>5, <1>7, <3>2 DEF N
    <3> QED BY <3>1, <3>2
  <2> QED BY <1>8, <2>1 DEF Has
<1>12. InShape(u, node_id)
  BY <1>1, <1>7, OwnIdIs, SameShape
<1> QED BY <1>7, <1>10, <1>11, <1>12 DEF Sorted, Keeps

\* A table that does not change loses nobody.
LEMMA KeepsItself ==
  ASSUME NEW t
  PROVE  Keeps(t, t)
BY DEF Keeps, Has

\* A packet: nbhd_put, and the new address in it.
LEMMA PutKeeps ==
  ASSUME NbhdIInv, NEW id \in Peer[node_id], NEW addr \in Addr, nbhd_put(id, addr)
  PROVE  Sorted(nbhd') /\ Keeps(nbhd, nbhd')
<1>1. Sorted(nbhd) /\ node_id \in OwnId /\ nbhd \in BucketList
  BY DEF NbhdIInv, Sorted
<1>2. id \in Id /\ nbhd' = WithNode(nbhd, node_id, id, addr)
  BY <1>1, NeighborhoodAssumption DEF nbhd_put
<1>3. CASE id = node_id
  <2>1. nbhd' = nbhd
    BY <1>2, <1>3 DEF WithNode
  <2> QED BY <1>1, <2>1, KeepsItself
<1>4. CASE id # node_id /\ Known(nbhd, id)
  <2> DEFINE N == BestNodes(nbhd, id)
             nodes == [p \in DOMAIN N |-> IF p \in FindNode(nbhd, id)
                                          THEN [N[p] EXCEPT !.addr = addr] ELSE N[p]]
  <2>1. nbhd' = InBucket(nbhd, BestMatch(nbhd, id), nodes)
    BY <1>2, <1>4 DEF WithNode, UpdateNode
  <2>2. DOMAIN N = 1..Len(N) /\ \A p \in 1..Len(N) : N[p] \in Node
    BY <1>1, <1>2, MatchExists
  <2> HIDE DEF N
  <2>3. ASSUME NEW p \in 1..Len(N) PROVE nodes[p] \in Node /\ nodes[p].id = N[p].id
    BY <2>2 DEF Node
  <2>4. nodes \in [1..Len(N) -> Node]
    BY <2>2, <2>3
  <2> HIDE DEF nodes
  <2> QED BY <1>1, <1>2, <2>1, <2>3, <2>4, UpdateKeeps DEF N
<1>5. CASE id # node_id /\ ~ Known(nbhd, id)
  <2>1. nbhd' = bckt_put(nbhd, NewNode(id, addr))
    BY <1>2, <1>5 DEF WithNode
  <2>2. NewNode(id, addr) \in Node /\ NewNode(id, addr).id = id
    BY NeighborhoodAssumption DEF NewNode, Node
  <2> QED BY <1>1, <1>5, <2>1, <2>2, AppendKeeps
<1> QED BY <1>3, <1>4, <1>5

\* nbhd_ponged: a node answers a ping.
LEMMA PongedKeeps ==
  ASSUME NbhdIInv, NEW id \in Peer[node_id], NEW addr \in Addr, nbhd_ponged(id, addr)
  PROVE  Sorted(nbhd') /\ Keeps(nbhd, nbhd')
<1> DEFINE N == BestNodes(nbhd, id)
           nodes == [p \in DOMAIN N |-> IF p \in FindNode(nbhd, id)
                       THEN [N[p] EXCEPT !.pinged = 0, !.ping_due = FALSE, !.addr = addr]
                       ELSE N[p]]
<1>1. Sorted(nbhd) /\ node_id \in OwnId /\ nbhd \in BucketList /\ id \in Id
  BY NeighborhoodAssumption DEF NbhdIInv, Sorted
<1>2. nbhd' = InBucket(nbhd, BestMatch(nbhd, id), nodes)
  BY DEF nbhd_ponged, UpdateNode
<1>3. DOMAIN N = 1..Len(N) /\ \A p \in 1..Len(N) : N[p] \in Node
  BY <1>1, MatchExists
<1> HIDE DEF N
<1>4. ASSUME NEW p \in 1..Len(N) PROVE nodes[p] \in Node /\ nodes[p].id = N[p].id
  <2>1. 0 \in 0..PingLimit
    BY NeighborhoodAssumption
  <2>2. PICK m \in Node : m = N[p]
    BY <1>3
  <2>3. [m EXCEPT !.pinged = 0, !.ping_due = FALSE, !.addr = addr] \in Node
    BY <2>1 DEF Node
  <2>4. [m EXCEPT !.pinged = 0, !.ping_due = FALSE, !.addr = addr].id = m.id
    BY DEF Node
  <2> QED BY <1>3, <2>2, <2>3, <2>4
<1>5. nodes \in [1..Len(N) -> Node]
  BY <1>3, <1>4
<1> HIDE DEF nodes
<1> QED BY <1>1, <1>2, <1>4, <1>5, UpdateKeeps DEF N

\* nbhd_find_myself and nbhd_find_random.
LEMMA FindKeeps ==
  ASSUME NbhdIInv, NEW id \in Id, nbhd_find(id)
  PROVE  Sorted(nbhd') /\ Keeps(nbhd, nbhd')
<1> DEFINE N == BestNodes(nbhd, id)
           nodes == [p \in DOMAIN N |-> [N[p] EXCEPT !.find_due = FALSE]]
<1>1. Sorted(nbhd) /\ node_id \in OwnId /\ nbhd \in BucketList
  BY DEF NbhdIInv, Sorted
<1>2. nbhd' = InBucket(nbhd, BestMatch(nbhd, id), nodes)
  BY DEF nbhd_find
<1>3. DOMAIN N = 1..Len(N) /\ \A p \in 1..Len(N) : N[p] \in Node
  BY <1>1, MatchExists
<1> HIDE DEF N
<1>4. ASSUME NEW p \in 1..Len(N) PROVE nodes[p] \in Node /\ nodes[p].id = N[p].id
  BY <1>3 DEF Node
<1>5. nodes \in [1..Len(N) -> Node]
  BY <1>3, <1>4
<1> HIDE DEF nodes
<1> QED BY <1>1, <1>2, <1>4, <1>5, UpdateKeeps DEF N

\* nbhd_ping: nodes are pinged again.
LEMMA PingKeeps ==
  ASSUME NbhdIInv, nbhd_ping
  PROVE  Sorted(nbhd') /\ Keeps(nbhd, nbhd')
<1> DEFINE n == Len(nbhd.seq)
           g == [k \in 1..n |-> [p \in DOMAIN nbhd.seq[k].nodes |-> Pinged(nbhd.seq[k].nodes[p])]]
<1>1. /\ Sorted(nbhd) /\ node_id \in OwnId /\ nbhd \in BucketList
      /\ InShape(nbhd, node_id) /\ Placed(nbhd)
  BY DEF NbhdIInv, Sorted
<1>2. n \in Nat /\ DOMAIN nbhd.seq = 1..n
  BY <1>1, BucketListIs
<1>3. nbhd' = WithNodes(nbhd, g)
  BY <1>2 DEF nbhd_ping, WithNodes
<1>4. ASSUME NEW m \in Node PROVE Pinged(m) \in Node /\ Pinged(m).id = m.id
  <2>1. PICK c \in 0..PingLimit : c = Capped(m.pinged + 1)
    BY NeighborhoodAssumption DEF Capped, Node
  <2>2. [m EXCEPT !.pinged = c, !.ping_due = FALSE] \in Node
    BY DEF Node
  <2>3. [m EXCEPT !.pinged = c, !.ping_due = FALSE].id = m.id
    BY DEF Node
  <2>4. Pinged(m) = IF m.ping_due THEN [m EXCEPT !.pinged = c, !.ping_due = FALSE] ELSE m
    BY <2>1 DEF Pinged
  <2> QED BY <2>2, <2>3, <2>4
<1>5. ASSUME NEW k \in 1..n
      PROVE  /\ g[k] \in Seq(Node) /\ Len(g[k]) = Len(nbhd.seq[k].nodes)
             /\ \A p \in 1..Len(nbhd.seq[k].nodes) : g[k][p].id = nbhd.seq[k].nodes[p].id
  <2> DEFINE N == nbhd.seq[k].nodes
  <2>1. /\ Len(N) \in Nat /\ DOMAIN N = 1..Len(N)
        /\ \A p \in 1..Len(N) : N[p] \in Node
    BY <1>1, BucketListIs
  <2> HIDE DEF N
  <2>2. g[k] = [p \in DOMAIN N |-> Pinged(N[p])]
    BY DEF N
  <2>3. g[k] \in [1..Len(N) -> Node]
    BY <1>4, <2>1, <2>2
  <2>4. g[k] \in Seq(Node) /\ Len(g[k]) = Len(N)
    BY <2>1, <2>3, ASeq
  <2> QED BY <1>4, <2>1, <2>2, <2>4 DEF N
<1>6. g \in [1..n -> Seq(Node)]
  BY <1>5
<1> HIDE DEF g
<1>7. /\ nbhd' \in BucketList /\ SameBuckets(nbhd, nbhd')
      /\ \A k \in 1..n : nbhd'.seq[k].nodes = g[k]
  BY <1>1, <1>3, <1>6, EachBucketIs
<1>8. Renewed(nbhd, nbhd')
  BY <1>5, <1>7 DEF Renewed
<1>9. Placed(nbhd') /\ Keeps(nbhd, nbhd')
  BY <1>1, <1>7, <1>8, RenewedKeeps
<1>10. InShape(nbhd', node_id)
  BY <1>1, <1>7, OwnIdIs, SameShape
<1> QED BY <1>7, <1>9, <1>10 DEF Sorted

\* nbhd_expire: only bad nodes go.
LEMMA ExpireKeeps ==
  ASSUME NbhdIInv, nbhd_expire
  PROVE  Sorted(nbhd') /\ Keeps(nbhd, nbhd')
<1> DEFINE n == Len(nbhd.seq)
           N(k) == nbhd.seq[k].nodes
           swept(k) == CountedSweep(N(k), Bad(N(k)))
           g == [k \in 1..n |-> swept(k)]
<1>1. /\ Sorted(nbhd) /\ node_id \in OwnId /\ nbhd \in BucketList
      /\ InShape(nbhd, node_id) /\ Placed(nbhd)
  BY DEF NbhdIInv, Sorted
<1>2. /\ n \in Nat /\ DOMAIN nbhd.seq = 1..n
      /\ \A k \in 1..n : /\ N(k) \in Seq(Node) /\ DOMAIN N(k) = 1..Len(N(k))
  BY <1>1, BucketListIs
<1>3. nbhd' = WithNodes(nbhd, g)
  BY <1>2 DEF nbhd_expire, WithNodes
<1> HIDE DEF N, swept
<1>4. ASSUME NEW k \in 1..n
      PROVE  /\ swept(k) \in Seq(Node)
             /\ \E c, e : PartOf(N(k), DOMAIN N(k) \ SweptAt(N(k), Bad(N(k))), c, e, swept(k))
  BY <1>2, SweepIs DEF swept
<1>5. g \in [1..n -> Seq(Node)] /\ \A k \in 1..n : g[k] = swept(k)
  BY <1>4
<1> HIDE DEF g
<1>6. /\ nbhd' \in BucketList /\ SameBuckets(nbhd, nbhd')
      /\ \A k \in 1..n : nbhd'.seq[k].nodes = g[k]
  BY <1>1, <1>3, <1>5, EachBucketIs
<1>7. Len(nbhd'.seq) = n /\ \A id : BestMatch(nbhd', id) = BestMatch(nbhd, id)
  BY <1>2, <1>6, SameMatch DEF SameBuckets
<1>8. InShape(nbhd', node_id)
  BY <1>1, <1>6, OwnIdIs, SameShape
<1>9. ASSUME NEW k \in 1..n
      PROVE  /\ Sound(nbhd', k)
             /\ \A p \in 1..Len(N(k)) :
                  \/ \E i \in 1..Len(nbhd'.seq[k].nodes) : nbhd'.seq[k].nodes[i] = N(k)[p]
                  \/ IsBad(N(k)[p])
  <2> DEFINE s == nbhd'.seq[k].nodes
             gone == SweptAt(N(k), Bad(N(k)))
             K == DOMAIN N(k) \ gone
  <2>1. s = swept(k)
    BY <1>5, <1>6
  <2>2. PICK c, e : PartOf(N(k), K, c, e, s)
    BY <1>4, <2>1
  <2>3. N(k) \in Seq(Node)
    BY <1>2
  <2>4. DOMAIN s = 1..Len(s)
    BY <1>4, <2>1, LenProperties
  <2> HIDE DEF s, K
  <2>5. /\ c \in Nat /\ DOMAIN s = 1..c
        /\ \A i \in 1..c : e[i] \in K /\ e[i] \in 1..Len(N(k)) /\ s[i] = N(k)[e[i]]
        /\ \A i, j \in 1..c : e[i] = e[j] => i = j
        /\ \A p \in K : \E i \in 1..c : e[i] = p
    BY <2>2, <2>3, PartIs
  <2>6. /\ \A p \in 1..Len(N(k)) : BestMatch(nbhd', N(k)[p].id) = k
        /\ \A p, q \in 1..Len(N(k)) : N(k)[p].id = N(k)[q].id => p = q
    BY <1>1, <1>7 DEF Placed, Sound, N
  <2>7. ASSUME NEW i \in 1..Len(s) PROVE BestMatch(nbhd', s[i].id) = k
    BY <2>4, <2>5, <2>6
  <2>8. ASSUME NEW i \in 1..Len(s), NEW j \in 1..Len(s), s[i].id = s[j].id PROVE i = j
    <3>1. i \in 1..c /\ j \in 1..c
      BY <2>4, <2>5
    <3>2. e[i] \in 1..Len(N(k)) /\ e[j] \in 1..Len(N(k)) /\ N(k)[e[i]].id = N(k)[e[j]].id
      BY <2>5, <2>8, <3>1
    <3> QED BY <2>5, <2>6, <3>1, <3>2
  <2>9. ASSUME NEW p \in 1..Len(N(k))
        PROVE  (\E i \in 1..Len(s) : s[i] = N(k)[p]) \/ IsBad(N(k)[p])
    <3>1. CASE p \in K
      <4>1. PICK i \in 1..c : e[i] = p
        BY <2>5, <3>1
      <4>2. i \in 1..Len(s) /\ s[i] = N(k)[p]
        BY <2>4, <2>5, <4>1
      <4> QED BY <4>2
    <3>2. CASE p \notin K
      <4>1. p \in gone
        BY <1>2, <3>2 DEF K
      <4>2. N(k)[p] \in Bad(N(k))
        BY <4>1 DEF SweptAt, BadAt
      <4> QED BY <4>2 DEF Bad
    <3> QED BY <3>1, <3>2
  <2> QED BY <2>7, <2>8, <2>9 DEF Sound, s
<1>10. Placed(nbhd')
  BY <1>7, <1>9 DEF Placed
<1>11. Keeps(nbhd, nbhd')
  <2> SUFFICES ASSUME NEW k \in 1..n, NEW p \in 1..Len(N(k)), ~ IsBad(N(k)[p])
               PROVE  Has(nbhd', N(k)[p].id)
    BY DEF Keeps, N
  <2>1. PICK i \in 1..Len(nbhd'.seq[k].nodes) : nbhd'.seq[k].nodes[i] = N(k)[p]
    BY <1>9
  <2> QED BY <1>7, <2>1 DEF Has
<1> QED BY <1>6, <1>8, <1>10, <1>11 DEF Sorted

\* Deadlines pass.
LEMMA ElapseKeeps ==
  ASSUME NbhdIInv, Elapse
  PROVE  Sorted(nbhd') /\ Keeps(nbhd, nbhd')
<1>1. /\ node_id \in OwnId /\ nbhd \in BucketList
      /\ InShape(nbhd, node_id) /\ Placed(nbhd)
  BY DEF NbhdIInv, Sorted
<1>2. PICK place \in Places(nbhd), field \in {"ping_due", "find_due"} :
        nbhd' = [nbhd EXCEPT !.seq[place[1]].nodes[place[2]][field] = TRUE]
  BY DEF Elapse
<1>3. PICK k \in DOMAIN nbhd.seq : place \in {k} \X DOMAIN nbhd.seq[k].nodes
  BY DEF Places
<1> DEFINE N == nbhd.seq[k].nodes
           q == place[2]
           nodes == [N EXCEPT ![q] = [N[q] EXCEPT ![field] = TRUE]]
<1>4. /\ k \in 1..Len(nbhd.seq) /\ place[1] = k /\ q \in 1..Len(N)
      /\ DOMAIN N = 1..Len(N) /\ \A p \in 1..Len(N) : N[p] \in Node
      /\ N \in Seq(Node)
  BY <1>1, <1>3, BucketListIs
<1>5. nbhd' = InBucket(nbhd, k, nodes)
  BY <1>2, <1>4 DEF InBucket
<1> HIDE DEF N, q
<1>6. [N[q] EXCEPT ![field] = TRUE] \in Node /\ [N[q] EXCEPT ![field] = TRUE].id = N[q].id
  <2>1. PICK m \in Node : m = N[q]
    BY <1>4
  <2>2. CASE field = "ping_due"
    <3>1. [m EXCEPT !["ping_due"] = TRUE] \in Node /\ [m EXCEPT !["ping_due"] = TRUE].id = m.id
      BY DEF Node
    <3> QED BY <2>1, <2>2, <3>1
  <2>3. CASE field = "find_due"
    <3>1. [m EXCEPT !["find_due"] = TRUE] \in Node /\ [m EXCEPT !["find_due"] = TRUE].id = m.id
      BY DEF Node
    <3> QED BY <2>1, <2>3, <3>1
  <2> QED BY <2>2, <2>3
<1>7. /\ nodes \in [1..Len(N) -> Node]
      /\ \A p \in 1..Len(N) : nodes[p].id = N[p].id
  <2> DEFINE m == [N[q] EXCEPT ![field] = TRUE]
  <2>1. m \in Node /\ m.id = N[q].id
    BY <1>6
  <2>2. nodes = [N EXCEPT ![q] = m]
    OBVIOUS
  <2> HIDE DEF m, nodes
  <2>3. N \in [1..Len(N) -> Node]
    BY <1>4
  <2> QED BY <1>4, <2>1, <2>2, <2>3
<1> HIDE DEF nodes
<1>8. nbhd' \in BucketList /\ InShape(nbhd', node_id) /\ Placed(nbhd') /\ Keeps(nbhd, nbhd')
  BY <1>1, <1>4, <1>5, <1>7, OwnIdIs, RenewBucket DEF N
<1> QED BY <1>8 DEF Sorted

\* One round of nbhd_split.
LEMMA SplitKeeps ==
  ASSUME NbhdIInv, SplitRound
  PROVE  Sorted(nbhd') /\ Keeps(nbhd, nbhd')
<1> DEFINE k == BestMatch(nbhd, node_id)
<1>1. /\ node_id \in OwnId /\ nbhd \in BucketList /\ node_id \in Id
      /\ InShape(nbhd, node_id) /\ Placed(nbhd)
  BY OwnIdIs DEF NbhdIInv, Sorted
<1>2. MustSplit(nbhd, node_id) /\ nbhd' = bckt_split(nbhd, node_id)
  BY DEF SplitRound
<1>3. k \in 1..Len(nbhd.seq)
  BY <1>1, MatchExists
<1>4. /\ ComputeId(nbhd, k) \in Id /\ Shifted(nbhd, nbhd', k)
      /\ InShape(nbhd', node_id)
  <2>1. CASE node_id < 2^(Width - 1)
    BY <1>1, <1>2, <2>1, LowerSplit DEF InShape
  <2>2. CASE ~ (node_id < 2^(Width - 1))
    BY <1>1, <1>2, <2>2, UpperSplit DEF InShape
  <2> QED BY <2>1, <2>2
<1>5. nbhd' \in BucketList
  BY <1>1, <1>2, <1>3, <1>4, SplitIs
<1>6. Placed(nbhd') /\ \A id : Has(nbhd, id) => Has(nbhd', id)
  BY <1>1, <1>2, <1>3, <1>4, SplitKeepsNodes
<1>7. Keeps(nbhd, nbhd')
  BY <1>6 DEF Keeps, Has
<1> QED BY <1>4, <1>5, <1>6, <1>7 DEF Sorted

-----------------------------------------------------------------------------
(* What the properties say of a table that is sorted.                        *)

\* There are finitely many places.
LEMMA PlacesAreFinite ==
  ASSUME nbhd \in BucketList
  PROVE  IsFiniteSet(Places(nbhd))
<1> DEFINE n == Len(nbhd.seq)
           D(k) == {k} \X DOMAIN nbhd.seq[k].nodes
           f == [k \in 1..n |-> D(k)]
           S == {D(k) : k \in 1..n}
<1>1. /\ n \in Nat /\ DOMAIN nbhd.seq = 1..n
      /\ \A k \in 1..n : /\ Len(nbhd.seq[k].nodes) \in Nat
                         /\ DOMAIN nbhd.seq[k].nodes = 1..Len(nbhd.seq[k].nodes)
  BY BucketListIs
<1>2. ASSUME NEW k \in 1..n PROVE IsFiniteSet(D(k))
  <2>1. IsFiniteSet(DOMAIN nbhd.seq[k].nodes)
    <3>1. \A m \in Nat : IsFiniteSet(1..m)
      BY FS_Interval
    <3> QED BY <1>1, <3>1
  <2>2. IsFiniteSet({k})
    BY FS_Singleton
  <2> QED BY <2>1, <2>2, FS_Product
<1>3. Places(nbhd) = UNION S
  BY <1>1 DEF Places
<1> HIDE DEF D
<1>4. f \in Surjection(1..n, S)
  BY DEF Surjection
<1>5. IsFiniteSet(S)
  <2>1. IsFiniteSet(1..n)
    <3>1. \A m \in Nat : IsFiniteSet(1..m)
      BY FS_Interval
    <3> QED BY <1>1, <3>1
  <2> HIDE DEF f, S
  <2> QED BY <1>4, <2>1, FS_Surjection
<1>6. \A T \in S : IsFiniteSet(T)
  BY <1>2
<1> HIDE DEF S
<1> QED BY <1>3, <1>5, <1>6, FS_UNION

\* In a sorted table the nodes are in place, as the property counts them.
LEMMA PlacedIsInPlace ==
  ASSUME nbhd \in BucketList, Placed(nbhd)
  PROVE  NodesInPlace
<1> DEFINE P == Places(nbhd)
           f == [place \in P |-> NodeAt(place).id]
<1>1. /\ DOMAIN nbhd.seq = 1..Len(nbhd.seq)
      /\ \A k \in 1..Len(nbhd.seq) : DOMAIN nbhd.seq[k].nodes = 1..Len(nbhd.seq[k].nodes)
  BY BucketListIs
<1>2. ASSUME NEW place \in P
      PROVE  /\ place = <<place[1], place[2]>>
             /\ place[1] \in 1..Len(nbhd.seq)
             /\ place[2] \in 1..Len(nbhd.seq[place[1]].nodes)
  <2>1. PICK k \in DOMAIN nbhd.seq : place \in {k} \X DOMAIN nbhd.seq[k].nodes
    BY DEF Places
  <2> QED BY <1>1, <2>1
<1>3. \A k \in 1..Len(nbhd.seq) :
        /\ \A p \in 1..Len(nbhd.seq[k].nodes) : BestMatch(nbhd, nbhd.seq[k].nodes[p].id) = k
        /\ \A p, q \in 1..Len(nbhd.seq[k].nodes) :
             nbhd.seq[k].nodes[p].id = nbhd.seq[k].nodes[q].id => p = q
  BY DEF Placed, Sound
<1>4. ASSUME NEW place \in P PROVE BestMatch(nbhd, NodeAt(place).id) = place[1]
  BY <1>2, <1>3 DEF NodeAt
<1>5. ASSUME NEW a \in P, NEW b \in P, NodeAt(a).id = NodeAt(b).id PROVE a = b
  <2>1. a[1] = b[1]
    BY <1>4, <1>5
  <2>2. /\ a[1] \in 1..Len(nbhd.seq)
        /\ a[2] \in 1..Len(nbhd.seq[a[1]].nodes) /\ b[2] \in 1..Len(nbhd.seq[a[1]].nodes)
        /\ nbhd.seq[a[1]].nodes[a[2]].id = nbhd.seq[a[1]].nodes[b[2]].id
    BY <1>2, <1>5, <2>1 DEF NodeAt
  <2>3. a[2] = b[2]
    BY <1>3, <2>2
  <2> QED BY <1>2, <2>1, <2>3
<1>6. ExistsBijection(P, Stored)
  <2>1. f \in [P -> Stored]
    BY DEF Stored
  <2>2. \A a, b \in P : f[a] = f[b] => a = b
    BY <1>5
  <2>3. \A id \in Stored : \E a \in P : f[a] = id
    BY DEF Stored
  <2> HIDE DEF f, P
  <2>4. f \in Injection(P, Stored)
    BY <2>1, <2>2 DEF Injection, IsInjective
  <2>5. f \in Surjection(P, Stored)
    BY <2>1, <2>3 DEF Surjection
  <2> QED BY <2>4, <2>5 DEF ExistsBijection, Bijection
<1>7. Cardinality(Stored) = Cardinality(P)
  BY <1>6, PlacesAreFinite, FS_Bijection
<1> QED BY <1>4, <1>7 DEF NodesInPlace

\* A sorted table has the properties.
LEMMA SortedIs ==
  ASSUME NbhdIInv
  PROVE  TypeOK /\ NodesInPlace /\ KademliaTable /\ LowerSplitsAreBounded
<1>1. /\ node_id \in OwnId /\ nbhd \in BucketList /\ node_id \in Id
      /\ InShape(nbhd, node_id) /\ Placed(nbhd)
  BY OwnIdIs DEF NbhdIInv, Sorted
<1>2. TypeOK
  BY <1>1, BucketListIs DEF NbhdIInv, TypeOK
<1>3. NodesInPlace
  BY <1>1, PlacedIsInPlace
<1>4. ASSUME LowerHalf PROVE Partition /\ OwnBucketIsClosest /\ SplitsAreBounded
  <2>1. LowerShape(nbhd, node_id)
    BY <1>1, <1>4 DEF InShape, LowerHalf
  <2>2. Partition
    BY <2>1 DEF LowerShape, Ordered, Partition
  <2>3. OwnBucketIsClosest
    BY <1>1, <2>1, OwnIsClosest
  <2>4. Len(nbhd.seq) - 1 <= Width /\ Len(nbhd.seq) \in Nat
    BY <1>1, <2>1, BucketListIs DEF LowerShape, Depth
  <2> QED BY <2>2, <2>3, <2>4, BucketAssumption DEF SplitsAreBounded
<1> QED BY <1>2, <1>3, <1>4 DEF KademliaTable, LowerSplitsAreBounded

-----------------------------------------------------------------------------
\* One empty bucket is a sorted table.
LEMMA NbhdInitially == Init => NbhdIInv
<1> SUFFICES ASSUME Init PROVE NbhdIInv
  OBVIOUS
<1>1. node_id \in OwnId /\ mode = "run" /\ nbhd = NoNodes /\ node_id \in Id /\ node_id \in Nat
  BY OwnIdIs DEF Init
<1>2. Width \in Nat /\ 2^Width \in Nat \ {0} /\ node_id < 2^Width
  BY <1>1, BucketAssumption, PowerDoubles, IdIs
<1>3. 0 \in Id /\ << >> \in Seq(Node)
  BY <1>2 DEF Id
<1> DEFINE b == [id |-> 0, nodes |-> << >>]
<1>4. b \in BucketRecord /\ b.id = 0 /\ b.nodes = << >>
  BY <1>3 DEF BucketRecord
<1> HIDE DEF b
<1>5. /\ <<b>> \in Seq(BucketRecord) /\ Len(<<b>>) = 1 /\ DOMAIN <<b>> = 1..1
      /\ <<b>>[1] = b
  BY <1>4
<1>6. nbhd = [seq |-> <<b>>, stop |-> 1]
  BY <1>1 DEF NoNodes, b
<1>7. nbhd.seq = <<b>> /\ nbhd.stop = 1 /\ Len(nbhd.seq) = 1 /\ nbhd.seq[1].id = 0
      /\ nbhd.seq[1].nodes = << >>
  BY <1>4, <1>5, <1>6
<1>8. nbhd \in BucketList
  BY <1>5, <1>6 DEF BucketList
<1>9. Placed(nbhd)
  BY <1>7 DEF Placed, Sound
<1>10. LowerShape(nbhd, node_id)
  <2>1. Depth(nbhd) = 0 /\ Width - Depth(nbhd) = Width
    BY <1>2, <1>7 DEF Depth
  <2>2. BestMatch(nbhd, node_id) = 1
    <3>1. BestMatch(nbhd, node_id) \in 1..1
      BY <1>1, <1>7, <1>8, MatchIsFirst
    <3> QED BY <3>1
  <2>3. node_id \div 2^Width = 0
    <3>1. PICK w \in Nat \ {0} : w = 2^Width
      BY <1>2
    <3>2. w * 0 <= node_id /\ node_id < w * 0 + w
      BY <1>1, <1>2, <3>1
    <3> QED BY <1>1, <3>1, <3>2, DividedIs
  <2>4. 2^Width * 0 = 0
    BY <1>2
  <2>5. Ordered(nbhd)
    BY <1>7 DEF Ordered
  <2> QED BY <1>2, <1>7, <2>1, <2>2, <2>3, <2>4, <2>5 DEF LowerShape
<1>11. UpperShape(nbhd)
  BY <1>7 DEF UpperShape
<1> QED BY <1>1, <1>8, <1>9, <1>10, <1>11 DEF NbhdIInv, Sorted, InShape

\* The own id stays, so the types of nodes and buckets do.
LEMMA NodesStay ==
  ASSUME [Next]_vars
  PROVE  node_id' = node_id /\ Node' = Node /\ BucketList' = BucketList
<1>1. node_id' = node_id
  BY DEF Next, vars, Packet, Query, Cron, nbhd_put, nbhd_ponged, nbhd_query, nbhd_ping,
         nbhd_find, nbhd_expire, nbhd_split, SplitRound, SplitReturns, Elapse
<1>2. Node' = Node
  BY <1>1 DEF Node
<1> QED BY <1>1, <1>2 DEF BucketList, BucketRecord

\* Every step keeps the table sorted, and all nodes that are not bad.
LEMMA NextKeeps ==
  ASSUME NbhdIInv, [Next]_vars
  PROVE  NbhdIInv' /\ Keeps(nbhd, nbhd')
<1>1. node_id \in OwnId /\ mode \in {"run", "split", "segfault"} /\ Sorted(nbhd)
  BY DEF NbhdIInv
<1>2. node_id' = node_id /\ mode' \in {"run", "split", "segfault"}
  BY <1>1, NodesStay
     DEF Next, vars, Packet, Query, Cron, nbhd_put, nbhd_ponged, nbhd_query, nbhd_ping,
         nbhd_find, nbhd_expire, nbhd_split, SplitRound, SplitReturns, Elapse
<1>3. ASSUME nbhd' = nbhd PROVE Sorted(nbhd') /\ Keeps(nbhd, nbhd')
  BY <1>1, <1>3, KeepsItself
<1>4. Sorted(nbhd') /\ Keeps(nbhd, nbhd')
  <2>1. ASSUME NEW id \in Peer[node_id], NEW addr \in Addr, nbhd_put(id, addr)
        PROVE  Sorted(nbhd') /\ Keeps(nbhd, nbhd')
    BY <2>1, PutKeeps
  <2>2. ASSUME NEW id \in Peer[node_id], NEW addr \in Addr, nbhd_ponged(id, addr)
        PROVE  Sorted(nbhd') /\ Keeps(nbhd, nbhd')
    BY <2>2, PongedKeeps
  <2>3. ASSUME NEW id \in Id, nbhd_query(id) PROVE Sorted(nbhd') /\ Keeps(nbhd, nbhd')
    BY <1>3, <2>3 DEF nbhd_query
  <2>4. CASE nbhd_ping
    BY <2>4, PingKeeps
  <2>5. CASE nbhd_expire
    BY <2>5, ExpireKeeps
  <2>6. ASSUME NEW id \in Id, nbhd_find(id) PROVE Sorted(nbhd') /\ Keeps(nbhd, nbhd')
    BY <2>6, FindKeeps
  <2>7. CASE nbhd_split
    BY <1>3, <2>7 DEF nbhd_split
  <2>8. CASE SplitRound
    BY <2>8, SplitKeeps
  <2>9. CASE SplitReturns
    BY <1>3, <2>9 DEF SplitReturns
  <2>10. CASE Elapse
    BY <2>10, ElapseKeeps
  <2>11. CASE UNCHANGED vars
    BY <1>3, <2>11 DEF vars
  <2> QED BY <2>1, <2>2, <2>3, <2>4, <2>5, <2>6, <2>7, <2>8, <2>9, <2>10, <2>11
          DEF Next, Packet, Query, Cron
<1>5. Sorted(nbhd)'
  <2>1. InShape(nbhd, node_id)' /\ Placed(nbhd)'
    BY <1>2, <1>4 DEF Sorted
  <2> QED BY <1>4, <2>1, NodesStay DEF Sorted
<1> QED BY <1>1, <1>2, <1>4, <1>5 DEF NbhdIInv

\* The invariant holds throughout.
LEMMA NbhdAlways == Spec => []NbhdIInv
<1>1. NbhdIInv /\ [Next]_vars => NbhdIInv'
  BY NextKeeps
<1> QED BY <1>1, NbhdInitially, PTL DEF Spec

-----------------------------------------------------------------------------
(* The theorems.                                                             *)

\* The table and the mode are of the types named.
THEOREM NbhdTypes == Spec => []TypeOK
<1>1. NbhdIInv => TypeOK
  BY SortedIs
<1> QED BY <1>1, NbhdAlways, PTL

\* Every node is in the bucket bckt_find_best_match names for its id, through
\* any split, and is in the table only once: for either half of the own ids.
THEOREM AlwaysInPlace == Spec => []NodesInPlace
<1>1. NbhdIInv => NodesInPlace
  BY SortedIs
<1> QED BY <1>1, NbhdAlways, PTL

\* With an own id in the lower half of the ids, the buckets partition the ids
\* in order and the own bucket holds exactly the ids closest to the own one.
THEOREM AlwaysKademlia == Spec => []KademliaTable
<1>1. NbhdIInv => KademliaTable
  BY SortedIs
<1> QED BY <1>1, NbhdAlways, PTL

\* With an own id in the lower half of the ids, nbhd_split splits once per bit
\* of an id at most.
THEOREM LowerSplitsBounded == Spec => []LowerSplitsAreBounded
<1>1. NbhdIInv => LowerSplitsAreBounded
  BY SortedIs
<1> QED BY <1>1, NbhdAlways, PTL

\* A node leaves the table only when it has PingLimit pings unanswered.
THEOREM NodesAreKept == Spec => NobodyLost
<1>1. ASSUME NbhdIInv, [Next]_vars,
             NEW place \in Places(nbhd), NodeAt(place).id \notin Stored'
      PROVE  IsBad(NodeAt(place))
  <2>1. nbhd \in BucketList /\ nbhd' \in BucketList
    <3>1. NbhdIInv' /\ BucketList' = BucketList
      BY <1>1, NextKeeps, NodesStay
    <3> QED BY <1>1, <3>1 DEF NbhdIInv, Sorted
  <2>2. Keeps(nbhd, nbhd')
    BY <1>1, NextKeeps
  <2>3. /\ place[1] \in 1..Len(nbhd.seq)
        /\ place[2] \in 1..Len(nbhd.seq[place[1]].nodes)
        /\ NodeAt(place) = nbhd.seq[place[1]].nodes[place[2]]
    <3>1. PICK k \in DOMAIN nbhd.seq : place \in {k} \X DOMAIN nbhd.seq[k].nodes
      BY <1>1 DEF Places
    <3> QED BY <2>1, <3>1, BucketListIs DEF NodeAt
  <2>4. Has(nbhd', NodeAt(place).id) \/ IsBad(NodeAt(place))
    BY <2>2, <2>3 DEF Keeps
  <2>5. ASSUME Has(nbhd', NodeAt(place).id) PROVE FALSE
    <3>1. PICK k \in 1..Len(nbhd'.seq) :
            \E p \in 1..Len(nbhd'.seq[k].nodes) : nbhd'.seq[k].nodes[p].id = NodeAt(place).id
      BY <2>5 DEF Has
    <3>2. PICK p \in 1..Len(nbhd'.seq[k].nodes) : nbhd'.seq[k].nodes[p].id = NodeAt(place).id
      BY <3>1
    <3>3. k \in DOMAIN nbhd'.seq /\ p \in DOMAIN nbhd'.seq[k].nodes
      BY <2>1, <3>2, BucketListIs
    <3>4. <<k, p>> \in Places(nbhd')
      <4>1. <<k, p>> \in {k} \X DOMAIN nbhd'.seq[k].nodes
        BY <3>3
      <4> QED BY <3>3, <4>1 DEF Places
    <3>5. \A other \in Places(nbhd') : nbhd'.seq[other[1]].nodes[other[2]].id \in Stored'
      BY DEF Stored, NodeAt
    <3>6. <<k, p>>[1] = k /\ <<k, p>>[2] = p
      OBVIOUS
    <3>7. nbhd'.seq[k].nodes[p].id \in Stored'
      BY <3>4, <3>5, <3>6
    <3> QED BY <1>1, <3>2, <3>7
  <2> QED BY <2>4, <2>5
<1>2. NbhdIInv /\ [Next]_vars =>
        [\A place \in Places(nbhd) :
           NodeAt(place).id \notin Stored' => IsBad(NodeAt(place))]_vars
  BY <1>1
<1> QED BY <1>2, NbhdAlways, PTL DEF Spec, NobodyLost
=============================================================================
