-------------------------- MODULE HashTableProofs --------------------------
(***************************************************************************)
(* What the linked list and the hash of a table promise, for any number of *)
(* items, objects and buckets: the links stay consistent, list.c is the    *)
(* sequence of module ListSeq, and every object is found by its id.        *)
(***************************************************************************)
EXTENDS HashTable, SweepsProofs

(* The cells in order.  What follows is about a list of n cells h from first *)
(* to last.                                                                  *)

\* The cells that are allocated, and what is in them.
Memory(h) == DOMAIN h \subseteq Item /\ h \in [DOMAIN h -> Cell]

\* s lists the cells in the order of their links.
Linked(s, n, h, first, last) ==
  /\ s \in [1..n -> DOMAIN h]
  /\ \A i \in DOMAIN h : \E k \in 1..n : s[k] = i
  /\ \A j, k \in 1..n : s[j] = s[k] => j = k
  /\ \A k \in 1..n : /\ k = 1 => h[s[k]].prev = NULL
                     /\ k > 1 => h[s[k]].prev = s[k - 1]
                     /\ k = n => h[s[k]].next = NULL
                     /\ k < n => h[s[k]].next = s[k + 1]
  /\ n = 0 => first = NULL /\ last = NULL
  /\ n > 0 => first = s[1] /\ last = s[n]

\* The cells that following the links yields.
Walk(n, h, first) == LET c[k \in 1..n] == IF k = 1 THEN first ELSE h[c[k - 1]].next
                     IN  c

\* There is one order of the cells that agrees with their links, and following
\* them finds it.
LEMMA WalkIsLinked ==
  ASSUME NEW n \in Nat, NEW s, NEW h, NEW first, NEW last, Linked(s, n, h, first, last)
  PROVE  Walk(n, h, first) = s
<1> DEFINE W == Walk(n, h, first)
           IsWalk(c) == c = [k \in 1..n |-> IF k = 1 THEN first ELSE h[c[k - 1]].next]
<1>1. ASSUME NEW k \in 1..n
      PROVE  s[k] = IF k = 1 THEN first ELSE h[s[k - 1]].next
  <2>1. CASE k = 1
    BY <2>1 DEF Linked
  <2>2. CASE k # 1
    <3>1. k - 1 \in 1..n /\ k - 1 < n /\ (k - 1) + 1 = k
      BY <2>2
    <3>2. h[s[k - 1]].next = s[(k - 1) + 1]
      BY <3>1 DEF Linked
    <3> QED BY <2>2, <3>1, <3>2
  <2> QED BY <2>1, <2>2
<1>2. IsWalk(s)
  <2>1. s = [k \in 1..n |-> s[k]]
    BY DEF Linked
  <2> QED BY <1>1, <2>1
<1>3. W = CHOOSE c : IsWalk(c)
  BY DEF Walk
<1>4. IsWalk(W)
  <2> HIDE DEF IsWalk, W
  <2> QED BY <1>2, <1>3
<1> HIDE DEF W
<1>5. \A k \in 1..n : W[k] = IF k = 1 THEN first ELSE h[W[k - 1]].next
  BY <1>4
<1> DEFINE S == {m \in Nat : \A k \in 1..n : k <= m => W[k] = s[k]}
<1>6. 0 \in S
  OBVIOUS
<1>7. ASSUME NEW m \in Nat, m \in S PROVE m + 1 \in S
  <2>1. ASSUME NEW k \in 1..n, k = m + 1 PROVE W[k] = s[k]
    <3>1. CASE k = 1
      BY <1>1, <1>5, <3>1
    <3>2. CASE k # 1
      <4>1. k - 1 \in 1..n /\ k - 1 <= m
        BY <2>1, <3>2
      <4>2. W[k - 1] = s[k - 1]
        BY <1>7, <4>1
      <4> QED BY <1>1, <1>5, <3>2, <4>2
    <3> QED BY <3>1, <3>2
  <2>2. \A k \in 1..n : k <= m + 1 => k <= m \/ k = m + 1
    OBVIOUS
  <2> QED BY <1>7, <2>1, <2>2
<1>8. n \in S
  <2> HIDE DEF S
  <2> QED BY <1>6, <1>7, NatInductionOnSet
<1>9. \A k \in 1..n : W[k] = s[k]
  BY <1>8
<1>10. W = [k \in 1..n |-> W[k]]
  BY <1>4
<1> QED BY <1>9, <1>10 DEF Linked, W

\* A pointer to a cell of h, and one to any cell.
Ref(h, i) == i \in DOMAIN h \/ i = NULL
Ptr(i) == i \in Item \/ i = NULL

\* Writing one next changes the one, if there is a cell, and nothing else.
LEMMA NextLinked ==
  ASSUME NEW h, Memory(h), NEW i, Ref(h, i), NEW to, Ptr(to)
  PROVE  /\ DOMAIN LinkNext(h, i, to) = DOMAIN h /\ Memory(LinkNext(h, i, to))
         /\ \A j \in DOMAIN h :
              /\ LinkNext(h, i, to)[j].val = h[j].val
              /\ LinkNext(h, i, to)[j].prev = h[j].prev
              /\ LinkNext(h, i, to)[j].next = IF j = i THEN to ELSE h[j].next
<1>1. \A j \in DOMAIN h : /\ j # NULL /\ h[j] \in Cell
                          /\ h[j] = [val |-> h[j].val, prev |-> h[j].prev, next |-> h[j].next]
  BY NullIsNoItem DEF Cell, Memory
<1>2. CASE i = NULL
  BY <1>1, <1>2 DEF LinkNext, Cell, Memory, Ref, Ptr
<1>3. CASE i # NULL
  BY <1>1, <1>3 DEF LinkNext, Cell, Memory, Ref, Ptr
<1> QED BY <1>2, <1>3

\* The same of prev.
LEMMA PrevLinked ==
  ASSUME NEW h, Memory(h), NEW i, Ref(h, i), NEW to, Ptr(to)
  PROVE  /\ DOMAIN LinkPrev(h, i, to) = DOMAIN h /\ Memory(LinkPrev(h, i, to))
         /\ \A j \in DOMAIN h :
              /\ LinkPrev(h, i, to)[j].val = h[j].val
              /\ LinkPrev(h, i, to)[j].next = h[j].next
              /\ LinkPrev(h, i, to)[j].prev = IF j = i THEN to ELSE h[j].prev
<1>1. \A j \in DOMAIN h : /\ j # NULL /\ h[j] \in Cell
                          /\ h[j] = [val |-> h[j].val, prev |-> h[j].prev, next |-> h[j].next]
  BY NullIsNoItem DEF Cell, Memory
<1>2. CASE i = NULL
  BY <1>1, <1>2 DEF LinkPrev, Cell, Memory, Ref, Ptr
<1>3. CASE i # NULL
  BY <1>1, <1>3 DEF LinkPrev, Cell, Memory, Ref, Ptr
<1> QED BY <1>2, <1>3

\* And of the two that list_ins and list_del write.
LEMMA BothLinked ==
  ASSUME NEW h, Memory(h), NEW i, Ref(h, i), NEW j, Ref(h, j), NEW x, Ptr(x), NEW y, Ptr(y),
         NEW g, g = LinkPrev(LinkNext(h, i, x), j, y)
  PROVE  /\ DOMAIN g = DOMAIN h /\ Memory(g)
         /\ \A k \in DOMAIN h :
              /\ g[k].val = h[k].val
              /\ g[k].next = IF k = i THEN x ELSE h[k].next
              /\ g[k].prev = IF k = j THEN y ELSE h[k].prev
<1> DEFINE f == LinkNext(h, i, x)
<1>1. /\ DOMAIN f = DOMAIN h /\ Memory(f)
      /\ \A k \in DOMAIN h : /\ f[k].val = h[k].val /\ f[k].prev = h[k].prev
                             /\ f[k].next = IF k = i THEN x ELSE h[k].next
  BY NextLinked
<1> HIDE DEF f
<1>2. Ref(f, j)
  BY <1>1 DEF Ref
<1>3. g = LinkPrev(f, j, y)
  BY DEF f
<1>4. /\ DOMAIN g = DOMAIN f /\ Memory(g)
      /\ \A k \in DOMAIN f : /\ g[k].val = f[k].val /\ g[k].next = f[k].next
                             /\ g[k].prev = IF k = j THEN y ELSE f[k].prev
  BY <1>1, <1>2, <1>3, PrevLinked
<1> QED BY <1>1, <1>4

\* A sequence of n elements with one more at the end, with one more after
\* position p, and without the one at position p.
Longer(s, n, new) == [k \in 1..(n + 1) |-> IF k <= n THEN s[k] ELSE new]
Widened(s, n, p, new) == [k \in 1..(n + 1) |-> IF k <= p THEN s[k]
                                               ELSE IF k = p + 1 THEN new ELSE s[k - 1]]
Shorter(s, n, p) == [k \in 1..(n - 1) |-> IF k < p THEN s[k] ELSE s[k + 1]]

\* What list_put, list_ins and list_del make of the memory h and the order s:
\* h2 and s2.
PutCells(h, last, new, v) ==
  With(LinkNext(h, last, new), new, [val |-> v, prev |-> last, next |-> NULL])
Putting(n, h, s, first, last, new, v, h2, s2) ==
  /\ n \in Nat /\ Memory(h) /\ Linked(s, n, h, first, last)
  /\ new \in Item \ DOMAIN h /\ v \in Payload
  /\ h2 = PutCells(h, last, new, v) /\ s2 = Longer(s, n, new)

InsCells(h, here, new, v) ==
  With(LinkPrev(LinkNext(h, here, new), h[here].next, new), new,
       [val |-> v, prev |-> here, next |-> h[here].next])
Inserting(n, h, s, first, last, p, new, v, h2, s2) ==
  /\ n \in Nat /\ Memory(h) /\ Linked(s, n, h, first, last)
  /\ p \in 1..n
  /\ new \in Item \ DOMAIN h /\ v \in Payload
  /\ h2 = InsCells(h, s[p], new, v) /\ s2 = Widened(s, n, p, new)

DelCells(h, i) ==
  Without(LinkPrev(LinkNext(h, h[i].prev, h[i].next), h[i].next, h[i].prev), {i})
Deleting(n, h, s, first, last, p, h2, s2) ==
  /\ n \in Nat /\ Memory(h) /\ Linked(s, n, h, first, last)
  /\ p \in 1..n
  /\ h2 = DelCells(h, s[p]) /\ s2 = Shorter(s, n, p)

\* h2 has one more cell than h, or one less, and the other values of h.
Adds(h, new, v, h2) == /\ h2[new].val = v /\ DOMAIN h2 = DOMAIN h \cup {new}
                       /\ \A i \in DOMAIN h : h2[i].val = h[i].val
Frees(h, i, h2) == /\ DOMAIN h2 = DOMAIN h \ {i}
                   /\ \A j \in DOMAIN h2 : h2[j].val = h[j].val

\* list_put adds one cell at the end, whatever the list.
LEMMA PutLinked ==
  ASSUME NEW n, NEW h, NEW s, NEW first, NEW last, NEW new, NEW v, NEW h2, NEW s2,
         Putting(n, h, s, first, last, new, v, h2, s2)
  PROVE  /\ Memory(h2)
         /\ Linked(s2, n + 1, h2, IF first = NULL THEN new ELSE first, new)
         /\ Adds(h, new, v, h2)
<1> USE DEF Putting, Adds
<1>1. /\ n \in Nat /\ DOMAIN h \subseteq Item /\ h \in [DOMAIN h -> Cell] /\ NULL \notin Item
      /\ \A k \in 1..n : s[k] \in DOMAIN h /\ s[k] \in Item
  BY NullIsNoItem DEF Memory, Linked
<1>2. Ref(h, last) /\ Ptr(last)
  BY <1>1 DEF Linked, Ref, Ptr
<1>3. \A k \in 1..n : s[k] = last <=> k = n
  BY <1>1 DEF Linked
<1> DEFINE g == LinkNext(h, last, new)
<1>4. /\ DOMAIN g = DOMAIN h /\ Memory(g)
      /\ \A j \in DOMAIN h : /\ g[j].val = h[j].val /\ g[j].prev = h[j].prev
                             /\ g[j].next = IF j = last THEN new ELSE h[j].next
  <2>1. Ptr(new)
    BY DEF Ptr
  <2>2. DOMAIN g = DOMAIN h /\ Memory(g)
    BY <1>2, <2>1, NextLinked
  <2>3. ASSUME NEW j \in DOMAIN h
        PROVE  /\ g[j].val = h[j].val /\ g[j].prev = h[j].prev
               /\ g[j].next = IF j = last THEN new ELSE h[j].next
    BY <1>2, <2>1, NextLinked
  <2> QED BY <2>2, <2>3
<1> HIDE DEF g
<1>5. /\ DOMAIN h2 = DOMAIN h \cup {new}
      /\ h2[new] = [val |-> v, prev |-> last, next |-> NULL]
      /\ \A j \in DOMAIN h : h2[j] = g[j]
  BY <1>4 DEF PutCells, With, g
<1>6. Memory(h2)
  <2>1. h2[new] \in Cell
    BY <1>1, <1>2, <1>5 DEF Cell, Ptr
  <2>2. h2 = [j \in DOMAIN h2 |-> h2[j]]
    BY DEF PutCells, With
  <2> QED BY <1>1, <1>4, <1>5, <2>1, <2>2 DEF Memory
<1>7. /\ \A k \in 1..n : s2[k] = s[k]
      /\ s2[n + 1] = new /\ n + 1 \in 1..(n + 1)
      /\ \A k \in 1..(n + 1) : k \in 1..n \/ k = n + 1
  BY DEF Longer
<1>8. /\ s2 \in [1..(n + 1) -> DOMAIN h2]
      /\ \A i \in DOMAIN h2 : \E k \in 1..(n + 1) : s2[k] = i
      /\ \A j, k \in 1..(n + 1) : s2[j] = s2[k] => j = k
  <2>1. s2 \in [1..(n + 1) -> DOMAIN h2]
    BY <1>1, <1>5, <1>7 DEF Longer
  <2>2. \A i \in DOMAIN h2 : \E k \in 1..(n + 1) : s2[k] = i
    BY <1>5, <1>7 DEF Linked
  <2>3. \A j, k \in 1..(n + 1) : s2[j] = s2[k] => j = k
    BY <1>1, <1>7 DEF Linked
  <2> QED BY <2>1, <2>2, <2>3
<1>9. ASSUME NEW k \in 1..n
      PROVE  /\ k = 1 => h2[s2[k]].prev = NULL
             /\ k > 1 => h2[s2[k]].prev = s2[k - 1]
             /\ h2[s2[k]].next = s2[k + 1]
  <2>1. /\ s2[k] = s[k] /\ h2[s[k]].prev = h[s[k]].prev
        /\ h2[s[k]].next = IF k = n THEN new ELSE h[s[k]].next
    BY <1>1, <1>3, <1>4, <1>5, <1>7
  <2>2. k > 1 => k - 1 \in 1..n
    OBVIOUS
  <2>3. k < n => k + 1 \in 1..n
    OBVIOUS
  <2> QED BY <1>7, <2>1, <2>2, <2>3 DEF Linked
<1>10. /\ n = 0 => last = NULL /\ first = NULL
       /\ n > 0 => last = s2[n] /\ first = s2[1] /\ first # NULL
  BY <1>1, <1>7 DEF Linked
<1>11. Linked(s2, n + 1, h2, IF first = NULL THEN new ELSE first, new)
  <2>1. ASSUME NEW k \in 1..(n + 1)
        PROVE  /\ k = 1 => h2[s2[k]].prev = NULL
               /\ k > 1 => h2[s2[k]].prev = s2[k - 1]
               /\ k = n + 1 => h2[s2[k]].next = NULL
               /\ k < n + 1 => h2[s2[k]].next = s2[k + 1]
    <3>1. CASE k = n + 1
      <4>1. h2[s2[k]].prev = last /\ h2[s2[k]].next = NULL
        BY <1>5, <1>7, <3>1
      <4>2. k = 1 => n = 0
        BY <3>1
      <4>3. k > 1 => n > 0 /\ k - 1 = n
        BY <3>1
      <4>4. ~(k < n + 1)
        BY <3>1
      <4>5. k = 1 => h2[s2[k]].prev = NULL
        BY <1>10, <4>1, <4>2
      <4>6. k > 1 => h2[s2[k]].prev = s2[k - 1]
        BY <1>10, <4>1, <4>3
      <4>7. k = n + 1 => h2[s2[k]].next = NULL
        BY <4>1
      <4>8. k < n + 1 => h2[s2[k]].next = s2[k + 1]
        BY <4>4
      <4> QED BY <4>5, <4>6, <4>7, <4>8
    <3>2. CASE k \in 1..n
      <4>1. k # n + 1
        BY <3>2
      <4>2. /\ k = 1 => h2[s2[k]].prev = NULL
            /\ k > 1 => h2[s2[k]].prev = s2[k - 1]
            /\ h2[s2[k]].next = s2[k + 1]
        BY <1>9, <3>2
      <4> QED BY <4>1, <4>2
    <3> QED BY <1>7, <3>1, <3>2
  <2>2. (IF first = NULL THEN new ELSE first) = s2[1]
    BY <1>7, <1>10
  <2>3. n + 1 > 0 /\ n + 1 # 0 /\ new = s2[n + 1]
    BY <1>7
  <2> QED BY <1>8, <2>1, <2>2, <2>3 DEF Linked
<1> QED BY <1>4, <1>5, <1>6, <1>11

\* list_ins adds one cell after position p, the last one included.
LEMMA InsLinked ==
  ASSUME NEW n, NEW h, NEW s, NEW first, NEW last, NEW p, NEW new, NEW v, NEW h2, NEW s2,
         Inserting(n, h, s, first, last, p, new, v, h2, s2)
  PROVE  /\ Memory(h2) /\ Linked(s2, n + 1, h2, first, IF p = n THEN new ELSE last)
         /\ Adds(h, new, v, h2)
<1> USE DEF Inserting, Adds
<1>1. /\ DOMAIN h \subseteq Item /\ h \in [DOMAIN h -> Cell] /\ NULL \notin Item
      /\ \A k \in 1..n : s[k] \in DOMAIN h /\ s[k] \in Item
  BY NullIsNoItem DEF Memory, Linked
<1> DEFINE after == h[s[p]].next
<1>2. /\ p = n => after = NULL
      /\ p < n => p + 1 \in 1..n /\ after = s[p + 1] /\ after \in DOMAIN h
      /\ p = n \/ p < n
  BY <1>1 DEF Linked
<1> HIDE DEF after
<1>3. \A j, k \in 1..n : s[j] = s[k] <=> j = k
  BY DEF Linked
<1>4. PICK g : g = LinkPrev(LinkNext(h, s[p], new), after, new)
  OBVIOUS
<1>5. /\ DOMAIN g = DOMAIN h /\ Memory(g)
      /\ \A j \in DOMAIN h : /\ g[j].val = h[j].val
                             /\ g[j].next = IF j = s[p] THEN new ELSE h[j].next
                             /\ g[j].prev = IF j = after THEN new ELSE h[j].prev
  <2>1. Ptr(new) /\ Ref(h, s[p]) /\ Ref(h, after)
    BY <1>1, <1>2 DEF Ptr, Ref
  <2> QED BY <1>4, <2>1, BothLinked
<1>6. h2 = With(g, new, [val |-> v, prev |-> s[p], next |-> after])
  BY <1>4 DEF InsCells, after
<1>7. /\ DOMAIN h2 = DOMAIN h \cup {new}
      /\ h2[new] = [val |-> v, prev |-> s[p], next |-> after]
      /\ \A j \in DOMAIN h : h2[j] = g[j]
  BY <1>5, <1>6 DEF With
<1>8. Memory(h2)
  <2>1. h2[new] \in Cell
    BY <1>1, <1>2, <1>7 DEF Cell
  <2>2. h2 = [j \in DOMAIN h2 |-> h2[j]]
    BY <1>6 DEF With
  <2>3. \A j \in DOMAIN h : g[j] \in Cell
    BY <1>5 DEF Memory
  <2>4. DOMAIN h2 \subseteq Item /\ \A j \in DOMAIN h2 : h2[j] \in Cell
    BY <1>1, <1>7, <2>1, <2>3
  <2> QED BY <2>2, <2>4 DEF Memory
<1>9. /\ \A k \in 1..p : k \in 1..n /\ k \in 1..(n + 1) /\ s2[k] = s[k]
      /\ s2[p + 1] = new /\ p + 1 \in 1..(n + 1)
      /\ \A k \in (p + 1)..n : k \in 1..n /\ k + 1 \in 1..(n + 1) /\ s2[k + 1] = s[k]
      /\ \A k \in 1..(n + 1) : k \in 1..p \/ k = p + 1 \/ k - 1 \in (p + 1)..n
      /\ \A k \in 1..n : k \in 1..p \/ k \in (p + 1)..n
  BY DEF Widened
<1>10. /\ s2 \in [1..(n + 1) -> DOMAIN h2]
       /\ \A i \in DOMAIN h2 : \E k \in 1..(n + 1) : s2[k] = i
       /\ \A j, k \in 1..(n + 1) : s2[j] = s2[k] => j = k
  <2>1. s2 \in [1..(n + 1) -> DOMAIN h2]
    <3>1. ASSUME NEW k \in 1..(n + 1) PROVE s2[k] \in DOMAIN h2
      <4>1. k \in 1..p \/ k = p + 1 \/ k - 1 \in (p + 1)..n
        BY <1>9
      <4>2. CASE k \in 1..p
        BY <1>1, <1>7, <1>9, <4>2
      <4>3. CASE k = p + 1
        BY <1>7, <1>9, <4>3
      <4>4. CASE k - 1 \in (p + 1)..n
        <5>1. (k - 1) + 1 = k
          OBVIOUS
        <5> QED BY <1>1, <1>7, <1>9, <4>4, <5>1
      <4> QED BY <4>1, <4>2, <4>3, <4>4
    <3> QED BY <3>1 DEF Widened
  <2>2. ASSUME NEW i \in DOMAIN h2 PROVE \E k \in 1..(n + 1) : s2[k] = i
    <3>1. CASE i = new
      BY <1>9, <3>1
    <3>2. CASE i # new
      <4>1. PICK k \in 1..n : s[k] = i
        BY <1>7, <3>2 DEF Linked
      <4>2. CASE k \in 1..p
        BY <1>9, <4>1, <4>2
      <4>3. CASE k \in (p + 1)..n
        BY <1>9, <4>1, <4>3
      <4> QED BY <1>9, <4>2, <4>3
    <3> QED BY <3>1, <3>2
  <2>3. ASSUME NEW k \in 1..(n + 1) PROVE s2[k] = new <=> k = p + 1
    <3>1. CASE k - 1 \in (p + 1)..n
      <4>1. k - 1 \in 1..n /\ s2[k] = s[k - 1] /\ k # p + 1
        BY <3>1 DEF Widened
      <4> QED BY <1>1, <4>1
    <3>2. CASE k \in 1..p
      <4>1. k \in 1..n /\ s2[k] = s[k] /\ k # p + 1
        BY <3>2 DEF Widened
      <4> QED BY <1>1, <4>1
    <3> QED BY <1>9, <3>1, <3>2
  <2>4. ASSUME NEW j \in 1..(n + 1), NEW k \in 1..(n + 1), s2[j] = s2[k], j < k
        PROVE  FALSE
    <3>1. CASE k \in 1..p
      <4>1. j \in 1..p /\ j # k
        BY <2>4, <3>1
      <4> QED BY <1>3, <1>9, <2>4, <3>1, <4>1
    <3>2. CASE k = p + 1 \/ j = p + 1
      <4>1. j # k
        BY <2>4
      <4> QED BY <2>3, <2>4, <3>2, <4>1
    <3>3. CASE k - 1 \in (p + 1)..n
      <4>1. k - 1 \in 1..n /\ s2[k] = s[k - 1]
        BY <3>3 DEF Widened
      <4>2. CASE j \in 1..p
        BY <1>3, <1>9, <2>4, <3>3, <4>1, <4>2
      <4>3. CASE j - 1 \in (p + 1)..n
        <5>1. j - 1 \in 1..n /\ s2[j] = s[j - 1] /\ j - 1 # k - 1
          BY <2>4, <4>3 DEF Widened
        <5> QED BY <1>3, <2>4, <4>1, <5>1
      <4> QED BY <1>9, <3>2, <4>2, <4>3
    <3> QED BY <1>9, <3>1, <3>2, <3>3
  <2>5. ASSUME NEW j \in 1..(n + 1), NEW k \in 1..(n + 1), s2[j] = s2[k] PROVE j = k
    <3>1. ~(j < k) /\ ~(k < j)
      BY <2>4, <2>5
    <3> QED BY <3>1
  <2> QED BY <2>1, <2>2, <2>5
<1>11. ASSUME NEW k \in 1..(n + 1)
       PROVE  /\ k = 1 => h2[s2[k]].prev = NULL
              /\ k > 1 => h2[s2[k]].prev = s2[k - 1]
              /\ k = n + 1 => h2[s2[k]].next = NULL
              /\ k < n + 1 => h2[s2[k]].next = s2[k + 1]
  <2>1. CASE k = p + 1
    <3>1. s2[k] = new /\ k # 1 /\ k - 1 = p /\ k + 1 = (p + 1) + 1 /\ (k = n + 1 <=> p = n)
      BY <1>9, <2>1
    <3>2. s2[p] = s[p] /\ (p < n => s2[(p + 1) + 1] = s[p + 1])
      BY <1>2, <1>9
    <3>3. p < n => k < n + 1
      BY <2>1
    <3> QED BY <1>2, <1>7, <3>1, <3>2, <3>3
  <2>2. CASE k \in 1..p
    <3>1. s2[k] = s[k] /\ k \in 1..n /\ k < n + 1 /\ k # p + 1 /\ (k # p => k < n) /\ s[k] \in DOMAIN h
      BY <1>1, <1>9, <2>2
    <3>6. s[k] # after
      BY <1>1, <1>2, <1>3, <3>1
    <3>2. /\ h2[s2[k]].prev = h[s[k]].prev
          /\ h2[s2[k]].next = IF k = p THEN new ELSE h[s[k]].next
      BY <1>3, <1>5, <1>7, <3>1, <3>6
    <3>3. k > 1 => k - 1 \in 1..p
      BY <2>2
    <3>4. k # p => k + 1 \in 1..p
      BY <2>2
    <3>5. (k # p => h[s[k]].next = s[k + 1]) /\ (k = 1 => h[s[k]].prev = NULL)
          /\ (k > 1 => h[s[k]].prev = s[k - 1])
      BY <3>1 DEF Linked
    <3> QED BY <1>9, <3>1, <3>2, <3>3, <3>4, <3>5
  <2>3. CASE k - 1 \in (p + 1)..n
    <3> DEFINE q == k - 1
    <3>1. /\ s2[k] = s[q] /\ q \in 1..n /\ k # 1 /\ q # p /\ q > 1 /\ s[q] \in DOMAIN h
          /\ q \in (p + 1)..n /\ k = q + 1 /\ p < n
      BY <1>1, <1>9, <2>3
    <3> HIDE DEF q
    <3>2. /\ h2[s2[k]].prev = IF q = p + 1 THEN new ELSE h[s[q]].prev
          /\ h2[s2[k]].next = h[s[q]].next
      BY <1>2, <1>3, <1>5, <1>7, <3>1
    <3>3. /\ h[s[q]].prev = s[q - 1]
          /\ (q = n => h[s[q]].next = NULL) /\ (q < n => h[s[q]].next = s[q + 1])
      BY <3>1 DEF Linked
    <3>4. h2[s2[k]].prev = s2[k - 1]
      <4>1. CASE q = p + 1
        BY <1>9, <3>1, <3>2, <4>1
      <4>2. CASE q # p + 1
        <5>1. q - 1 \in (p + 1)..n /\ k - 1 = (q - 1) + 1
          BY <3>1, <4>2
        <5> QED BY <1>9, <3>2, <3>3, <4>2, <5>1
      <4> QED BY <4>1, <4>2
    <3>5. q < n => q + 1 \in (p + 1)..n
      BY <3>1
    <3> QED BY <1>9, <3>1, <3>2, <3>3, <3>4, <3>5
  <2> QED BY <1>9, <2>1, <2>2, <2>3
<1>12. first = s2[1] /\ (IF p = n THEN new ELSE last) = s2[n + 1]
  <2>1. first = s[1] /\ last = s[n]
    BY DEF Linked
  <2>2. p < n => n \in (p + 1)..n
    OBVIOUS
  <2> QED BY <1>2, <1>9, <2>1, <2>2
<1>13. Linked(s2, n + 1, h2, first, IF p = n THEN new ELSE last)
  <2>1. n + 1 > 0 /\ n + 1 # 0
    OBVIOUS
  <2> QED BY <1>10, <1>11, <1>12, <2>1 DEF Linked
<1> QED BY <1>5, <1>7, <1>8, <1>13

\* a and b are the neighbours of the item at position p ...
Beside(s, n, p, a, b) ==
  /\ p = 1 => a = NULL
  /\ p > 1 => a = s[p - 1] /\ p - 1 \in 1..n
  /\ p = n => b = NULL
  /\ p < n => b = s[p + 1] /\ p + 1 \in 1..n

\* ... and list_del links them to each other.
LEMMA Unlinked ==
  ASSUME NEW n \in Nat, NEW h, NEW s, NEW first, NEW last,
         Memory(h), Linked(s, n, h, first, last),
         NEW p \in 1..n, NEW a, NEW b,
         Beside(s, n, p, a, b),
         NEW g, g = LinkPrev(LinkNext(h, a, b), b, a)
  PROVE  /\ \A q \in 1..n : /\ s[q] = a <=> q = p - 1
                            /\ s[q] = b <=> q = p + 1
         /\ DOMAIN g = DOMAIN h /\ Memory(g)
         /\ \A j \in DOMAIN h : /\ g[j].val = h[j].val
                                /\ g[j].next = IF j = a THEN b ELSE h[j].next
                                /\ g[j].prev = IF j = b THEN a ELSE h[j].prev
<1>1. /\ DOMAIN h \subseteq Item /\ h \in [DOMAIN h -> Cell] /\ NULL \notin Item
      /\ \A k \in 1..n : s[k] \in DOMAIN h /\ s[k] \in Item
  BY NullIsNoItem DEF Memory, Linked
<1>2. \A j, k \in 1..n : s[j] = s[k] <=> j = k
  BY DEF Linked
<1>3. \A q \in 1..n : /\ s[q] = a <=> q = p - 1
                      /\ s[q] = b <=> q = p + 1
  <2> TAKE q \in 1..n
  <2> USE DEF Beside
  <2>1. CASE p = 1
    <3>1. s[q] # a /\ q # p - 1
      BY <1>1, <2>1
    <3>2. s[q] = b <=> q = p + 1
      <4>1. CASE p = n
        BY <1>1, <4>1
      <4>2. CASE p < n
        BY <1>2, <4>2
      <4> QED BY <4>1, <4>2
    <3> QED BY <3>1, <3>2
  <2>2. CASE p > 1
    <3>1. s[q] = a <=> q = p - 1
      BY <1>2, <2>2
    <3>2. s[q] = b <=> q = p + 1
      <4>1. CASE p = n
        BY <1>1, <4>1
      <4>2. CASE p < n
        BY <1>2, <4>2
      <4> QED BY <4>1, <4>2
    <3> QED BY <3>1, <3>2
  <2> QED BY <2>1, <2>2
<1>4. /\ DOMAIN g = DOMAIN h /\ Memory(g)
      /\ \A j \in DOMAIN h : /\ g[j].val = h[j].val
                             /\ g[j].next = IF j = a THEN b ELSE h[j].next
                             /\ g[j].prev = IF j = b THEN a ELSE h[j].prev
  <2>1. Ref(h, a) /\ Ref(h, b)
    <3>1. (p = 1 \/ p > 1) /\ (p = n \/ p < n)
      OBVIOUS
    <3> QED BY <1>1, <3>1 DEF Beside, Ref
  <2>2. Ptr(a) /\ Ptr(b)
    BY <1>1, <2>1 DEF Ref, Ptr
  <2> QED BY <2>1, <2>2, BothLinked
<1> QED BY <1>3, <1>4

\* list_del takes out the cell at position p and no other: its four cases, by
\* whether there is a neighbour on either side.
LEMMA DelLinked ==
  ASSUME NEW n, NEW h, NEW s, NEW first, NEW last, NEW p, NEW h2, NEW s2,
         Deleting(n, h, s, first, last, p, h2, s2)
  PROVE  /\ Memory(h2)
         /\ Linked(s2, n - 1, h2, IF h[s[p]].prev = NULL THEN h[s[p]].next ELSE first,
                                  IF h[s[p]].next = NULL THEN h[s[p]].prev ELSE last)
         /\ Frees(h, s[p], h2)
<1> USE DEF Deleting, Frees
<1>1. /\ DOMAIN h \subseteq Item /\ h \in [DOMAIN h -> Cell] /\ NULL \notin Item
      /\ \A k \in 1..n : s[k] \in DOMAIN h /\ s[k] \in Item
  BY NullIsNoItem DEF Memory, Linked
<1>2. \A j, k \in 1..n : s[j] = s[k] <=> j = k
  BY DEF Linked
<1>3. PICK a, b : a = h[s[p]].prev /\ b = h[s[p]].next
  OBVIOUS
<1>4. PICK g : g = LinkPrev(LinkNext(h, a, b), b, a)
  OBVIOUS
<1>5. Beside(s, n, p, a, b)
  BY <1>3 DEF Beside, Linked
<1>6. \A q \in 1..n : /\ s[q] = a <=> q = p - 1
                      /\ s[q] = b <=> q = p + 1
  BY <1>4, <1>5, Unlinked
<1>7. /\ DOMAIN g = DOMAIN h /\ Memory(g)
      /\ \A j \in DOMAIN h : /\ g[j].val = h[j].val
                             /\ g[j].next = IF j = a THEN b ELSE h[j].next
                             /\ g[j].prev = IF j = b THEN a ELSE h[j].prev
  BY <1>4, <1>5, Unlinked
<1>8. /\ DOMAIN h2 = DOMAIN h \ {s[p]}
      /\ \A j \in DOMAIN h2 : h2[j] = g[j]
      /\ h2 = [j \in DOMAIN h2 |-> h2[j]]
  BY <1>3, <1>4, <1>7 DEF DelCells, Without
<1>9. Memory(h2)
  <2>1. \A j \in DOMAIN h : g[j] \in Cell
    BY <1>7 DEF Memory
  <2>2. DOMAIN h2 \subseteq Item /\ \A j \in DOMAIN h2 : h2[j] \in Cell
    BY <1>1, <1>8, <2>1
  <2> QED BY <1>8, <2>2 DEF Memory
<1>10. /\ \A k \in 1..(p - 1) : k \in 1..n /\ k \in 1..(n - 1) /\ s2[k] = s[k]
       /\ \A k \in (p + 1)..n : k \in 1..n /\ k - 1 \in 1..(n - 1) /\ s2[k - 1] = s[k]
       /\ \A k \in 1..(n - 1) : k \in 1..(p - 1) \/ k + 1 \in (p + 1)..n
       /\ \A k \in 1..n : k \in 1..(p - 1) \/ k = p \/ k \in (p + 1)..n
  <2>1. \A k \in 1..(p - 1) : k \in 1..n /\ k \in 1..(n - 1) /\ s2[k] = s[k]
    BY DEF Shorter
  <2>2. \A k \in (p + 1)..n : k \in 1..n /\ k - 1 \in 1..(n - 1) /\ s2[k - 1] = s[k]
    <3> TAKE k \in (p + 1)..n
    <3>1. k \in 1..n /\ k - 1 \in 1..(n - 1) /\ ~(k - 1 < p) /\ (k - 1) + 1 = k
      OBVIOUS
    <3> QED BY <3>1 DEF Shorter
  <2>3. \A k \in 1..(n - 1) : k \in 1..(p - 1) \/ k + 1 \in (p + 1)..n
    OBVIOUS
  <2>4. \A k \in 1..n : k \in 1..(p - 1) \/ k = p \/ k \in (p + 1)..n
    OBVIOUS
  <2> QED BY <2>1, <2>2, <2>3, <2>4
\* Every position of the rest is one of the list.
<1>11. ASSUME NEW k \in 1..(n - 1)
       PROVE  \E q \in 1..n : /\ q # p /\ s2[k] = s[q]
                              /\ q < p => k = q /\ k \in 1..(p - 1)
                              /\ q > p => k = q - 1 /\ q \in (p + 1)..n
  <2>1. CASE k \in 1..(p - 1)
    BY <1>10, <2>1
  <2>2. CASE k + 1 \in (p + 1)..n
    <3>1. k + 1 \in 1..n /\ s2[k] = s[k + 1] /\ k + 1 # p /\ ~(k + 1 < p) /\ k = (k + 1) - 1
      BY <1>10, <2>2
    <3> QED BY <2>2, <3>1
  <2> QED BY <1>10, <2>1, <2>2
<1>12. /\ s2 \in [1..(n - 1) -> DOMAIN h2]
       /\ \A i \in DOMAIN h2 : \E k \in 1..(n - 1) : s2[k] = i
       /\ \A j, k \in 1..(n - 1) : s2[j] = s2[k] => j = k
  <2>1. \A k \in 1..(n - 1) : s2[k] \in DOMAIN h2
    BY <1>1, <1>2, <1>8, <1>11
  <2>2. ASSUME NEW i \in DOMAIN h2 PROVE \E k \in 1..(n - 1) : s2[k] = i
    <3>1. PICK k \in 1..n : s[k] = i
      BY <1>8 DEF Linked
    <3>2. k # p
      BY <1>8, <3>1
    <3> QED BY <1>10, <3>1, <3>2
  <2>3. ASSUME NEW j \in 1..(n - 1), NEW k \in 1..(n - 1), s2[j] = s2[k] PROVE j = k
    <3>1. PICK q \in 1..n : /\ q # p /\ s2[j] = s[q]
                            /\ q < p => j = q
                            /\ q > p => j = q - 1
      BY <1>11
    <3>2. PICK r \in 1..n : /\ r # p /\ s2[k] = s[r]
                            /\ r < p => k = r
                            /\ r > p => k = r - 1
      BY <1>11
    <3>3. q = r
      BY <1>2, <2>3, <3>1, <3>2
    <3> QED BY <3>1, <3>2, <3>3
  <2>4. s2 \in [1..(n - 1) -> DOMAIN h2]
    BY <2>1 DEF Shorter
  <2> QED BY <2>2, <2>3, <2>4
<1>13. ASSUME NEW k \in 1..(n - 1)
       PROVE  /\ k = 1 => h2[s2[k]].prev = NULL
              /\ k > 1 => h2[s2[k]].prev = s2[k - 1]
              /\ k = n - 1 => h2[s2[k]].next = NULL
              /\ k < n - 1 => h2[s2[k]].next = s2[k + 1]
  <2>1. PICK q \in 1..n : /\ q # p /\ s2[k] = s[q]
                          /\ q < p => k = q /\ k \in 1..(p - 1)
                          /\ q > p => k = q - 1 /\ q \in (p + 1)..n
    BY <1>11
  <2>2. /\ h2[s2[k]].prev = IF q = p + 1 THEN a ELSE h[s[q]].prev
        /\ h2[s2[k]].next = IF q = p - 1 THEN b ELSE h[s[q]].next
    <3>1. s[q] \in DOMAIN h /\ s2[k] \in DOMAIN h2
      BY <1>1, <1>12
    <3>2. h2[s2[k]] = g[s[q]]
      BY <1>8, <2>1, <3>1
    <3>3. /\ g[s[q]].prev = IF s[q] = b THEN a ELSE h[s[q]].prev
          /\ g[s[q]].next = IF s[q] = a THEN b ELSE h[s[q]].next
      BY <1>7, <3>1
    <3>4. (s[q] = a <=> q = p - 1) /\ (s[q] = b <=> q = p + 1)
      BY <1>6
    <3> QED BY <3>2, <3>3, <3>4
  <2>3. /\ q = 1 => h[s[q]].prev = NULL
        /\ q > 1 => h[s[q]].prev = s[q - 1]
        /\ q = n => h[s[q]].next = NULL
        /\ q < n => h[s[q]].next = s[q + 1]
    BY DEF Linked
  <2>4. CASE q < p
    <3>1. k = q /\ q # p + 1 /\ k \in 1..(p - 1)
      BY <2>1, <2>4
    <3>2. k > 1 => k - 1 \in 1..(p - 1)
      BY <3>1
    <3>3. h2[s2[k]].prev = h[s[q]].prev
      BY <2>2, <3>1
    <3>4. /\ k = 1 => h2[s2[k]].prev = NULL
          /\ k > 1 => h2[s2[k]].prev = s2[k - 1]
      BY <1>10, <2>3, <3>1, <3>2, <3>3
    <3>5. CASE q = p - 1
      <4>1. h2[s2[k]].next = b
        BY <2>2, <3>5
      <4>2. k = n - 1 => p = n
        BY <3>1, <3>5
      <4>3. k < n - 1 => p < n /\ p + 1 \in (p + 1)..n /\ k + 1 = (p + 1) - 1
        BY <3>1, <3>5
      <4> QED BY <1>5, <1>10, <3>4, <4>1, <4>2, <4>3 DEF Beside
    <3>6. CASE q # p - 1
      <4>1. k + 1 \in 1..(p - 1) /\ q < n /\ k # n - 1
        BY <2>4, <3>1, <3>6
      <4>2. h2[s2[k]].next = s[k + 1]
        BY <2>2, <2>3, <3>1, <3>6, <4>1
      <4> QED BY <1>10, <3>4, <4>1, <4>2
    <3> QED BY <3>5, <3>6
  <2>5. CASE q > p
    <3>1. k = q - 1 /\ q # p - 1 /\ q \in (p + 1)..n /\ q > 1
      BY <2>1, <2>5
    <3>2. h2[s2[k]].next = h[s[q]].next
      BY <2>2, <3>1
    <3>3. k < n - 1 => q < n /\ q + 1 \in (p + 1)..n /\ k + 1 = (q + 1) - 1
      BY <3>1
    <3>4. k = n - 1 => q = n
      BY <3>1
    <3>5. /\ k = n - 1 => h2[s2[k]].next = NULL
          /\ k < n - 1 => h2[s2[k]].next = s2[k + 1]
      BY <1>10, <2>3, <3>2, <3>3, <3>4
    <3>6. CASE q = p + 1
      <4>1. h2[s2[k]].prev = a
        BY <2>2, <3>6
      <4>2. k = 1 => p = 1
        BY <3>1, <3>6
      <4>3. k > 1 => p > 1 /\ p - 1 \in 1..(p - 1) /\ k - 1 = p - 1
        BY <3>1, <3>6
      <4> QED BY <1>5, <1>10, <3>5, <4>1, <4>2, <4>3 DEF Beside
    <3>7. CASE q # p + 1
      <4>1. q - 1 \in (p + 1)..n /\ k # 1 /\ k - 1 = (q - 1) - 1
        BY <3>1, <3>7
      <4>2. h2[s2[k]].prev = s[q - 1]
        BY <2>2, <2>3, <3>1, <3>7
      <4> QED BY <1>10, <3>5, <4>1, <4>2
    <3> QED BY <3>6, <3>7
  <2> QED BY <2>1, <2>4, <2>5
<1>14. /\ n - 1 = 0 => a = NULL /\ b = NULL
       /\ n - 1 > 0 => /\ (IF a = NULL THEN b ELSE first) = s2[1]
                       /\ (IF b = NULL THEN a ELSE last) = s2[n - 1]
  <2>1. first = s[1] /\ last = s[n]
    BY DEF Linked
  <2>2. n - 1 = 0 => a = NULL /\ b = NULL
    BY <1>5 DEF Beside
  <2>3. ASSUME n - 1 > 0
        PROVE  (IF a = NULL THEN b ELSE first) = s2[1]
    <3>1. CASE p = 1
      <4>1. p < n /\ p + 1 \in (p + 1)..n /\ (p + 1) - 1 = 1
        BY <2>3, <3>1
      <4> QED BY <1>5, <1>10, <3>1, <4>1 DEF Beside
    <3>2. CASE p > 1
      <4>1. 1 \in 1..(p - 1)
        BY <3>2
      <4>2. a # NULL
        BY <1>1, <1>5, <3>2 DEF Beside
      <4> QED BY <1>10, <2>1, <4>1, <4>2
    <3> QED BY <3>1, <3>2
  <2>4. ASSUME n - 1 > 0
        PROVE  (IF b = NULL THEN a ELSE last) = s2[n - 1]
    <3>1. CASE p = n
      <4>1. p > 1 /\ p - 1 \in 1..(p - 1) /\ p - 1 = n - 1
        BY <2>4, <3>1
      <4> QED BY <1>5, <1>10, <3>1, <4>1 DEF Beside
    <3>2. CASE p < n
      <4>1. n \in (p + 1)..n
        BY <3>2
      <4>2. b # NULL
        BY <1>1, <1>5, <3>2 DEF Beside
      <4> QED BY <1>10, <2>1, <4>1, <4>2
    <3> QED BY <3>1, <3>2
  <2> QED BY <2>2, <2>3, <2>4
<1>15. Linked(s2, n - 1, h2, IF a = NULL THEN b ELSE first, IF b = NULL THEN a ELSE last)
  BY <1>12, <1>13, <1>14 DEF Linked
<1>16. ASSUME NEW i \in DOMAIN h2 PROVE h2[i].val = h[i].val
  <2>1. i \in DOMAIN h /\ h2[i] = g[i]
    BY <1>8
  <2> QED BY <1>7, <2>1
<1> QED BY <1>3, <1>8, <1>9, <1>15, <1>16

-----------------------------------------------------------------------------
(* The list in the memory of the program, between two operations and in the  *)
(* middle of a loop.                                                         *)

\* start, counter and the links of the cells agree.
Wired == counter \in Nat /\ Memory(heap) /\ Linked(Chain, counter, heap, start, LastCell)

\* stop points to the last cell, unless list_ins has been used behind one.
Ended == /\ Ptr(stop)
         /\ behind \in BOOLEAN /\ (~behind => stop = LastCell)
         /\ counter = 0 => stop = NULL

\* The cells in an order that their new links are in are the new chain.
LEMMA NowWired ==
  ASSUME counter' \in Nat, Memory(heap'), NEW t, NEW last,
         Linked(t, counter', heap', start', last)
  PROVE  Wired' /\ Chain' = t /\ LastCell' = last
<1>1. Chain' = Walk(counter', heap', start')
  BY DEF Chain, Walk
<1>2. Chain' = t
  BY <1>1, WalkIsLinked
<1>3. LastCell' = IF counter' = 0 THEN NULL ELSE Chain'[counter']
  BY DEF LastCell
<1>4. LastCell' = last
  <2>1. counter' = 0 \/ counter' > 0
    OBVIOUS
  <2>2. counter' = 0 => last = NULL
    BY DEF Linked
  <2>3. counter' > 0 => last = t[counter'] /\ counter' # 0
    BY DEF Linked
  <2> QED BY <1>2, <1>3, <2>1, <2>2, <2>3
<1> QED BY <1>2, <1>4 DEF Wired

\* list_put, where stop is the last cell, keeps the links and every value.
LEMMA PutWired ==
  ASSUME Wired, ~Misled, NEW v \in Payload, list_put(v)
  PROVE  /\ Wired'
         /\ counter' = counter + 1
         /\ stop' \in Item \ DOMAIN heap /\ DOMAIN heap' = DOMAIN heap \cup {stop'}
         /\ heap'[stop'].val = v /\ \A i \in DOMAIN heap : heap'[i].val = heap[i].val
         /\ Chain' = Longer(Chain, counter, stop')
         /\ stop' = LastCell'
<1>1. PICK new \in Item \ DOMAIN heap :
        /\ heap' = PutCells(heap, stop, new, v)
        /\ start' = IF start = NULL THEN new ELSE start
        /\ stop' = new
        /\ counter' = counter + 1
  BY DEF list_put, PutCells
<1>2. counter \in Nat /\ Memory(heap) /\ Linked(Chain, counter, heap, start, stop)
  BY DEF Wired, Misled
<1>3. PICK t : t = Longer(Chain, counter, new)
  OBVIOUS
<1>4. /\ Memory(heap')
      /\ Linked(t, counter + 1, heap', IF start = NULL THEN new ELSE start, new)
      /\ Adds(heap, new, v, heap')
  <2>1. Putting(counter, heap, Chain, start, stop, new, v, heap', t)
    BY <1>1, <1>2, <1>3 DEF Putting
  <2> QED BY <2>1, PutLinked
<1>5. counter' \in Nat
  BY <1>1, <1>2
<1>6. Linked(t, counter', heap', start', stop')
  BY <1>1, <1>4
<1>7. Wired' /\ Chain' = t /\ LastCell' = stop'
  BY <1>4, <1>5, <1>6, NowWired
<1> QED BY <1>1, <1>3, <1>4, <1>7 DEF Adds

\* list_ins, on a list of two items at least, does, behind the last one too.
LEMMA InsWired ==
  ASSUME Wired, NEW p \in 1..counter, NEW v \in Payload,
         NEW new \in Item \ DOMAIN heap, heap' = InsCells(heap, Chain[p], new, v),
         counter' = counter + 1, start' = start
  PROVE  /\ Wired'
         /\ Adds(heap, new, v, heap')
         /\ Chain' = Widened(Chain, counter, p, new)
         /\ p # counter => LastCell' = LastCell
<1>1. counter \in Nat /\ Memory(heap) /\ Linked(Chain, counter, heap, start, LastCell)
  BY DEF Wired
<1>2. PICK t, last : /\ t = Widened(Chain, counter, p, new)
                     /\ last = IF p = counter THEN new ELSE LastCell
  OBVIOUS
<1>3. Memory(heap') /\ Linked(t, counter + 1, heap', start, last) /\ Adds(heap, new, v, heap')
  <2>1. Inserting(counter, heap, Chain, start, LastCell, p, new, v, heap', t)
    BY <1>1, <1>2 DEF Inserting
  <2> QED BY <1>2, <2>1, InsLinked
<1>4. counter' \in Nat
  BY <1>1
<1>5. Linked(t, counter', heap', start', last)
  BY <1>3
<1>6. Wired' /\ Chain' = t /\ LastCell' = last
  BY <1>3, <1>4, <1>5, NowWired
<1> QED BY <1>2, <1>3, <1>6

\* Every cell is in the list, at one position.
LEMMA PositionFound ==
  ASSUME Wired, NEW i \in DOMAIN heap
  PROVE  /\ Position(i) \in 1..counter /\ Chain[Position(i)] = i
         /\ \A k \in 1..counter : Chain[k] = i => k = Position(i)
<1>1. \E k \in 1..counter : Chain[k] = i
  BY DEF Wired, Linked
<1>2. Position(i) \in 1..counter /\ Chain[Position(i)] = i
  BY <1>1 DEF Position
<1>3. \A k \in 1..counter : Chain[k] = i => k = Position(i)
  BY <1>2 DEF Wired, Linked
<1> QED BY <1>2, <1>3

\* list_del does, and frees the cell it is given.
LEMMA DelWired ==
  ASSUME Wired, NEW i \in DOMAIN heap, list_del(i)
  PROVE  /\ Wired'
         /\ counter' = counter - 1
         /\ DOMAIN heap' = DOMAIN heap \ {i}
         /\ \A j \in DOMAIN heap' : heap'[j].val = heap[j].val
         /\ Chain' = Shorter(Chain, counter, Position(i))
         /\ LastCell' = IF heap[i].next = NULL THEN heap[i].prev ELSE LastCell
<1> DEFINE p == Position(i)
<1>1. p \in 1..counter /\ Chain[p] = i
  BY PositionFound
<1>2. counter \in Nat /\ Memory(heap) /\ Linked(Chain, counter, heap, start, LastCell)
  BY DEF Wired
<1> HIDE DEF p
<1>3. /\ heap' = DelCells(heap, Chain[p])
      /\ start' = IF heap[Chain[p]].prev = NULL THEN heap[Chain[p]].next ELSE start
      /\ counter' = counter - 1
  BY <1>1 DEF list_del, DelCells
<1>4. PICK t, last :
        /\ t = Shorter(Chain, counter, p)
        /\ last = IF heap[Chain[p]].next = NULL THEN heap[Chain[p]].prev ELSE LastCell
  OBVIOUS
<1>5. /\ Memory(heap') /\ Linked(t, counter - 1, heap', start', last)
      /\ Frees(heap, Chain[p], heap')
  <2>1. Deleting(counter, heap, Chain, start, LastCell, p, heap', t)
    BY <1>1, <1>2, <1>3, <1>4 DEF Deleting
  <2>2. /\ Memory(heap')
        /\ Linked(t, counter - 1, heap',
                  IF heap[Chain[p]].prev = NULL THEN heap[Chain[p]].next ELSE start,
                  IF heap[Chain[p]].next = NULL THEN heap[Chain[p]].prev ELSE LastCell)
        /\ Frees(heap, Chain[p], heap')
    BY <2>1, DelLinked
  <2> QED BY <1>3, <1>4, <2>2
<1>6. counter' \in Nat
  BY <1>1, <1>2, <1>3
<1>7. Linked(t, counter', heap', start', last)
  BY <1>3, <1>5
<1>8. Wired' /\ Chain' = t /\ LastCell' = last
  BY <1>5, <1>6, <1>7, NowWired
<1> QED BY <1>1, <1>3, <1>4, <1>5, <1>8 DEF p, Frees

\* start is the first cell of the list, NULL if it is empty.
LEMMA Ends ==
  ASSUME Wired
  PROVE  /\ counter \in Nat /\ NULL \notin DOMAIN heap
         /\ counter = 0 => start = NULL /\ LastCell = NULL /\ DOMAIN heap = {}
         /\ counter > 0 => /\ start \in DOMAIN heap /\ start = Chain[1]
                           /\ LastCell \in DOMAIN heap /\ LastCell = Chain[counter]
         /\ Ref(heap, start) /\ Ref(heap, LastCell)
<1>1. counter \in Nat /\ NULL \notin DOMAIN heap
  BY NullIsNoItem DEF Wired, Memory
<1>2. counter = 0 => start = NULL /\ LastCell = NULL /\ DOMAIN heap = {}
  <2>1. \A i \in DOMAIN heap : \E k \in 1..counter : TRUE
    BY DEF Wired, Linked
  <2>2. counter = 0 => start = NULL /\ LastCell = NULL
    BY DEF Wired, Linked
  <2>3. ASSUME counter = 0 PROVE DOMAIN heap = {}
    <3>1. ~ \E k \in 1..counter : TRUE
      BY <2>3
    <3> QED BY <2>1, <3>1
  <2> QED BY <2>2, <2>3
<1>3. counter > 0 => /\ start \in DOMAIN heap /\ start = Chain[1]
                     /\ LastCell \in DOMAIN heap /\ LastCell = Chain[counter]
  BY <1>1 DEF Wired, Linked
<1> QED BY <1>1, <1>2, <1>3 DEF Ref

\* Each cell is followed by the next one, and the first has no predecessor.
LEMMA Link ==
  ASSUME Wired, NEW p \in 1..counter
  PROVE  /\ Chain[p] \in DOMAIN heap
         /\ heap[Chain[p]].val \in Payload
         /\ p = counter => heap[Chain[p]].next = NULL
         /\ p < counter => /\ p + 1 \in 1..counter /\ heap[Chain[p]].next = Chain[p + 1]
                           /\ Chain[p + 1] \in DOMAIN heap
         /\ heap[Chain[p]].prev = NULL <=> p = 1
         /\ \A k \in 1..counter : Chain[k] = Chain[p] <=> k = p
<1>1. Chain[p] \in DOMAIN heap /\ heap[Chain[p]].val \in Payload
  BY DEF Wired, Linked, Memory, Cell
<1>2. p = counter => heap[Chain[p]].next = NULL
  BY DEF Wired, Linked
<1>3. p < counter => /\ p + 1 \in 1..counter /\ heap[Chain[p]].next = Chain[p + 1]
                     /\ Chain[p + 1] \in DOMAIN heap
  BY Ends DEF Wired, Linked
<1>4. heap[Chain[p]].prev = NULL <=> p = 1
  <2>1. p > 1 => p - 1 \in 1..counter /\ heap[Chain[p]].prev = Chain[p - 1]
    BY Ends DEF Wired, Linked
  <2>2. p > 1 => Chain[p - 1] \in DOMAIN heap
    BY <2>1 DEF Wired, Linked
  <2>3. p = 1 => heap[Chain[p]].prev = NULL
    BY DEF Wired, Linked
  <2> QED BY <2>1, <2>2, <2>3, Ends
<1>5. \A k \in 1..counter : Chain[k] = Chain[p] <=> k = p
  BY DEF Wired, Linked
<1> QED BY <1>1, <1>2, <1>3, <1>4, <1>5

\* list_del of the last cell sets stop right, wherever it was, and that of another
\* one leaves it where it is.
LEMMA DelEnded ==
  ASSUME Wired, Ended, NEW i \in DOMAIN heap, list_del(i), behind' = behind
  PROVE  Ended'
<1>1. /\ LastCell' = IF heap[i].next = NULL THEN heap[i].prev ELSE LastCell
      /\ counter' = counter - 1
  BY DelWired
<1>2. stop' = IF heap[i].next = NULL THEN heap[i].prev ELSE stop
  BY DEF list_del
<1>3. Ptr(heap[i].prev)
  BY DEF Wired, Memory, Cell, Ptr
<1>4. counter' = 0 => stop' = NULL
  <2> SUFFICES ASSUME counter' = 0 PROVE stop' = NULL
    OBVIOUS
  <2>1. counter = 1 /\ Position(i) = 1 /\ Chain[1] = i
    BY <1>1, Ends, PositionFound
  <2>2. heap[i].next = NULL /\ heap[i].prev = NULL
    BY <2>1, Link
  <2> QED BY <1>2, <2>2
<1>5. Ptr(stop') /\ (~behind' => stop' = LastCell')
  BY <1>1, <1>2, <1>3 DEF Ended
<1> QED BY <1>4, <1>5 DEF Ended

\* The loop that is walking the list has its cursor on a cell, or at the end;
\* the one that counts is not ahead of its count.
Cursor ==
  \/ sweep = NoSweep
  \/ /\ sweep = Sweeping(sweep.kind, sweep.bad, sweep.i, sweep.j, sweep.was)
     /\ sweep.kind \in {"free", "linked", "counted"}
     /\ sweep.bad \subseteq Payload
     /\ sweep.j \in Nat
     /\ Ref(heap, sweep.i)
     /\ sweep.kind = "free" => sweep.i = start /\ sweep.bad = Payload
     /\ sweep.kind = "counted" =>
          /\ sweep.i = NULL => sweep.j >= counter
          /\ \A k \in 1..counter : Chain[k] = sweep.i => k <= sweep.j + 1

\* The history is of one of three operations.
LastCall == call = << >> \/ call[1] \in {"put", "ins", "del"}

\* The inductive invariant of the list and the loops.
ListInv == Wired /\ Ended /\ Cursor /\ LastCall

\* An empty list that nothing walks satisfies it.
LEMMA ListInit == Init => ListInv
<1> SUFFICES ASSUME Init PROVE ListInv
  OBVIOUS
<1>1. counter = 0 /\ start = NULL /\ stop = NULL /\ DOMAIN heap = {}
  BY DEF Init, Nothing
<1>2. Memory(heap)
  BY DEF Init, Nothing, Memory
<1>3. LastCell = NULL /\ Linked(<< >>, counter, heap, start, LastCell)
  BY <1>1 DEF Linked, LastCell
<1>4. Wired
  <2>1. Chain = Walk(counter, heap, start)
    BY DEF Chain, Walk
  <2>2. counter \in Nat
    BY <1>1
  <2>3. Chain = << >>
    BY <1>3, <2>1, <2>2, WalkIsLinked
  <2> QED BY <1>2, <1>3, <2>2, <2>3 DEF Wired
<1>5. Ended
  BY <1>1, <1>3 DEF Init, Ended, Ptr
<1> QED BY <1>4, <1>5 DEF Init, ListInv, Cursor, LastCall

\* list_ins is a list_put on a list of one item, and an insertion otherwise:
\* what Ins does, outside of loops.
LEMMA InsHere ==
  ASSUME Wired, NEW here \in DOMAIN heap, NEW v \in Payload,
         list_ins(here, v)
  PROVE  \/ counter = 1 /\ Position(here) = 1 /\ list_put(v)
         \/ /\ Position(here) \in 1..counter /\ counter > 1
            /\ counter' = counter + 1 /\ stop' = stop
            /\ here # LastCell => LastCell' = LastCell
            /\ \E new \in Item \ DOMAIN heap :
                 /\ Wired'
                 /\ DOMAIN heap' = DOMAIN heap \cup {new}
                 /\ heap'[new].val = v /\ \A i \in DOMAIN heap : heap'[i].val = heap[i].val
                 /\ Chain' = Widened(Chain, counter, Position(here), new)
<1> DEFINE p == Position(here)
<1>1. p \in 1..counter /\ Chain[p] = here
  BY PositionFound
<1> HIDE DEF p
<1>2. counter \in Nat /\ p <= counter
  BY <1>1, Ends
<1>3. CASE counter <= 1
  <2>1. counter = 1 /\ p = 1
    BY <1>1, <1>2, <1>3
  <2>2. list_put(v)
    BY <2>1 DEF list_ins
  <2> QED BY <2>1, <2>2 DEF p
<1>4. CASE ~(counter <= 1)
  <2>1. counter > 1 /\ (p = counter => here = LastCell)
    BY <1>1, <1>2, <1>4, Ends
  <2>3. PICK new \in Item \ DOMAIN heap :
          heap' = InsCells(heap, Chain[p], new, v)
    BY <1>1, <1>4 DEF list_ins, InsCells
  <2>4. counter' = counter + 1 /\ start' = start /\ stop' = stop
    BY <1>4 DEF list_ins
  <2>5. /\ Wired'
        /\ Adds(heap, new, v, heap')
        /\ Chain' = Widened(Chain, counter, p, new)
        /\ p # counter => LastCell' = LastCell
    BY <1>1, <2>3, <2>4, InsWired
  <2> QED BY <1>1, <2>1, <2>3, <2>4, <2>5 DEF p, Adds
<1> QED BY <1>3, <1>4

\* One round of a loop: the item under the cursor is a cell, at position p.
Round(p) ==
  /\ p \in 1..counter /\ Chain[p] = sweep.i /\ Position(sweep.i) = p
  /\ sweep # NoSweep
  /\ sweep' = Sweeping(sweep.kind, sweep.bad, heap[sweep.i].next,
                       IF sweep.kind = "counted" THEN sweep.j + 1 ELSE sweep.j, sweep.was)
  /\ \/ /\ heap[sweep.i].val \in sweep.bad /\ list_del(sweep.i) /\ call' = <<"del", p>>
        /\ behind' = behind
     \/ heap[sweep.i].val \notin sweep.bad /\ UNCHANGED list

\* Loops go on at a cell of the list: the one that follows the items because
\* next is read before list_del, list_free because start is never stale, and the
\* one that counts because there are as many items ahead as the counter is above j.
LEMMA StepIsRound ==
  ASSUME Wired, Cursor, SweepStep
  PROVE  \E p \in 1..counter : Round(p)
<1>1. /\ sweep # NoSweep
      /\ sweep = Sweeping(sweep.kind, sweep.bad, sweep.i, sweep.j, sweep.was)
      /\ sweep.kind \in {"free", "linked", "counted"}
      /\ sweep.j \in Nat /\ Ref(heap, sweep.i)
      /\ sweep.kind = "free" => sweep.i = start
      /\ sweep.kind = "counted" => (sweep.i = NULL => sweep.j >= counter)
  BY DEF SweepStep, Cursor
<1>2. sweep.i # NULL
  BY <1>1 DEF SweepStep, SweepEnds
<1>3. sweep.i \in DOMAIN heap
  BY <1>1, <1>2 DEF Ref
<1>4. (IF sweep.kind = "free" THEN start ELSE sweep.i) = sweep.i
  BY <1>1
<1>5. /\ sweep' = Advanced(sweep.i)
      /\ IF heap[sweep.i].val \in sweep.bad
         THEN list_del(sweep.i) /\ call' = <<"del", Position(sweep.i)>> /\ behind' = behind
         ELSE UNCHANGED list
  BY <1>4 DEF SweepStep
<1>6. Advanced(sweep.i) =
        Sweeping(sweep.kind, sweep.bad, heap[sweep.i].next,
                 IF sweep.kind = "counted" THEN sweep.j + 1 ELSE sweep.j, sweep.was)
  <2>1. PICK kind, bad, i, j, was : sweep = Sweeping(kind, bad, i, j, was)
    BY <1>1
  <2>2. /\ sweep.kind = kind /\ sweep.bad = bad /\ sweep.i = i /\ sweep.j = j /\ sweep.was = was
    BY <2>1 DEF Sweeping
  <2>3. sweep = [kind |-> kind, bad |-> bad, i |-> i, j |-> j, was |-> was]
    BY <2>1 DEF Sweeping
  <2>4. ASSUME NEW x, NEW y
        PROVE  [sweep EXCEPT !.i = x, !.j = y] = Sweeping(kind, bad, x, y, was)
    <3>1. PICK after : after = [sweep EXCEPT !.i = x, !.j = y]
      OBVIOUS
    <3>2. after \in [kind : {kind}, bad : {bad}, i : {x}, j : {y}, was : {was}]
      BY <2>3, <3>1
    <3>3. after = Sweeping(kind, bad, x, y, was)
      BY <3>2 DEF Sweeping
    <3> QED BY <3>1, <3>3
  <2>5. Advanced(sweep.i) = [sweep EXCEPT !.i = heap[i].next,
                                          !.j = IF kind = "counted" THEN j + 1 ELSE j]
    BY <2>2, <2>3 DEF Advanced
  <2> QED BY <2>2, <2>4, <2>5
<1>7. Position(sweep.i) \in 1..counter /\ Chain[Position(sweep.i)] = sweep.i
  BY <1>3, PositionFound
<1> QED BY <1>1, <1>5, <1>6, <1>7 DEF Round

\* A round leaves the cursor on a cell or at the end, also when it deletes.
LEMMA CursorMoves ==
  ASSUME Wired, Ended, Cursor, LastCall, NEW p \in 1..counter, Round(p)
  PROVE  ListInv'
<1> DEFINE next == heap[sweep.i].next
<1>1. /\ sweep # NoSweep
      /\ sweep.kind \in {"free", "linked", "counted"}
      /\ sweep.bad \subseteq Payload
      /\ sweep.j \in Nat
      /\ sweep.kind = "free" => sweep.i = start /\ sweep.bad = Payload
      /\ sweep.kind = "counted" => p <= sweep.j + 1
  BY DEF Round, Cursor
<1>2. /\ sweep' = Sweeping(sweep.kind, sweep.bad, next,
                           IF sweep.kind = "counted" THEN sweep.j + 1 ELSE sweep.j, sweep.was)
      /\ Chain[p] = sweep.i
  BY DEF Round
<1>3. /\ sweep' = Sweeping(sweep'.kind, sweep'.bad, sweep'.i, sweep'.j, sweep'.was)
      /\ sweep'.kind = sweep.kind /\ sweep'.bad = sweep.bad /\ sweep'.i = next
      /\ sweep'.j = IF sweep.kind = "counted" THEN sweep.j + 1 ELSE sweep.j
  BY <1>2 DEF Sweeping
<1>4. /\ Chain[p] \in DOMAIN heap
      /\ heap[Chain[p]].val \in Payload
      /\ p = counter => next = NULL
      /\ p < counter => p + 1 \in 1..counter /\ next = Chain[p + 1] /\ next \in DOMAIN heap
      /\ heap[Chain[p]].prev = NULL <=> p = 1
  BY <1>2, Link
<1>5. counter \in Nat /\ p <= counter
  BY Ends
<1> HIDE DEF next
<1>6. CASE /\ heap[sweep.i].val \in sweep.bad /\ list_del(sweep.i) /\ call' = <<"del", p>>
           /\ behind' = behind
  <2>1. /\ Wired'
        /\ counter' = counter - 1
        /\ DOMAIN heap' = DOMAIN heap \ {sweep.i}
        /\ Chain' = Shorter(Chain, counter, Position(sweep.i))
    BY <1>2, <1>4, <1>6, DelWired
  <2>2. Position(sweep.i) = p
    BY DEF Round
  <2>3. p < counter => p \in 1..counter' /\ Chain'[p] = next
    BY <1>4, <1>5, <2>1, <2>2 DEF Shorter
  <2>4. Ref(heap', next)
    <3>1. CASE p = counter
      BY <1>4, <3>1 DEF Ref
    <3>2. CASE p < counter
      BY <1>2, <1>4, <2>1, <3>2, Link DEF Ref
    <3> QED BY <1>5, <3>1, <3>2
  <2>5. ASSUME sweep.kind = "free" PROVE start' = next
    <3>1. p = 1
      BY <1>1, <1>2, <1>5, <2>5, Ends, Link
    <3> QED BY <1>2, <1>4, <1>6, <3>1 DEF list_del, next
  <2>6. ASSUME sweep.kind = "counted" PROVE next = NULL => sweep.j + 1 >= counter'
    <3>1. next = NULL => p = counter
      BY <1>4, <1>5, Ends
    <3> QED BY <1>1, <1>5, <2>1, <2>6, <3>1
  <2>7. ASSUME sweep.kind = "counted", NEW k \in 1..counter', Chain'[k] = next
        PROVE  k <= sweep.j + 2
    <3>1. next \in DOMAIN heap'
      BY <2>1, <2>7 DEF Wired, Linked
    <3>2. p < counter
      BY <1>4, <1>5, <2>1, <3>1, Ends
    <3>3. \A j, m \in 1..counter' : Chain'[j] = Chain'[m] => j = m
      BY <2>1 DEF Wired, Linked
    <3>4. k = p
      BY <2>3, <2>7, <3>2, <3>3
    <3> QED BY <1>1, <2>7, <3>4
  <2>8. Cursor'
    BY <1>1, <1>3, <2>4, <2>5, <2>6, <2>7 DEF Cursor
  <2>9. LastCall'
    BY <1>6 DEF LastCall
  <2>10. Ended'
    BY <1>2, <1>4, <1>6, DelEnded
  <2> QED BY <2>1, <2>8, <2>9, <2>10 DEF ListInv
<1>7. CASE heap[sweep.i].val \notin sweep.bad /\ UNCHANGED list
  <2>1. /\ heap' = heap /\ counter' = counter /\ start' = start /\ stop' = stop /\ call' = call
        /\ behind' = behind
    BY <1>7 DEF list
  <2>2. Chain' = Chain /\ LastCell' = LastCell
    BY <2>1 DEF Chain, LastCell
  <2>3. Wired' /\ Ended'
    BY <2>1, <2>2 DEF Wired, Ended
  <2>4. Ref(heap', next)
    BY <1>4, <1>5, <2>1 DEF Ref
  <2>5. sweep.kind # "free"
    BY <1>1, <1>2, <1>4, <1>7
  <2>6. ASSUME sweep.kind = "counted" PROVE next = NULL => sweep.j + 1 >= counter'
    BY <1>1, <1>4, <1>5, <2>1, <2>6, Ends
  <2>7. ASSUME sweep.kind = "counted", NEW k \in 1..counter', Chain'[k] = next
        PROVE  k <= sweep.j + 2
    <3>1. next \in DOMAIN heap
      BY <2>1, <2>2, <2>7, Link
    <3>2. p < counter
      BY <1>4, <1>5, <3>1, Ends
    <3>3. k = p + 1
      BY <1>4, <2>1, <2>2, <2>7, <3>2, Link
    <3> QED BY <1>1, <2>7, <3>3
  <2>8. Cursor'
    BY <1>1, <1>3, <2>4, <2>5, <2>6, <2>7 DEF Cursor
  <2>9. LastCall'
    BY <2>1 DEF LastCall
  <2> QED BY <2>3, <2>8, <2>9 DEF ListInv
<1> QED BY <1>6, <1>7 DEF Round

\* Every step keeps the invariant.
LEMMA ListNext == ListInv /\ [Next]_vars => ListInv'
<1> SUFFICES ASSUME ListInv, [Next]_vars PROVE ListInv'
  OBVIOUS
<1>1. Wired /\ Ended /\ Cursor /\ LastCall
  BY DEF ListInv
<1>10. ASSUME NEW v \in Payload, ~Misled, list_put(v), behind' \in BOOLEAN
       PROVE  Wired' /\ Ended'
  <2>1. Wired' /\ stop' = LastCell' /\ stop' \in Item /\ counter' = counter + 1
    BY <1>1, <1>10, PutWired
  <2>2. counter' # 0
    BY <1>1, <2>1, Ends
  <2> QED BY <1>10, <2>1, <2>2 DEF Ended, Ptr
<1>2. CASE Put
  <2>1. PICK v \in Payload : list_put(v) /\ call' = <<"put", counter, v>>
    BY <1>2 DEF Put
  <2>2. Wired' /\ Ended'
    <3>1. ~Misled /\ behind' \in BOOLEAN
      BY <1>1, <1>2 DEF Put, Ended
    <3> QED BY <1>10, <2>1, <3>1
  <2>3. Cursor' /\ LastCall'
    BY <1>2, <2>1 DEF Put, Cursor, LastCall
  <2> QED BY <2>2, <2>3 DEF ListInv
<1>3. CASE Ins
  <2>1. PICK here \in DOMAIN heap, v \in Payload :
          /\ list_ins(here, v)
          /\ call' = <<"ins", Position(here), v>>
          /\ behind' = (behind \/ (counter > 1 /\ here = LastCell))
    BY <1>3 DEF Ins
  <2>2. Wired' /\ Ended'
    <3>1. behind' \in BOOLEAN
      BY <2>1
    <3>2. CASE counter = 1 /\ list_put(v)
      <4>1. ~Misled
        BY <1>3, <3>2 DEF Ins
      <4> QED BY <1>10, <3>1, <3>2, <4>1
    <3>3. CASE /\ counter > 1 /\ counter' = counter + 1 /\ stop' = stop
               /\ here # LastCell => LastCell' = LastCell
               /\ Wired'
      <4>1. counter' # 0
        BY <1>1, <3>3, Ends
      <4>2. ~behind' => stop' = LastCell'
        BY <1>1, <2>1, <3>3 DEF Ended
      <4> QED BY <1>1, <3>1, <3>3, <4>1, <4>2 DEF Ended
    <3> QED BY <1>1, <2>1, <3>2, <3>3, InsHere
  <2>3. Cursor' /\ LastCall'
    BY <1>3, <2>1 DEF Ins, Cursor, LastCall
  <2> QED BY <2>2, <2>3 DEF ListInv
<1>4. CASE Del
  <2>1. PICK i \in DOMAIN heap : list_del(i) /\ call' = <<"del", Position(i)>>
    BY <1>4 DEF Del
  <2>2. Wired' /\ Ended'
    <3>1. behind' = behind
      BY <1>4 DEF Del
    <3> QED BY <1>1, <2>1, <3>1, DelWired, DelEnded
  <2>3. Cursor' /\ LastCall'
    BY <1>4, <2>1 DEF Del, Cursor, LastCall
  <2> QED BY <2>2, <2>3 DEF ListInv
<1>5. ASSUME UNCHANGED list
      PROVE  Wired' /\ Ended' /\ LastCall' /\ Chain' = Chain /\ Contents' = Contents
  <2>1. /\ heap' = heap /\ counter' = counter /\ start' = start /\ stop' = stop /\ call' = call
        /\ behind' = behind
    BY <1>5 DEF list
  <2>2. Chain' = Chain /\ LastCell' = LastCell
    BY <2>1 DEF Chain, LastCell
  <2> QED BY <1>1, <2>1, <2>2 DEF Wired, Ended, LastCall, Contents
<1>6. CASE SweepBegin
  <2>1. PICK kind \in {"free", "linked", "counted"}, bad \in SUBSET Payload :
          /\ kind = "free" => bad = Payload
          /\ sweep' = Sweeping(kind, bad, start, 0, Contents)
    BY <1>6 DEF SweepBegin
  <2>2. /\ sweep' = Sweeping(sweep'.kind, sweep'.bad, sweep'.i, sweep'.j, sweep'.was)
        /\ sweep'.kind = kind /\ sweep'.bad = bad /\ sweep'.i = start /\ sweep'.j = 0
    BY <2>1 DEF Sweeping
  <2>3. UNCHANGED list
    BY <1>6 DEF SweepBegin
  <2>4. heap' = heap /\ counter' = counter /\ start' = start
    BY <2>3 DEF list
  <2>5. Ref(heap', start)
    BY <1>1, <2>4, Ends
  <2>6. start = NULL => 0 >= counter'
    BY <1>1, <2>4, Ends
  <2>7. ASSUME NEW k \in 1..counter', Chain'[k] = start PROVE k <= 0 + 1
    <3>1. counter \in Nat /\ counter > 0 /\ 1 \in 1..counter /\ start = Chain[1]
      BY <1>1, <2>4, Ends
    <3> QED BY <1>1, <1>5, <2>3, <2>4, <2>7, <3>1, Link
  <2>8. Cursor'
    BY <2>1, <2>2, <2>4, <2>5, <2>6, <2>7 DEF Cursor
  <2> QED BY <1>5, <2>3, <2>8 DEF ListInv
<1>7. CASE SweepStep
  BY <1>1, <1>7, StepIsRound, CursorMoves
<1>8. CASE SweepEnd
  <2>1. Cursor'
    BY <1>8 DEF SweepEnd, Cursor
  <2> QED BY <1>5, <1>8, <2>1 DEF ListInv, SweepEnd
<1>9. CASE UNCHANGED vars
  <2>1. sweep' = sweep /\ heap' = heap /\ counter' = counter /\ start' = start /\ UNCHANGED list
    BY <1>9 DEF vars, list
  <2>2. Cursor'
    BY <1>1, <1>5, <2>1 DEF Cursor
  <2> QED BY <1>5, <2>1, <2>2 DEF ListInv
<1> QED BY <1>2, <1>3, <1>4, <1>6, <1>7, <1>8, <1>9 DEF Next

\* So it always holds.
LEMMA ListAlways == Spec => []ListInv
BY ListInit, ListNext, PTL DEF Spec

\* The fields of the list, its cells and its loops keep their types: start and the
\* cursor of a loop never point to memory that list_del has freed.
THEOREM ListTypes == Spec => []TypeOK
<1>1. ListInv => TypeOK
  <2> SUFFICES ASSUME ListInv PROVE TypeOK
    OBVIOUS
  <2>1. Ref(heap, start) /\ counter \in Nat
    BY Ends DEF ListInv
  <2>4. Ptr(stop) /\ behind \in BOOLEAN
    BY DEF ListInv, Ended
  <2>2. DOMAIN heap \subseteq Item /\ heap \in [DOMAIN heap -> Cell]
    BY DEF ListInv, Wired, Memory
  <2>3. sweep = NoSweep \/ (sweep.bad \subseteq Payload /\ Ref(heap, sweep.i))
    BY DEF ListInv, Cursor
  <2> QED BY <2>1, <2>2, <2>3, <2>4 DEF TypeOK, Ref, Ptr, ListInv, LastCall
<1> QED BY <1>1, ListAlways, PTL

\* What list.c leans on is what the invariant says.
LEMMA WiredIsWellLinked ==
  ASSUME Wired, Ended PROVE WellLinked
<1>1. /\ counter \in Nat /\ Chain \in [1..counter -> DOMAIN heap]
      /\ \A i \in DOMAIN heap : \E k \in 1..counter : Chain[k] = i
      /\ \A j, k \in 1..counter : Chain[j] = Chain[k] => j = k
  BY DEF Wired, Linked
<1>2. counter = Cardinality(DOMAIN heap)
  <2>1. Chain \in Injection(1..counter, DOMAIN heap)
    BY <1>1 DEF Injection, IsInjective
  <2>2. Chain \in Bijection(1..counter, DOMAIN heap)
    BY <1>1, <2>1 DEF Bijection, Surjection
  <2>3. ExistsBijection(1..counter, DOMAIN heap)
    BY <2>2 DEF ExistsBijection
  <2> QED BY <1>1, <2>3, FS_CountingElements
<1>3. {Chain[k] : k \in 1..counter} = DOMAIN heap
  <2>1. \A k \in 1..counter : Chain[k] \in DOMAIN heap
    BY <1>1
  <2>2. \A i \in DOMAIN heap : \E k \in 1..counter : i = Chain[k]
    BY <1>1
  <2> QED BY <2>1, <2>2
<1>4. ASSUME NEW k \in 1..counter
      PROVE  /\ heap[Chain[k]].prev = IF k = 1 THEN NULL ELSE Chain[k - 1]
             /\ heap[Chain[k]].next = IF k = counter THEN NULL ELSE Chain[k + 1]
  <2>1. counter \in Nat /\ (k # 1 => k > 1) /\ (k # counter => k < counter)
    BY Ends
  <2> QED BY <2>1 DEF Wired, Linked
<1>5. /\ ~behind => stop = LastCell
      /\ counter = 0 => start = NULL /\ stop = NULL
  BY Ends DEF Ended
<1> QED BY <1>2, <1>3, <1>4, <1>5 DEF WellLinked

\* The links agree after any operations of list.c, for any number of cells, as long
\* as no list_put follows a list_ins that has left stop behind: every item is
\* visited once, prev is the inverse of next, and start and counter are those of
\* the chain.  So is stop, until a list_ins behind the last of two or more items.
THEOREM AlwaysWellLinked == Spec => []WellLinked
<1>1. ListInv => WellLinked
  BY WiredIsWellLinked DEF ListInv
<1> QED BY <1>1, ListAlways, PTL

-----------------------------------------------------------------------------
(* The sequence in the list, and the operations of ListSeq on it.            *)

\* d is c with v behind position p.
PutAfter(S, n, c, p, v, d) ==
  /\ n \in Nat /\ c \in [1..n -> S] /\ v \in S /\ p \in 1..n
  /\ d \in [1..(n + 1) -> S] /\ d[p + 1] = v
  /\ \A k \in 1..p : d[k] = c[k]
  /\ \A k \in (p + 1)..n : d[k + 1] = c[k]

\* One more after position p is After of ListSeq.
LEMMA AfterIs ==
  ASSUME NEW S, NEW n, NEW c, NEW p, NEW v, NEW d, PutAfter(S, n, c, p, v, d)
  PROVE  d = Abstract!After(c, p, v)
<1> USE DEF PutAfter
<1>1. c \in Seq(S) /\ Len(c) = n /\ d \in Seq(S) /\ Len(d) = n + 1
  BY ASeq
<1>2. PICK a, b, e : a = SubSeq(c, 1, p) /\ b = SubSeq(c, p + 1, n) /\ e = <<v>>
  OBVIOUS
<1>3. a \in Seq(S) /\ Len(a) = p /\ \A k \in 1..p : a[k] = c[k]
  <2>1. \A k \in 1..p : c[k] \in S
    OBVIOUS
  <2> QED BY <1>2, <2>1, SubSeqProperties
<1>4. b \in Seq(S) /\ Len(b) = n - p /\ \A k \in 1..(n - p) : b[k] = c[p + k]
  <2>1. \A k \in (p + 1)..n : c[k] \in S
    OBVIOUS
  <2>2. /\ b \in Seq(S) /\ Len(b) = IF p + 1 <= n THEN n - (p + 1) + 1 ELSE 0
        /\ \A k \in 1..(n - (p + 1) + 1) : b[k] = c[(p + 1) + k - 1]
    BY <1>2, <2>1, SubSeqProperties
  <2>3. n - (p + 1) + 1 = n - p /\ \A k \in 1..(n - p) : (p + 1) + k - 1 = p + k
    OBVIOUS
  <2>4. Len(b) = n - p
    BY <2>2
  <2> QED BY <2>2, <2>3, <2>4
<1>5. e \in Seq(S) /\ Len(e) = 1 /\ e[1] = v
  BY <1>2
<1>6. PICK f : f = a \o e
  OBVIOUS
<1>7. /\ f \in Seq(S) /\ Len(f) = p + 1
      /\ \A k \in 1..(p + 1) : f[k] = IF k <= p THEN a[k] ELSE e[k - p]
  <2>1. /\ a \o e \in Seq(S) /\ Len(a \o e) = Len(a) + Len(e)
        /\ \A k \in 1..Len(a) + Len(e) : (a \o e)[k] =
                  IF k <= Len(a) THEN a[k] ELSE e[k - Len(a)]
    <3>1. a \in Seq(S) /\ e \in Seq(S)
      BY <1>3, <1>5
    <3> QED BY <3>1, ConcatProperties
  <2> QED BY <1>3, <1>5, <1>6, <2>1
<1>8. PICK g : g = f \o b
  OBVIOUS
<1>9. /\ g \in Seq(S) /\ Len(g) = (p + 1) + (n - p)
      /\ \A k \in 1..((p + 1) + (n - p)) : g[k] = IF k <= p + 1 THEN f[k] ELSE b[k - (p + 1)]
  <2>1. /\ f \o b \in Seq(S) /\ Len(f \o b) = Len(f) + Len(b)
        /\ \A k \in 1..Len(f) + Len(b) : (f \o b)[k] =
                  IF k <= Len(f) THEN f[k] ELSE b[k - Len(f)]
    <3>1. f \in Seq(S) /\ b \in Seq(S)
      BY <1>4, <1>7
    <3> QED BY <3>1, ConcatProperties
  <2> QED BY <1>4, <1>7, <1>8, <2>1
<1>10. ASSUME NEW k \in 1..(n + 1) PROVE d[k] = g[k]
  <2>1. (p + 1) + (n - p) = n + 1
    OBVIOUS
  <2>2. CASE k <= p
    BY <1>3, <1>7, <1>9, <2>1, <2>2
  <2>3. CASE k = p + 1
    BY <1>5, <1>7, <1>9, <2>1, <2>3
  <2>4. CASE k > p + 1
    <3>1. /\ k - 1 \in (p + 1)..n /\ (k - 1) + 1 = k
          /\ k - (p + 1) \in 1..(n - p) /\ p + (k - (p + 1)) = k - 1
      BY <2>4
    <3>2. g[k] = c[k - 1]
      BY <1>4, <1>9, <2>1, <2>4, <3>1
    <3>3. d[(k - 1) + 1] = c[k - 1]
      BY <3>1
    <3> QED BY <3>1, <3>2, <3>3
  <2> QED BY <2>2, <2>3, <2>4
<1>11. d = g
  BY <1>1, <1>9, <1>10, SeqEqual
<1> QED BY <1>1, <1>2, <1>6, <1>8, <1>11 DEF Abstract!After

\* All but position p is Remove of ListSeq.
LEMMA RemoveIs ==
  ASSUME NEW S, NEW c \in Seq(S), NEW p \in 1..Len(c)
  PROVE  /\ Shorter(c, Len(c), p) \in Seq(S)
         /\ Len(Shorter(c, Len(c), p)) = Len(c) - 1
         /\ Shorter(c, Len(c), p) = Abstract!Remove(c, p)
<1>1. PICK n : n = Len(c)
  OBVIOUS
<1> DEFINE d == Shorter(c, n, p)
<1>2. n \in Nat /\ c \in [1..n -> S] /\ p \in 1..n
  BY <1>1, LenProperties
<1>3. /\ d \in [1..(n - 1) -> S]
      /\ \A k \in 1..(n - 1) : d[k] = IF k < p THEN c[k] ELSE c[k + 1]
  BY <1>2 DEF Shorter
<1> HIDE DEF d
<1>4. c \in Seq(S) /\ Len(c) = n /\ d \in Seq(S) /\ Len(d) = n - 1
  <2>1. n - 1 \in Nat
    BY <1>2
  <2> QED BY <1>3, <1>2, <2>1, ASeq
<1> USE <1>2
<1>5. PICK a, b : a = SubSeq(c, 1, p - 1) /\ b = SubSeq(c, p + 1, n)
  OBVIOUS
<1>6. a \in Seq(S) /\ Len(a) = p - 1 /\ \A k \in 1..(p - 1) : a[k] = c[k]
  <2>1. (\A k \in 1..(p - 1) : c[k] \in S) /\ p - 1 \in Int
    OBVIOUS
  <2>2. /\ a \in Seq(S) /\ Len(a) = IF 1 <= p - 1 THEN (p - 1) - 1 + 1 ELSE 0
        /\ \A k \in 1..((p - 1) - 1 + 1) : a[k] = c[1 + k - 1]
    BY <1>5, <2>1, SubSeqProperties
  <2>3. Len(a) = p - 1
    BY <2>2
  <2>4. (p - 1) - 1 + 1 = p - 1 /\ \A k \in 1..(p - 1) : 1 + k - 1 = k
    OBVIOUS
  <2> QED BY <2>2, <2>3, <2>4
<1>7. b \in Seq(S) /\ Len(b) = n - p /\ \A k \in 1..(n - p) : b[k] = c[p + k]
  <2>1. \A k \in (p + 1)..n : c[k] \in S
    OBVIOUS
  <2>2. /\ b \in Seq(S) /\ Len(b) = IF p + 1 <= n THEN n - (p + 1) + 1 ELSE 0
        /\ \A k \in 1..(n - (p + 1) + 1) : b[k] = c[(p + 1) + k - 1]
    BY <1>5, <2>1, SubSeqProperties
  <2>3. n - (p + 1) + 1 = n - p /\ \A k \in 1..(n - p) : (p + 1) + k - 1 = p + k
    OBVIOUS
  <2>4. Len(b) = n - p
    BY <2>2
  <2> QED BY <2>2, <2>3, <2>4
<1>8. PICK g : g = a \o b
  OBVIOUS
<1>9. /\ g \in Seq(S) /\ Len(g) = (p - 1) + (n - p)
      /\ \A k \in 1..((p - 1) + (n - p)) : g[k] = IF k <= p - 1 THEN a[k] ELSE b[k - (p - 1)]
  <2>1. /\ a \o b \in Seq(S) /\ Len(a \o b) = Len(a) + Len(b)
        /\ \A k \in 1..Len(a) + Len(b) : (a \o b)[k] =
                  IF k <= Len(a) THEN a[k] ELSE b[k - Len(a)]
    <3>1. a \in Seq(S) /\ b \in Seq(S)
      BY <1>6, <1>7
    <3> QED BY <3>1, ConcatProperties
  <2> QED BY <1>6, <1>7, <1>8, <2>1
<1>10. ASSUME NEW k \in 1..(n - 1) PROVE d[k] = g[k]
  <2>1. (p - 1) + (n - p) = n - 1
    OBVIOUS
  <2>2. CASE k < p
    <3>1. k \in 1..(p - 1) /\ k <= p - 1
      BY <2>2
    <3> QED BY <1>3, <1>6, <1>9, <2>1, <2>2, <3>1
  <2>3. CASE ~(k < p)
    <3>1. k - (p - 1) \in 1..(n - p) /\ p + (k - (p - 1)) = k + 1 /\ ~(k <= p - 1)
      BY <2>3
    <3> QED BY <1>3, <1>7, <1>9, <2>1, <2>3, <3>1
  <2> QED BY <2>2, <2>3
<1>11. d = g
  <2>1. Len(d) = Len(g)
    BY <1>4, <1>9
  <2>2. \A k \in 1..Len(d) : d[k] = g[k]
    BY <1>4, <1>10
  <2> QED BY <1>4, <1>9, <2>1, <2>2, SeqEqual
<1> QED BY <1>1, <1>4, <1>5, <1>8, <1>11 DEF d, Abstract!Remove

\* The sequence can be read off the cells.
Readable ==
  /\ counter \in Nat /\ Contents \in [1..counter -> Payload]
  /\ \A k \in 1..counter : Contents[k] = heap[Chain[k]].val

\* The values in the order of the cells.
LEMMA ContentsAre ==
  ASSUME Wired
  PROVE  /\ counter \in Nat /\ Contents \in [1..counter -> Payload]
         /\ Contents \in Seq(Payload) /\ Len(Contents) = counter /\ DOMAIN Contents = 1..counter
         /\ \A k \in 1..counter : Contents[k] = heap[Chain[k]].val
<1>1. counter \in Nat /\ \A k \in 1..counter : heap[Chain[k]].val \in Payload
  BY Ends, Link
<1>2. Contents \in [1..counter -> Payload]
  BY <1>1 DEF Contents
<1> QED BY <1>1, <1>2, ASeq DEF Contents

\* The links allow to read them,
LEMMA WiredIsReadable == Wired => Readable
BY ContentsAre DEF Readable

\* after a step too.
LEMMA StillReadable == Wired' => Readable'
BY WiredIsReadable, PTL

\* list_put appends to the sequence.
LEMMA PutAppends ==
  ASSUME Wired, ~Misled, NEW v \in Payload, list_put(v)
  PROVE  Contents' = Append(Contents, v)
<1>1. /\ Wired' /\ counter' = counter + 1
      /\ stop' \in Item \ DOMAIN heap
      /\ heap'[stop'].val = v /\ \A i \in DOMAIN heap : heap'[i].val = heap[i].val
      /\ Chain' = Longer(Chain, counter, stop')
  BY PutWired
<1>2. counter \in Nat /\ Contents \in [1..counter -> Payload]
      /\ \A k \in 1..counter : Contents[k] = heap[Chain[k]].val
  BY ContentsAre
<1>3. /\ Contents' \in [1..(counter + 1) -> Payload]
      /\ \A k \in 1..(counter + 1) : Contents'[k] = heap'[Chain'[k]].val
  BY <1>1, StillReadable DEF Readable
<1>4. Contents'[counter + 1] = v
  <2>1. counter + 1 \in 1..(counter + 1) /\ Chain'[counter + 1] = stop'
    BY <1>1, <1>2 DEF Longer
  <2> QED BY <1>1, <1>3, <2>1
<1>5. ASSUME NEW k \in 1..counter PROVE Contents'[k] = Contents[k]
  <2>1. k \in 1..(counter + 1) /\ Chain'[k] = Chain[k]
    BY <1>1, <1>2 DEF Longer
  <2> QED BY <1>1, <1>2, <1>3, <2>1, Link
<1> QED BY <1>2, <1>3, <1>4, <1>5, AppendIs

\* list_del removes the position of its item.
LEMMA DelRemoves ==
  ASSUME Wired, NEW i \in DOMAIN heap, list_del(i)
  PROVE  /\ Position(i) \in DOMAIN Contents
         /\ Contents' = Abstract!Remove(Contents, Position(i))
<1> DEFINE p == Position(i)
<1>1. /\ Wired' /\ counter' = counter - 1 /\ DOMAIN heap' = DOMAIN heap \ {i}
      /\ \A j \in DOMAIN heap' : heap'[j].val = heap[j].val
      /\ Chain' = Shorter(Chain, counter, p)
  BY DelWired
<1>2. /\ counter \in Nat /\ Contents \in [1..counter -> Payload] /\ DOMAIN Contents = 1..counter
      /\ \A k \in 1..counter : Contents[k] = heap[Chain[k]].val
  BY ContentsAre
<1>3. /\ Contents' \in [1..(counter - 1) -> Payload]
      /\ \A k \in 1..(counter - 1) : Contents'[k] = heap'[Chain'[k]].val
  BY <1>1, StillReadable DEF Readable
<1>4. p \in 1..counter /\ Chain[p] = i
  BY PositionFound
<1> HIDE DEF p
<1>5. ASSUME NEW k \in 1..(counter - 1)
      PROVE  Contents'[k] = IF k < p THEN Contents[k] ELSE Contents[k + 1]
  <2>1. k \in 1..counter /\ k + 1 \in 1..counter
    BY <1>2
  <2>2. ASSUME NEW q \in 1..counter, q # p
        PROVE  heap'[Chain[q]].val = Contents[q]
    <3>1. Chain[q] \in DOMAIN heap'
      BY <1>1, <1>4, <2>2, Link
    <3> QED BY <1>1, <1>2, <3>1
  <2>3. Chain'[k] = IF k < p THEN Chain[k] ELSE Chain[k + 1]
    BY <1>1, <1>2 DEF Shorter
  <2>4. CASE k < p
    <3>1. k # p
      BY <2>4
    <3> QED BY <1>3, <2>1, <2>2, <2>3, <2>4, <3>1
  <2>5. CASE ~(k < p)
    <3>1. k + 1 # p
      BY <1>2, <1>4, <2>5
    <3> QED BY <1>3, <2>1, <2>2, <2>3, <2>5, <3>1
  <2> QED BY <2>4, <2>5
<1>6. Contents' = Abstract!Remove(Contents, p)
  <2>1. Contents' = Shorter(Contents, counter, p)
    BY <1>3, <1>5 DEF Shorter
  <2>2. Contents \in Seq(Payload) /\ Len(Contents) = counter
    BY ContentsAre
  <2> QED BY <1>4, <2>1, <2>2, RemoveIs
<1> QED BY <1>2, <1>4, <1>6 DEF p

\* list_ins inserts after the position of its item.
LEMMA InsInserts ==
  ASSUME Wired, NEW here \in DOMAIN heap, NEW v \in Payload,
         list_ins(here, v), counter <= 1 => ~Misled
  PROVE  /\ Position(here) \in DOMAIN Contents
         /\ Contents' = Abstract!After(Contents, Position(here), v)
<1> DEFINE p == Position(here)
<1>1. /\ counter \in Nat /\ Contents \in [1..counter -> Payload] /\ DOMAIN Contents = 1..counter
      /\ Contents \in Seq(Payload) /\ Len(Contents) = counter
      /\ \A k \in 1..counter : Contents[k] = heap[Chain[k]].val
  BY ContentsAre
<1>2. CASE counter = 1 /\ p = 1 /\ list_put(v)
  <2>1. Contents' = Append(Contents, v)
    BY <1>2, PutAppends
  <2>2. /\ \A k \in 1..counter : Append(Contents, v)[k] = Contents[k]
        /\ Append(Contents, v)[counter + 1] = v
    BY <1>1, AppendProperties
  <2>3. Contents' \in [1..(counter + 1) -> Payload]
    <3>1. Wired' /\ counter' = counter + 1
      BY <1>2, PutWired
    <3> QED BY <3>1, StillReadable DEF Readable
  <2>4. Contents'[p + 1] = v /\ \A k \in 1..p : Contents'[k] = Contents[k]
    BY <1>2, <2>1, <2>2
  <2>5. p \in 1..counter /\ \A k \in (p + 1)..counter : Contents'[k + 1] = Contents[k]
    BY <1>2
  <2> HIDE DEF p
  <2>6. Contents' = Abstract!After(Contents, p, v)
    <3>1. PutAfter(Payload, counter, Contents, p, v, Contents')
      BY <1>1, <2>3, <2>4, <2>5 DEF PutAfter
    <3> QED BY <3>1, AfterIs
  <2> QED BY <1>1, <2>5, <2>6 DEF p
<1>3. CASE /\ p \in 1..counter /\ counter' = counter + 1
           /\ \E new \in Item \ DOMAIN heap :
                /\ Wired'
                /\ DOMAIN heap' = DOMAIN heap \cup {new}
                /\ heap'[new].val = v /\ \A i \in DOMAIN heap : heap'[i].val = heap[i].val
                /\ Chain' = Widened(Chain, counter, p, new)
  <2> HIDE DEF p
  <2>1. PICK new \in Item \ DOMAIN heap :
          /\ Wired'
          /\ heap'[new].val = v /\ \A i \in DOMAIN heap : heap'[i].val = heap[i].val
          /\ Chain' = Widened(Chain, counter, p, new)
    BY <1>3
  <2>2. /\ Contents' \in [1..(counter + 1) -> Payload]
        /\ \A k \in 1..(counter + 1) : Contents'[k] = heap'[Chain'[k]].val
    BY <1>3, <2>1, StillReadable DEF Readable
  <2>3. Contents'[p + 1] = v
    <3>1. p + 1 \in 1..(counter + 1) /\ ~(p + 1 <= p)
      BY <1>1, <1>3
    <3>2. Chain'[p + 1] = new
      BY <2>1, <3>1 DEF Widened
    <3> QED BY <2>1, <2>2, <3>1, <3>2
  <2>4. ASSUME NEW k \in 1..p PROVE Contents'[k] = Contents[k]
    <3>1. k \in 1..counter /\ k \in 1..(counter + 1) /\ Chain'[k] = Chain[k]
      BY <1>1, <1>3, <2>1 DEF Widened
    <3> QED BY <1>1, <2>1, <2>2, <3>1, Link
  <2>5. ASSUME NEW k \in (p + 1)..counter PROVE Contents'[k + 1] = Contents[k]
    <3>1. /\ k \in 1..counter /\ k + 1 \in 1..(counter + 1)
          /\ ~(k + 1 <= p) /\ k + 1 # p + 1 /\ (k + 1) - 1 = k
      BY <1>1, <1>3
    <3>2. Chain'[k + 1] = Chain[k]
      BY <2>1, <3>1 DEF Widened
    <3> QED BY <1>1, <2>1, <2>2, <3>1, <3>2, Link
  <2>6. Contents' = Abstract!After(Contents, p, v)
    <3>1. PutAfter(Payload, counter, Contents, p, v, Contents')
      BY <1>1, <1>3, <2>2, <2>3, <2>4, <2>5 DEF PutAfter
    <3> QED BY <3>1, AfterIs
  <2> QED BY <1>1, <1>3, <2>6 DEF p
<1> QED BY <1>2, <1>3, InsHere

\* list.c implements the sequence of module ListSeq, for any number of cells: every
\* list_put where stop is the last item, every list_ins, behind the last one too,
\* and every list_del, inside of loops too, changes it in the place the call names
\* and nowhere else.
THEOREM ListIsSequence == Spec => ImplementsSequence
<1>1. Init => Abstract!Init
  <2>1. counter = 0 => Contents = << >>
    BY DEF Contents
  <2> QED BY <2>1 DEF Init, Abstract!Init
<1>2. ListInv /\ [Next]_vars => [Abstract!Next]_<<Contents, call>>
  <2> SUFFICES ASSUME ListInv, [Next]_vars PROVE [Abstract!Next]_<<Contents, call>>
    OBVIOUS
  <2>1. Wired /\ Cursor
    BY DEF ListInv
  <2>2. ASSUME NEW i \in DOMAIN heap, list_del(i), call' = <<"del", Position(i)>>
        PROVE  Abstract!Next
    BY <2>1, <2>2, DelRemoves DEF Abstract!Next, Abstract!Del
  <2>3. CASE Put
    <3>1. PICK v \in Payload : list_put(v) /\ call' = <<"put", counter, v>> /\ ~Misled
      BY <2>3 DEF Put
    <3> QED BY <2>1, <3>1, PutAppends, ContentsAre DEF Abstract!Next, Abstract!Put
  <2>4. CASE Ins
    <3>1. PICK here \in DOMAIN heap, v \in Payload :
            /\ list_ins(here, v)
            /\ call' = <<"ins", Position(here), v>>
            /\ counter <= 1 => ~Misled
      BY <2>4 DEF Ins
    <3> QED BY <2>1, <3>1, InsInserts DEF Abstract!Next, Abstract!Ins
  <2>5. CASE Del
    BY <2>2, <2>5 DEF Del
  <2>6. ASSUME UNCHANGED list PROVE UNCHANGED <<Contents, call>>
    BY <2>6 DEF list, Contents, Chain
  <2>7. CASE SweepStep
    <3>1. PICK p \in 1..counter : Round(p)
      BY <2>1, <2>7, StepIsRound
    <3>2. sweep.i \in DOMAIN heap
      BY <2>1, <3>1, Link DEF Round
    <3> QED BY <2>2, <2>6, <3>1, <3>2 DEF Round
  <2>8. CASE SweepBegin \/ SweepEnd
    BY <2>6, <2>8 DEF SweepBegin, SweepEnd
  <2>9. CASE UNCHANGED vars
    BY <2>6, <2>9 DEF vars, list
  <2> QED BY <2>3, <2>4, <2>5, <2>7, <2>8, <2>9 DEF Next
<1> QED BY <1>1, <1>2, ListAlways, PTL DEF Spec, ImplementsSequence, Abstract!Spec

-----------------------------------------------------------------------------
(* What a pass over the list deletes.                                        *)

\* Of the first r of w: how many are bad; of all w: what is left when those are
\* gone.
BadTo(w, bad, r) == {q \in BadAt(w, bad) : q <= r}
Gone(w, bad, r) == Cardinality(BadTo(w, bad, r))
Left(w, bad, r) == {p \in 1..Len(w) : p > r \/ w[p] \notin bad}

\* One more is gone for each bad item passed, none for the others.
LEMMA GoneIs ==
  ASSUME NEW S, NEW w \in Seq(S), NEW bad
  PROVE  /\ Gone(w, bad, 0) = 0
         /\ \A r \in Nat : Gone(w, bad, r) \in Nat
         /\ \A r \in Nat : r < Len(w) =>
              /\ w[r + 1] \in bad => Gone(w, bad, r + 1) = Gone(w, bad, r) + 1
              /\ w[r + 1] \notin bad => Gone(w, bad, r + 1) = Gone(w, bad, r)
         /\ \A r, q \in Nat : r <= q => Gone(w, bad, r) <= Gone(w, bad, q)
<1>1. Len(w) \in Nat /\ DOMAIN w = 1..Len(w)
  BY LenProperties
<1>2. ASSUME NEW r \in Nat
      PROVE  IsFiniteSet(BadTo(w, bad, r)) /\ Gone(w, bad, r) \in Nat
  <2>1. IsFiniteSet(1..Len(w))
    BY <1>1, FS_Interval
  <2>2. BadTo(w, bad, r) \in SUBSET (1..Len(w))
    BY <1>1 DEF BadTo, BadAt
  <2>3. IsFiniteSet(BadTo(w, bad, r))
    BY <2>1, <2>2, FS_Subset
  <2> QED BY <2>3, FS_CardinalityType DEF Gone
<1>3. Gone(w, bad, 0) = 0
  <2>1. BadTo(w, bad, 0) = {}
    BY <1>1 DEF BadTo, BadAt
  <2> QED BY <2>1, FS_EmptySet DEF Gone
<1>4. ASSUME NEW r \in Nat, r < Len(w)
      PROVE  /\ w[r + 1] \in bad => Gone(w, bad, r + 1) = Gone(w, bad, r) + 1
             /\ w[r + 1] \notin bad => Gone(w, bad, r + 1) = Gone(w, bad, r)
  <2>1. r + 1 \in DOMAIN w /\ r + 1 \notin BadTo(w, bad, r)
    BY <1>1, <1>4 DEF BadTo
  <2>2. CASE w[r + 1] \in bad
    <3>1. BadTo(w, bad, r + 1) = BadTo(w, bad, r) \cup {r + 1}
      <4>1. \A q \in DOMAIN w : q <= r + 1 <=> q <= r \/ q = r + 1
        BY <1>1
      <4> QED BY <2>1, <2>2, <4>1 DEF BadTo, BadAt
    <3> QED BY <1>2, <2>1, <2>2, <3>1, FS_AddElement DEF Gone
  <2>3. CASE w[r + 1] \notin bad
    <3>1. BadTo(w, bad, r + 1) = BadTo(w, bad, r)
      <4>1. \A q \in DOMAIN w : q <= r + 1 <=> q <= r \/ q = r + 1
        BY <1>1
      <4> QED BY <2>1, <2>3, <4>1 DEF BadTo, BadAt
    <3> QED BY <1>2, <2>3, <3>1 DEF Gone
  <2> QED BY <2>2, <2>3
<1>5. ASSUME NEW r \in Nat, NEW q \in Nat, r <= q PROVE Gone(w, bad, r) <= Gone(w, bad, q)
  <2>1. BadTo(w, bad, r) \in SUBSET BadTo(w, bad, q)
    <3>1. \A p \in DOMAIN w : p <= r => p <= q
      BY <1>1, <1>5
    <3> QED BY <3>1 DEF BadTo, BadAt
  <2> QED BY <1>2, <2>1, FS_Subset DEF Gone
<1> QED BY <1>2, <1>3, <1>4, <1>5

\* A loop that has passed the first r of w: c are left, g are gone, and e says
\* where those that are left were; what it has not seen is in its place.
Passed(w, bad, r, e, c, g) ==
  /\ w \in Seq(Payload) /\ Len(w) \in Nat /\ r \in Nat /\ r <= Len(w)
  /\ g = Gone(w, bad, r) /\ g \in Nat /\ c + g = Len(w)
  /\ Enumerates(e, c, Left(w, bad, r), Len(w))
  /\ \A p \in (r + 1)..Len(w) : p - g \in 1..c /\ e[p - g] = p

\* A loop that begins has passed none.
LEMMA PassedNone ==
  ASSUME NEW w \in Seq(Payload), NEW bad
  PROVE  Passed(w, bad, 0, [k \in 1..Len(w) |-> k], Len(w), 0)
<1> DEFINE e == [k \in 1..Len(w) |-> k]
<1>1. Len(w) \in Nat /\ Left(w, bad, 0) = 1..Len(w)
  <2>1. Len(w) \in Nat
    BY LenProperties
  <2>2. \A p \in 1..Len(w) : p > 0
    BY <2>1
  <2> QED BY <2>1, <2>2 DEF Left
<1>2. Enumerates(e, Len(w), 1..Len(w), Len(w))
  BY <1>1 DEF Enumerates
<1>3. Gone(w, bad, 0) = 0
  BY GoneIs
<1>4. \A p \in (0 + 1)..Len(w) : p - 0 \in 1..Len(w) /\ e[p - 0] = p
  BY <1>1
<1> QED BY <1>1, <1>2, <1>3, <1>4 DEF Passed

\* Passing an item that is not bad leaves what is left.
LEMMA PassKept ==
  ASSUME NEW w, NEW bad, NEW r, NEW e, NEW c, NEW g, Passed(w, bad, r, e, c, g),
         r < Len(w), w[r + 1] \notin bad
  PROVE  Passed(w, bad, r + 1, e, c, g)
<1>1. /\ w \in Seq(Payload) /\ Len(w) \in Nat /\ r \in Nat
      /\ g = Gone(w, bad, r) /\ g \in Nat /\ c + g = Len(w)
      /\ Enumerates(e, c, Left(w, bad, r), Len(w))
      /\ \A p \in (r + 1)..Len(w) : p - g \in 1..c /\ e[p - g] = p
  BY DEF Passed
<1>2. Gone(w, bad, r + 1) = g
  <2>1. Gone(w, bad, r + 1) = Gone(w, bad, r)
    BY <1>1, GoneIs
  <2> QED BY <1>1, <2>1
<1>3. Left(w, bad, r + 1) = Left(w, bad, r)
  <2>1. \A p \in 1..Len(w) : p > r <=> p > r + 1 \/ p = r + 1
    BY <1>1
  <2> QED BY <2>1 DEF Left
<1>4. \A p \in ((r + 1) + 1)..Len(w) : p \in (r + 1)..Len(w)
  BY <1>1
<1>5. r + 1 \in Nat /\ r + 1 <= Len(w)
  BY <1>1
<1>6. \A p \in ((r + 1) + 1)..Len(w) : p - g \in 1..c /\ e[p - g] = p
  BY <1>1, <1>4
<1> QED BY <1>1, <1>2, <1>3, <1>5, <1>6 DEF Passed

\* Deleting one takes it out, at the place where the loop stands.
LEMMA PassDeleted ==
  ASSUME NEW w, NEW bad, NEW r, NEW e, NEW c, NEW g, Passed(w, bad, r, e, c, g),
         r < Len(w), w[r + 1] \in bad
  PROVE  /\ r + 1 - g \in 1..c
         /\ Passed(w, bad, r + 1, Shorter(e, c, r + 1 - g), c - 1, g + 1)
<1>1. /\ w \in Seq(Payload) /\ Len(w) \in Nat /\ r \in Nat
      /\ g = Gone(w, bad, r) /\ g \in Nat /\ c + g = Len(w)
      /\ Enumerates(e, c, Left(w, bad, r), Len(w))
      /\ \A p \in (r + 1)..Len(w) : p - g \in 1..c /\ e[p - g] = p
  BY DEF Passed
<1>2. Gone(w, bad, r + 1) = g + 1
  BY <1>1, GoneIs
<1>3. PICK at : at = r + 1 - g
  OBVIOUS
<1>4. r + 1 \in (r + 1)..Len(w)
  BY <1>1
<1>5. at \in 1..c /\ e[at] = r + 1
  BY <1>1, <1>3, <1>4
<1>6. PICK L, M : L = Left(w, bad, r) /\ M = Left(w, bad, r + 1)
  OBVIOUS
<1>7. M = L \ {r + 1}
  <2>1. \A p \in 1..Len(w) : p > r <=> p > r + 1 \/ p = r + 1
    BY <1>1
  <2>2. \A p \in 1..Len(w) : p > r + 1 => p # r + 1
    BY <1>1
  <2> QED BY <1>6, <2>1, <2>2 DEF Left
<1>8. PICK f : f = Shorter(e, c, at)
  OBVIOUS
<1>9. /\ c \in Nat /\ e \in [1..c -> L] /\ L \subseteq 1..Len(w)
      /\ \A p \in L : \E k \in 1..c : e[k] = p
      /\ \A j, k \in 1..c : j < k => e[j] < e[k]
  BY <1>1, <1>6 DEF Enumerates
<1>10. \A k \in 1..c : e[k] = r + 1 <=> k = at
  BY <1>1, <1>5, <1>6, Increasing
<1>11. ASSUME NEW k \in 1..(c - 1)
       PROVE  \E q \in 1..c : q # at /\ f[k] = e[q] /\ (IF k < at THEN q = k ELSE q = k + 1)
  <2>1. k \in 1..c /\ k + 1 \in 1..c
    BY <1>9
  <2>2. f[k] = IF k < at THEN e[k] ELSE e[k + 1]
    BY <1>8 DEF Shorter
  <2>3. CASE k < at
    BY <2>1, <2>2, <2>3
  <2>4. CASE ~(k < at)
    <3>1. k + 1 # at
      BY <1>5, <2>1, <2>4
    <3> QED BY <2>1, <2>2, <2>4, <3>1
  <2> QED BY <2>3, <2>4
<1>12. f \in [1..(c - 1) -> M]
  <2>1. \A k \in 1..(c - 1) : f[k] \in M
    BY <1>7, <1>9, <1>10, <1>11
  <2>2. f = [k \in 1..(c - 1) |-> f[k]]
    BY <1>8 DEF Shorter
  <2> QED BY <2>1, <2>2
<1>13. ASSUME NEW p \in M PROVE \E k \in 1..(c - 1) : f[k] = p
  <2>1. PICK q \in 1..c : e[q] = p /\ q # at
    BY <1>7, <1>9, <1>10
  <2>2. CASE q < at
    <3>1. q \in 1..(c - 1)
      BY <1>5, <1>9, <2>2
    <3> QED BY <1>8, <2>1, <2>2, <3>1 DEF Shorter
  <2>3. CASE q > at
    <3>1. q - 1 \in 1..(c - 1) /\ ~(q - 1 < at) /\ (q - 1) + 1 = q
      BY <1>5, <1>9, <2>3
    <3> QED BY <1>8, <2>1, <3>1 DEF Shorter
  <2> QED BY <1>5, <1>9, <2>1, <2>2, <2>3
<1>14. ASSUME NEW j \in 1..(c - 1), NEW k \in 1..(c - 1), j < k PROVE f[j] < f[k]
  <2>1. PICK p \in 1..c : p # at /\ f[j] = e[p] /\ (IF j < at THEN p = j ELSE p = j + 1)
    BY <1>11
  <2>2. PICK q \in 1..c : q # at /\ f[k] = e[q] /\ (IF k < at THEN q = k ELSE q = k + 1)
    BY <1>11
  <2>3. p < q
    BY <1>5, <1>9, <1>14, <2>1, <2>2
  <2> QED BY <1>9, <2>1, <2>2, <2>3
<1>15. c - 1 \in Nat /\ M \subseteq 1..Len(w)
  <2>1. c - 1 \in Nat
    BY <1>5, <1>9
  <2> QED BY <1>7, <1>9, <2>1
<1>16. Enumerates(f, c - 1, M, Len(w))
  BY <1>1, <1>12, <1>13, <1>14, <1>15 DEF Enumerates
<1>17. ASSUME NEW p \in ((r + 1) + 1)..Len(w)
       PROVE  p - (g + 1) \in 1..(c - 1) /\ f[p - (g + 1)] = p
  <2>1. p \in (r + 1)..Len(w) /\ p > r + 1
    BY <1>1
  <2>2. p - g \in 1..c /\ e[p - g] = p
    BY <1>1, <2>1
  <2>3. /\ p - (g + 1) \in 1..(c - 1) /\ (p - (g + 1)) + 1 = p - g
        /\ ~(p - (g + 1) < at)
    <3>1. g \in Nat /\ c \in Nat /\ r \in Nat /\ p \in Nat
      BY <1>1, <1>9
    <3> QED BY <1>3, <1>5, <2>1, <2>2, <3>1
  <2> QED BY <1>8, <2>2, <2>3 DEF Shorter
<1>18. Passed(w, bad, r + 1, f, c - 1, g + 1)
  <2>1. r + 1 \in Nat /\ r + 1 <= Len(w) /\ g + 1 \in Nat /\ (c - 1) + (g + 1) = Len(w)
    BY <1>1, <1>9
  <2> QED BY <1>1, <1>2, <1>6, <1>16, <1>17, <2>1 DEF Passed
<1> QED BY <1>3, <1>5, <1>8, <1>18

\* The loop has passed the first r of the items that were there.
Seen(r, e, g) ==
  /\ Passed(sweep.was, sweep.bad, r, e, counter, g)
  /\ \A k \in 1..counter : heap[Chain[k]].val = sweep.was[e[k]]
  /\ r = Len(sweep.was) => sweep.i = NULL
  /\ r < Len(sweep.was) => sweep.i = Chain[r + 1 - g]
  /\ sweep.kind = "counted" =>
       /\ sweep.j = r
       /\ r > 0 => r + Gone(sweep.was, sweep.bad, r - 1) <= Len(sweep.was)

\* Every loop has passed some of the items.
Progress == sweep # NoSweep => \E r, e, g : Seen(r, e, g)

\* The invariant with the loops in it.
SweepInv == ListInv /\ Progress

\* A loop begins before the first item.
LEMMA SweepStarts == ListInv /\ SweepBegin => Progress'
<1> SUFFICES ASSUME ListInv, SweepBegin PROVE \E r, e, g : Seen(r, e, g)'
  BY DEF Progress
<1>1. PICK kind, bad : sweep' = Sweeping(kind, bad, start, 0, Contents)
  BY DEF SweepBegin
<1>2. heap' = heap /\ counter' = counter /\ start' = start
  BY DEF SweepBegin, list
<1>3. Chain' = Chain
  BY <1>2 DEF Chain
<1>4. Wired
  BY DEF ListInv
<1>5. PICK w, n, e : w = Contents /\ n = counter /\ e = [k \in 1..Len(w) |-> k]
  OBVIOUS
<1>6. /\ w \in Seq(Payload) /\ Len(w) = n /\ n \in Nat
      /\ \A k \in 1..n : w[k] = heap[Chain[k]].val
  BY <1>4, <1>5, ContentsAre
<1>7. Passed(w, bad, 0, e, n, 0)
  BY <1>5, <1>6, PassedNone
<1>8. /\ sweep'.was = w /\ sweep'.bad = bad /\ sweep'.i = start /\ sweep'.j = 0
      /\ counter' = n
  BY <1>1, <1>2, <1>5 DEF Sweeping
<1>9. \A k \in 1..n : heap'[Chain'[k]].val = w[e[k]]
  BY <1>2, <1>3, <1>5, <1>6
<1>10. (0 = n => start = NULL) /\ (0 < n => start = Chain'[0 + 1 - 0])
  BY <1>3, <1>4, <1>5, <1>6, Ends
<1>11. Seen(0, e, 0)'
  BY <1>6, <1>7, <1>8, <1>9, <1>10 DEF Seen
<1> QED BY <1>11

\* A round takes a loop past one more item, whether it deletes it or not.
LEMMA SweepMoves == ListInv /\ Progress /\ SweepStep => Progress'
<1> SUFFICES ASSUME ListInv, Progress, SweepStep PROVE \E r, e, g : Seen(r, e, g)'
  BY DEF Progress
<1>1. Wired /\ Cursor
  BY DEF ListInv
<1>2. PICK p \in 1..counter : Round(p)
  BY <1>1, StepIsRound
<1>3. PICK r, e, g : Seen(r, e, g)
  BY DEF Progress, SweepStep
<1>4. PICK w, bad, n, j : w = sweep.was /\ bad = sweep.bad /\ n = counter /\ j = sweep.j
  OBVIOUS
<1>5. /\ Passed(w, bad, r, e, n, g)
      /\ \A k \in 1..n : heap[Chain[k]].val = w[e[k]]
      /\ r = Len(w) => sweep.i = NULL
      /\ r < Len(w) => sweep.i = Chain[r + 1 - g]
      /\ sweep.kind = "counted" => j = r
  BY <1>3, <1>4 DEF Seen
<1>6. /\ w \in Seq(Payload) /\ Len(w) \in Nat /\ r \in Nat /\ r <= Len(w) /\ g \in Nat
      /\ g = Gone(w, bad, r) /\ n + g = Len(w)
      /\ \A q \in (r + 1)..Len(w) : q - g \in 1..n /\ e[q - g] = q
  BY <1>5 DEF Passed
<1>7. /\ p \in 1..n /\ n \in Nat /\ Chain[p] = sweep.i /\ sweep.i \in DOMAIN heap /\ sweep.i # NULL
      /\ \A k \in 1..n : Chain[k] = Chain[p] => k = p
  BY <1>1, <1>2, <1>4, Ends, Link DEF Round
<1>8. r < Len(w)
  BY <1>5, <1>6, <1>7
<1>9. p = r + 1 - g /\ heap[sweep.i].val = w[r + 1]
  <2>1. r + 1 \in (r + 1)..Len(w)
    BY <1>6, <1>8
  <2>2. r + 1 - g \in 1..n /\ e[r + 1 - g] = r + 1
    BY <1>6, <2>1
  <2>3. p = r + 1 - g
    BY <1>5, <1>7, <1>8, <2>2
  <2> QED BY <1>5, <1>7, <2>2, <2>3
<1>10. /\ sweep'.was = w /\ sweep'.bad = bad /\ sweep'.kind = sweep.kind
       /\ sweep'.i = heap[Chain[p]].next
       /\ sweep'.j = IF sweep.kind = "counted" THEN j + 1 ELSE j
  BY <1>2, <1>4, <1>7 DEF Round, Sweeping
<1>11. /\ p = n => heap[Chain[p]].next = NULL
       /\ p < n => heap[Chain[p]].next = Chain[p + 1]
  BY <1>1, <1>4, <1>7, Link
<1>12. p = n <=> r + 1 = Len(w)
  <2>1. n \in Nat /\ g \in Nat /\ r \in Nat /\ Len(w) \in Nat /\ n + g = Len(w)
    BY <1>6, <1>7
  <2> QED BY <1>9, <2>1
\* A counted loop goes on only below the counter.
<1>13. sweep.kind = "counted" => (r + 1) + Gone(w, bad, (r + 1) - 1) <= Len(w)
  <2>1. sweep.kind = "counted" => ~(j >= n)
    BY <1>4 DEF SweepStep, SweepEnds
  <2>2. (r + 1) - 1 = r
    BY <1>6
  <2> QED BY <1>5, <1>6, <1>7, <2>1, <2>2
<1>14. sweep.kind = "counted" => sweep'.j = r + 1
  BY <1>5, <1>10
<1>15. CASE heap[sweep.i].val \in sweep.bad /\ list_del(sweep.i)
  <2>1. PICK f : f = Shorter(e, n, p)
    OBVIOUS
  <2>2. w[r + 1] \in bad
    BY <1>4, <1>9, <1>15
  <2>3. Passed(w, bad, r + 1, f, n - 1, g + 1)
    BY <1>5, <1>8, <1>9, <2>1, <2>2, PassDeleted
  <2>4. /\ counter' = n - 1 /\ DOMAIN heap' = DOMAIN heap \ {Chain[p]}
        /\ \A i \in DOMAIN heap' : heap'[i].val = heap[i].val
        /\ Chain' = Shorter(Chain, n, p)
    <3>1. Position(sweep.i) = p
      BY <1>2 DEF Round
    <3> QED BY <1>1, <1>4, <1>7, <1>15, <3>1, DelWired
  <2>5. ASSUME NEW k \in 1..(n - 1) PROVE heap'[Chain'[k]].val = w[f[k]]
    <3>1. \A q \in 1..n : q # p => heap'[Chain[q]].val = w[e[q]]
      BY <1>1, <1>4, <1>5, <1>7, <2>4, Link
    <3>2. k \in 1..n /\ k + 1 \in 1..n /\ (k < p => k # p) /\ (~(k < p) => k + 1 # p)
      BY <1>7
    <3> QED BY <2>1, <2>4, <3>1, <3>2 DEF Shorter
  <2>6. r + 1 < Len(w) => sweep'.i = Chain'[(r + 1) + 1 - (g + 1)]
    <3>1. p < n => p \in 1..(n - 1) /\ ~(p < p)
      BY <1>7
    <3>2. p < n => Chain'[p] = Chain[p + 1]
      BY <2>4, <3>1 DEF Shorter
    <3>3. (r + 1) + 1 - (g + 1) = p
      BY <1>6, <1>9
    <3>4. r + 1 < Len(w) => p < n
      BY <1>6, <1>7, <1>12
    <3> QED BY <1>10, <1>11, <3>2, <3>3, <3>4
  <2>7. r + 1 = Len(w) => sweep'.i = NULL
    BY <1>10, <1>11, <1>12
  <2>8. Seen(r + 1, f, g + 1)'
    BY <1>10, <1>13, <1>14, <2>3, <2>4, <2>5, <2>6, <2>7 DEF Seen
  <2> QED BY <2>8
<1>16. CASE heap[sweep.i].val \notin sweep.bad /\ UNCHANGED list
  <2>1. heap' = heap /\ counter' = n /\ start' = start
    BY <1>4, <1>16 DEF list
  <2>2. Chain' = Chain
    BY <1>4, <2>1 DEF Chain
  <2>3. w[r + 1] \notin bad
    BY <1>4, <1>9, <1>16
  <2>4. Passed(w, bad, r + 1, e, n, g)
    BY <1>5, <1>8, <2>3, PassKept
  <2>5. \A k \in 1..n : heap'[Chain'[k]].val = w[e[k]]
    BY <1>5, <2>1, <2>2
  <2>6. r + 1 < Len(w) => sweep'.i = Chain'[(r + 1) + 1 - g]
    <3>1. (r + 1) + 1 - g = p + 1
      BY <1>6, <1>9
    <3>2. r + 1 < Len(w) => p < n
      BY <1>6, <1>7, <1>12
    <3> QED BY <1>10, <1>11, <2>2, <3>1, <3>2
  <2>7. r + 1 = Len(w) => sweep'.i = NULL
    BY <1>10, <1>11, <1>12
  <2>8. Seen(r + 1, e, g)'
    BY <1>10, <1>13, <1>14, <2>1, <2>4, <2>5, <2>6, <2>7 DEF Seen
  <2> QED BY <2>8
<1> QED BY <1>2, <1>15, <1>16 DEF Round

\* Every step keeps the invariant.
LEMMA SweepInvNext == SweepInv /\ [Next]_vars => SweepInv'
<1> SUFFICES ASSUME SweepInv, [Next]_vars PROVE SweepInv'
  OBVIOUS
<1>1. ListInv'
  BY ListNext DEF SweepInv
<1>2. ListInv /\ Progress
  BY DEF SweepInv
<1>3. ASSUME UNCHANGED vars PROVE Progress'
  <2>1. heap' = heap /\ counter' = counter /\ start' = start /\ sweep' = sweep
    BY <1>3 DEF vars
  <2>2. Chain' = Chain
    BY <2>1 DEF Chain
  <2>3. ASSUME NEW r, NEW e, NEW g, Seen(r, e, g) PROVE Seen(r, e, g)'
    BY <2>1, <2>2, <2>3 DEF Seen
  <2> QED BY <1>2, <2>1, <2>3 DEF Progress
<1>4. ASSUME Put \/ Ins \/ Del \/ SweepEnd PROVE Progress'
  <2>1. sweep' = NoSweep
    BY <1>4 DEF Put, Ins, Del, SweepEnd
  <2> QED BY <2>1 DEF Progress
<1>5. ASSUME SweepBegin PROVE Progress'
  BY <1>2, <1>5, SweepStarts
<1>6. ASSUME SweepStep PROVE Progress'
  BY <1>2, <1>6, SweepMoves
<1>7. Progress'
  BY <1>3, <1>4, <1>5, <1>6 DEF Next
<1> QED BY <1>1, <1>7 DEF SweepInv

\* Where a loop ends is where Sweeps says: at the end of the list, or, if it
\* counts, at the first position that together with the bad items before it is
\* beyond the length.
LEMMA LoopEnds == ASSUME ListInv, Progress PROVE SweepResult
<1> SUFFICES ASSUME sweep # NoSweep, SweepEnds
             PROVE  Contents = IF sweep.kind = "counted"
                               THEN CountedSweep(sweep.was, sweep.bad)
                               ELSE Keep(sweep.was, DOMAIN sweep.was \ BadAt(sweep.was, sweep.bad))
  BY DEF SweepResult
<1>1. Wired /\ Cursor
  BY DEF ListInv
<1>2. PICK r, e, g : Seen(r, e, g)
  BY DEF Progress
<1>3. PICK w, bad, n : w = sweep.was /\ bad = sweep.bad /\ n = counter
  OBVIOUS
<1>4. /\ Passed(w, bad, r, e, n, g)
      /\ \A k \in 1..n : heap[Chain[k]].val = w[e[k]]
      /\ r < Len(w) => sweep.i = Chain[r + 1 - g]
      /\ sweep.kind = "counted" => /\ sweep.j = r
                                   /\ r > 0 => r + Gone(w, bad, r - 1) <= Len(w)
  BY <1>2, <1>3 DEF Seen
<1>5. /\ w \in Seq(Payload) /\ Len(w) \in Nat /\ r \in Nat /\ r <= Len(w) /\ g \in Nat
      /\ g = Gone(w, bad, r) /\ n + g = Len(w)
      /\ Enumerates(e, n, Left(w, bad, r), Len(w))
      /\ \A q \in (r + 1)..Len(w) : q - g \in 1..n /\ e[q - g] = q
  BY <1>4 DEF Passed
<1>6. DOMAIN w = 1..Len(w)
  BY <1>5, LenProperties
<1>7. Contents = Keep(w, Left(w, bad, r))
  <2>1. Keep(w, Left(w, bad, r)) = [k \in 1..n |-> w[e[k]]]
    BY <1>5, KeepIs
  <2>2. Contents = [k \in 1..n |-> heap[Chain[k]].val]
    BY <1>3 DEF Contents
  <2> QED BY <1>4, <2>1, <2>2
<1>8. CASE sweep.kind # "counted"
  <2>1. sweep.i = NULL
    BY <1>1, <1>8 DEF SweepEnds, Cursor
  <2>2. r = Len(w)
    <3>1. ASSUME r < Len(w) PROVE FALSE
      <4>1. r + 1 \in (r + 1)..Len(w)
        BY <1>5, <3>1
      <4>2. r + 1 - g \in 1..counter
        BY <1>3, <1>5, <4>1
      <4>3. sweep.i \in DOMAIN heap
        BY <1>1, <1>4, <3>1, <4>2, Link
      <4> QED BY <1>1, <2>1, <4>3, Ends
    <3> QED BY <1>5, <3>1
  <2>3. Left(w, bad, r) = DOMAIN w \ BadAt(w, bad)
    <3>1. \A p \in 1..Len(w) : ~(p > r)
      BY <1>5, <2>2
    <3> QED BY <1>6, <3>1 DEF Left, BadAt
  <2> QED BY <1>3, <1>7, <1>8, <2>3
<1>9. CASE sweep.kind = "counted"
  <2>1. r >= n /\ (r > 0 => r + Gone(w, bad, r - 1) <= Len(w))
    BY <1>3, <1>4, <1>9 DEF SweepEnds
  <2>2. ASSUME NEW p \in 1..Len(w)
        PROVE  p <= r <=> p + Cardinality({q \in BadAt(w, bad) : q < p}) <= Len(w)
    <3>1. p \in Nat /\ p - 1 \in Nat
      BY <1>5
    <3>2. {q \in BadAt(w, bad) : q < p} = BadTo(w, bad, p - 1)
      <4>1. \A q \in DOMAIN w : q < p <=> q <= p - 1
        BY <1>5, <1>6
      <4> QED BY <4>1 DEF BadTo, BadAt
    <3>3. Cardinality({q \in BadAt(w, bad) : q < p}) = Gone(w, bad, p - 1)
      BY <3>2 DEF Gone
    <3>4. Gone(w, bad, p - 1) \in Nat
      BY <1>5, <3>1, GoneIs
    <3>5. ASSUME p <= r PROVE p + Gone(w, bad, p - 1) <= Len(w)
      <4>1. r > 0 /\ r - 1 \in Nat /\ p - 1 <= r - 1
        BY <1>5, <3>1, <3>5
      <4>2. Gone(w, bad, p - 1) <= Gone(w, bad, r - 1) /\ Gone(w, bad, r - 1) \in Nat
        BY <1>5, <3>1, <4>1, GoneIs
      <4> QED BY <1>5, <2>1, <3>1, <3>4, <3>5, <4>1, <4>2
    <3>6. ASSUME ~(p <= r) PROVE ~(p + Gone(w, bad, p - 1) <= Len(w))
      <4>1. r <= p - 1
        BY <1>5, <3>1, <3>6
      <4>2. g <= Gone(w, bad, p - 1)
        BY <1>5, <3>1, <4>1, GoneIs
      <4>3. n \in Nat
        BY <1>5 DEF Enumerates
      <4> QED BY <1>5, <2>1, <3>1, <3>4, <4>1, <4>2, <4>3
    <3> QED BY <3>3, <3>5, <3>6
  <2>3. Left(w, bad, r) = DOMAIN w \ SweptAt(w, bad)
    <3>1. \A p \in 1..Len(w) : p > r <=> ~(p <= r)
      BY <1>5
    <3>2. \A p \in 1..Len(w) : p \in SweptAt(w, bad) <=> w[p] \in bad /\ p <= r
      BY <1>6, <2>2 DEF SweptAt, SeenByCount, BadAt
    <3> QED BY <1>6, <3>1, <3>2 DEF Left
  <2> QED BY <1>3, <1>7, <1>9, <2>3 DEF CountedSweep
<1> QED BY <1>8, <1>9

\* When a loop over a list ends it has deleted what module Sweeps says, for lists
\* of any length and any choice of bad items: list_free and the loops that follow
\* the items all of them, those of db_expire and nbhd_expire (database.c:104) only
\* what they reach before j meets the falling counter.
THEOREM LoopsDelete == Spec => []SweepResult
<1>1. Init => SweepInv
  BY ListInit DEF SweepInv, Progress, Init
<1>2. SweepInv => SweepResult
  BY LoopEnds DEF SweepInv
<1> QED BY <1>1, <1>2, SweepInvNext, PTL DEF Spec

-----------------------------------------------------------------------------
(* hash.c: a bucket of the hash, as the list of its pairs.                   *)

\* hash_getpair finds a pair with the id, if there is one.
LEMMA PairFound ==
  ASSUME NEW S, NEW b \in Seq(S), NEW m, NEW id, NEW p, p = hash_getpair(b, m, id)
  PROVE  \/ p = 0 /\ \A k \in 1..Len(b) : m[b[k].key] # id
         \/ p \in 1..Len(b) /\ m[b[p].key] = id
<1> DEFINE I == {k \in 1..Len(b) : m[b[k].key] = id}
<1>1. p = IF I # {} THEN Min(I) ELSE 0
  BY DEF hash_getpair, SelectInSeq
<1>2. Len(b) \in Nat
  BY LenProperties
<1>3. CASE I = {}
  BY <1>1, <1>3
<1>4. CASE I # {}
  <2>1. \E x \in I : \A y \in I : x <= y
    <3>1. I \in SUBSET Nat
      BY <1>2
    <3> QED BY <1>4, <3>1, LeastNat
  <2>2. Min(I) \in I
    <3> HIDE DEF I
    <3> QED BY <2>1 DEF Min
  <2> QED BY <1>1, <1>4, <2>2
<1> QED BY <1>3, <1>4

\* What is left of a bucket without one pair.
LEMMA Removed ==
  ASSUME NEW S, NEW b \in Seq(S), NEW p \in 1..Len(b)
  PROVE  /\ RemoveAt(b, p) \in Seq(S) /\ Len(RemoveAt(b, p)) = Len(b) - 1
         /\ \A k \in 1..(Len(b) - 1) :
              RemoveAt(b, p)[k] = IF k < p THEN b[k] ELSE b[k + 1]
<1> DEFINE d == RemoveAt(b, p)
<1>1. Len(b) \in Nat /\ b \in [1..Len(b) -> S]
  BY LenProperties
<1>2. d = Shorter(b, Len(b), p)
  BY <1>1, RemoveIs DEF RemoveAt, Abstract!Remove
<1> HIDE DEF d
<1>3. d \in Seq(S) /\ Len(d) = Len(b) - 1
  BY <1>1, <1>2, RemoveIs
<1>4. \A k \in 1..(Len(b) - 1) : d[k] = IF k < p THEN b[k] ELSE b[k + 1]
  BY <1>2 DEF Shorter
<1> QED BY <1>3, <1>4 DEF d

\* A PAIR, whose key is in an object.
Pair == [key : Payload, value : Item]

\* The bucket b of the slot holds a pair for each object m that belongs there,
\* and its item in h.
InSlot(b, slot, m, h) ==
  /\ b \in Seq(Pair)
  /\ \A k \in 1..Len(b) : /\ b[k].key \in DOMAIN m /\ index[m[b[k].key]] = slot
                          /\ b[k].value \in DOMAIN h /\ h[b[k].value].val = b[k].key
  /\ \A j, k \in 1..Len(b) : b[j].key = b[k].key => j = k
  /\ \A o \in DOMAIN m : index[m[o]] = slot => \E k \in 1..Len(b) : b[k].key = o

\* Each object has an id of its own and one item.
Objects(m, h) ==
  /\ DOMAIN m \subseteq Payload /\ m \in [DOMAIN m -> Id]
  /\ \A o, q \in DOMAIN m : m[o] = m[q] => o = q
  /\ \A i \in DOMAIN h : h[i].val \in DOMAIN m
  /\ \A o \in DOMAIN m : \E i \in DOMAIN h : h[i].val = o
  /\ \A i, j \in DOMAIN h : h[i].val = h[j].val => i = j

\* hash_put of a new object adds its pair to its own bucket.
LEMMA SlotPut ==
  ASSUME NEW b, NEW slot, NEW m, NEW h, InSlot(b, slot, m, h),
         NEW o \in Payload, o \notin DOMAIN m, NEW id, NEW m2, m2 = With(m, o, id),
         NEW i \in Item, i \notin DOMAIN h, NEW h2,
         DOMAIN h2 = DOMAIN h \cup {i}, h2[i].val = o, \A j \in DOMAIN h : h2[j].val = h[j].val
  PROVE  /\ index[id] # slot => InSlot(b, slot, m2, h2)
         /\ index[id] = slot => InSlot(Append(b, [key |-> o, value |-> i]), slot, m2, h2)
<1>1. /\ DOMAIN m2 = DOMAIN m \cup {o} /\ m2[o] = id /\ \A q \in DOMAIN m : m2[q] = m[q]
  BY DEF With
<1>2. b \in Seq(Pair) /\ Len(b) \in Nat
  BY LenProperties DEF InSlot
<1>3. \A k \in 1..Len(b) : /\ b[k].key \in DOMAIN m2 /\ index[m2[b[k].key]] = slot
                           /\ b[k].value \in DOMAIN h2 /\ h2[b[k].value].val = b[k].key
                           /\ b[k].key # o
  BY <1>1 DEF InSlot
<1>4. \A q \in DOMAIN m2 : index[m2[q]] = slot =>
        \/ \E k \in 1..Len(b) : b[k].key = q
        \/ q = o /\ index[id] = slot
  BY <1>1 DEF InSlot
<1>5. \A j, k \in 1..Len(b) : b[j].key = b[k].key => j = k
  BY DEF InSlot
<1>6. ASSUME index[id] # slot PROVE InSlot(b, slot, m2, h2)
  BY <1>2, <1>3, <1>4, <1>5, <1>6 DEF InSlot
<1>7. ASSUME index[id] = slot
      PROVE  InSlot(Append(b, [key |-> o, value |-> i]), slot, m2, h2)
  <2>1. PICK x : x = [key |-> o, value |-> i]
    OBVIOUS
  <2>2. x \in Pair /\ x.key = o /\ x.value = i
    BY <2>1 DEF Pair
  <2>3. PICK d : d = Append(b, x)
    OBVIOUS
  <2>4. /\ d \in Seq(Pair) /\ Len(d) = Len(b) + 1
        /\ \A k \in 1..Len(b) : d[k] = b[k]
        /\ d[Len(b) + 1] = x
    BY <1>2, <2>2, <2>3, AppendProperties
  <2>5. \A k \in 1..Len(d) : k \in 1..Len(b) \/ k = Len(b) + 1
    BY <1>2, <2>4
  <2>6. Len(b) + 1 \in 1..Len(d) /\ \A k \in 1..Len(b) : k \in 1..Len(d)
    BY <1>2, <2>4
  <2>7. \A k \in 1..Len(d) : /\ d[k].key \in DOMAIN m2 /\ index[m2[d[k].key]] = slot
                             /\ d[k].value \in DOMAIN h2 /\ h2[d[k].value].val = d[k].key
    BY <1>1, <1>3, <1>7, <2>2, <2>4, <2>5
  <2>8. \A j, k \in 1..Len(d) : d[j].key = d[k].key => j = k
    BY <1>3, <1>5, <2>2, <2>4, <2>5
  <2>9. \A q \in DOMAIN m2 : index[m2[q]] = slot => \E k \in 1..Len(d) : d[k].key = q
    BY <1>4, <2>2, <2>4, <2>6
  <2>10. InSlot(d, slot, m2, h2)
    BY <2>4, <2>7, <2>8, <2>9 DEF InSlot
  <2> QED BY <2>1, <2>3, <2>10
<1> QED BY <1>6, <1>7

\* The item i of object o is not in h2 any more.
Freed(h, h2, i, o) == /\ i \in DOMAIN h /\ o = h[i].val
                      /\ DOMAIN h2 = DOMAIN h \ {i}
                      /\ \A j \in DOMAIN h2 : h2[j].val = h[j].val

\* Without an object and its item, every other pair of its bucket is right.
LEMMA SlotDel ==
  ASSUME NEW b, NEW slot, NEW m, NEW h, InSlot(b, slot, m, h), Objects(m, h),
         NEW i, NEW o, NEW h2, Freed(h, h2, i, o), NEW m2, m2 = Without(m, {o})
  PROVE  /\ index[m[o]] # slot => InSlot(b, slot, m2, h2)
         /\ \A p \in 1..Len(b) : b[p].key = o => InSlot(RemoveAt(b, p), slot, m2, h2)
<1>1. /\ DOMAIN m2 = DOMAIN m \ {o} /\ \A q \in DOMAIN m2 : m2[q] = m[q]
      /\ o \in DOMAIN m
  BY DEF Without, Objects, Freed
<1>2. b \in Seq(Pair) /\ Len(b) \in Nat
  BY LenProperties DEF InSlot
<1>3. ASSUME NEW k \in 1..Len(b), b[k].key # o
      PROVE  /\ b[k].key \in DOMAIN m2 /\ index[m2[b[k].key]] = slot
             /\ b[k].value \in DOMAIN h2 /\ h2[b[k].value].val = b[k].key
  <2>1. /\ b[k].key \in DOMAIN m /\ index[m[b[k].key]] = slot
        /\ b[k].value \in DOMAIN h /\ h[b[k].value].val = b[k].key
    BY DEF InSlot
  <2>2. b[k].value # i
    BY <1>3, <2>1 DEF Freed
  <2> QED BY <1>1, <1>3, <2>1, <2>2 DEF Freed
<1>4. \A q \in DOMAIN m2 : index[m2[q]] = slot => \E k \in 1..Len(b) : b[k].key = q /\ q # o
  BY <1>1 DEF InSlot
<1>5. \A j, k \in 1..Len(b) : b[j].key = b[k].key => j = k
  BY DEF InSlot
<1>6. ASSUME index[m[o]] # slot PROVE InSlot(b, slot, m2, h2)
  <2>1. \A k \in 1..Len(b) : b[k].key # o
    BY <1>6 DEF InSlot
  <2> QED BY <1>2, <1>3, <1>4, <1>5, <2>1 DEF InSlot
<1>7. ASSUME NEW p \in 1..Len(b), b[p].key = o
      PROVE  InSlot(RemoveAt(b, p), slot, m2, h2)
  <2>1. PICK d : d = RemoveAt(b, p)
    OBVIOUS
  <2>2. /\ d \in Seq(Pair) /\ Len(d) = Len(b) - 1
        /\ \A k \in 1..(Len(b) - 1) : d[k] = IF k < p THEN b[k] ELSE b[k + 1]
    BY <1>2, <2>1, Removed
  <2>3. ASSUME NEW k \in 1..Len(d)
        PROVE  \E q \in 1..Len(b) : q # p /\ d[k] = b[q] /\ (IF k < p THEN q = k ELSE q = k + 1)
    <3>1. k \in 1..(Len(b) - 1) /\ k \in 1..Len(b) /\ k + 1 \in 1..Len(b)
      BY <1>2, <2>2
    <3>2. CASE k < p
      BY <2>2, <3>1, <3>2
    <3>3. CASE ~(k < p)
      <4>1. k + 1 # p
        BY <3>1, <3>3
      <4> QED BY <2>2, <3>1, <3>3, <4>1
    <3> QED BY <3>2, <3>3
  <2>4. ASSUME NEW q \in 1..Len(b), q # p PROVE \E k \in 1..Len(d) : d[k] = b[q]
    <3>1. CASE q < p
      <4>1. q \in 1..(Len(b) - 1)
        BY <1>2, <3>1
      <4> QED BY <2>2, <3>1, <4>1
    <3>2. CASE q > p
      <4>1. q - 1 \in 1..(Len(b) - 1) /\ ~(q - 1 < p) /\ (q - 1) + 1 = q
        BY <1>2, <3>2
      <4> QED BY <2>2, <4>1
    <3> QED BY <1>2, <2>4, <3>1, <3>2
  <2>5. \A q \in 1..Len(b) : q # p => b[q].key # o
    BY <1>5, <1>7
  <2>6. ASSUME NEW k \in 1..Len(d)
        PROVE  /\ d[k].key \in DOMAIN m2 /\ index[m2[d[k].key]] = slot
               /\ d[k].value \in DOMAIN h2 /\ h2[d[k].value].val = d[k].key
    <3>1. PICK q \in 1..Len(b) : q # p /\ d[k] = b[q]
      BY <2>3
    <3>2. b[q].key # o
      BY <2>5, <3>1
    <3> QED BY <1>3, <3>1, <3>2
  <2>7. ASSUME NEW j \in 1..Len(d), NEW k \in 1..Len(d), d[j].key = d[k].key PROVE j = k
    <3>1. PICK q \in 1..Len(b) : q # p /\ d[j] = b[q] /\ (IF j < p THEN q = j ELSE q = j + 1)
      BY <2>3
    <3>2. PICK r \in 1..Len(b) : r # p /\ d[k] = b[r] /\ (IF k < p THEN r = k ELSE r = k + 1)
      BY <2>3
    <3>3. q = r
      BY <1>5, <2>7, <3>1, <3>2
    <3>4. j \in Int /\ k \in Int /\ p \in Int
      BY <1>2, <2>2
    <3> QED BY <3>1, <3>2, <3>3, <3>4
  <2>8. ASSUME NEW q \in DOMAIN m2, index[m2[q]] = slot PROVE \E k \in 1..Len(d) : d[k].key = q
    <3>1. PICK r \in 1..Len(b) : b[r].key = q /\ q # o
      BY <1>4, <2>8
    <3>2. r # p
      BY <1>7, <3>1
    <3> QED BY <2>4, <3>1, <3>2
  <2>9. InSlot(d, slot, m2, h2)
    BY <2>2, <2>6, <2>7, <2>8 DEF InSlot
  <2> QED BY <2>1, <2>9
<1> QED BY <1>6, <1>7

-----------------------------------------------------------------------------
(* A table: list, hash and objects.                                          *)

\* Every bucket holds the pairs of its objects.
Stored ==
  /\ pairs \in [Slot -> Seq(Pair)]
  /\ Objects(object, heap)
  /\ \A slot \in Slot : InSlot(pairs[slot], slot, object, heap)

\* The inductive invariant of a table.
HashInv == ListInv /\ (hashed => Stored)

\* A table changes its list as module List says.
LEMMA HashSteps ==
  ASSUME [HashNext]_<<vars, hashvars>> PROVE [Next]_vars
<1>1. CASE HashNext
  <2>1. CASE TableNext
    BY <2>1 DEF TableNext, PutObject, Next
  <2>2. CASE Next
    BY <2>2
  <2> QED BY <1>1, <2>1, <2>2 DEF HashNext
<1>2. CASE UNCHANGED <<vars, hashvars>>
  BY <1>2
<1> QED BY <1>1, <1>2

\* The list of a table is a list of list.c: what is proved of one holds of the
\* other.
THEOREM TableIsList == HashSpec => Spec
<1>1. HashInit => Init
  BY DEF HashInit
<1> QED BY <1>1, HashSteps, PTL DEF HashSpec, Spec

\* An empty table satisfies the invariant.
LEMMA HashInitInv == HashInit => HashInv
<1> SUFFICES ASSUME HashInit PROVE HashInv
  OBVIOUS
<1>1. ListInv
  BY ListInit DEF HashInit
<1>2. DOMAIN object = {} /\ DOMAIN heap = {} /\ pairs = [s \in Slot |-> << >>]
  BY DEF HashInit, Init, Nothing
<1>3. object \in [DOMAIN object -> Id]
  BY <1>2 DEF HashInit, Nothing
<1>4. Objects(object, heap)
  BY <1>2, <1>3 DEF Objects
<1>5. \A slot \in Slot : InSlot(pairs[slot], slot, object, heap)
  BY <1>2 DEF InSlot
<1>6. pairs \in [Slot -> Seq(Pair)]
  BY <1>2
<1> QED BY <1>1, <1>4, <1>5, <1>6 DEF HashInv, Stored

\* A new object with an id of its own keeps it.
LEMMA PutStored ==
  ASSUME Wired, Stored, PutObject PROVE Stored'
<1>1. PICK o \in Payload : list_put(o) /\ ~Misled
  BY DEF PutObject, Put
<1>2. PICK i \in Item : /\ i \notin DOMAIN heap /\ i = stop'
                        /\ DOMAIN heap' = DOMAIN heap \cup {i} /\ heap'[i].val = o
                        /\ \A j \in DOMAIN heap : heap'[j].val = heap[j].val
  BY <1>1, PutWired
<1>3. PICK id \in Id : /\ \A other \in DOMAIN object : object[other] # id
                       /\ object' = With(object, o, id)
                       /\ hash_put(object', o, i)
  BY <1>2 DEF PutObject
<1>4. o \notin DOMAIN object
  BY <1>2 DEF PutObject
<1>5. /\ DOMAIN object' = DOMAIN object \cup {o} /\ object'[o] = id
      /\ \A q \in DOMAIN object : object'[q] = object[q]
      /\ object' = [q \in DOMAIN object' |-> object'[q]]
  <2>1. object' = With(object, o, id)
    BY <1>3
  <2>2. DOMAIN object' = DOMAIN object \cup {o} /\ object'[o] = id
    BY <2>1 DEF With
  <2>3. \A q \in DOMAIN object : object'[q] = object[q]
    BY <1>4, <2>1 DEF With
  <2>4. object' = [q \in DOMAIN object' |-> object'[q]]
    BY <2>1 DEF With
  <2> QED BY <2>2, <2>3, <2>4
<1>6. Objects(object', heap')
  <2>1. /\ DOMAIN object \subseteq Payload /\ object \in [DOMAIN object -> Id]
        /\ \A q, r \in DOMAIN object : object[q] = object[r] => q = r
        /\ \A j \in DOMAIN heap : heap[j].val \in DOMAIN object
        /\ \A q \in DOMAIN object : \E j \in DOMAIN heap : heap[j].val = q
        /\ \A j, k \in DOMAIN heap : heap[j].val = heap[k].val => j = k
    BY DEF Stored, Objects
  <2>2. DOMAIN object' \subseteq Payload /\ object' \in [DOMAIN object' -> Id]
    BY <1>5, <2>1
  <2>3. \A q, r \in DOMAIN object' : object'[q] = object'[r] => q = r
    BY <1>3, <1>5, <2>1
  <2>4. \A j \in DOMAIN heap' : heap'[j].val \in DOMAIN object'
    BY <1>2, <1>5, <2>1
  <2>5. \A q \in DOMAIN object' : \E j \in DOMAIN heap' : heap'[j].val = q
    BY <1>2, <1>5, <2>1
  <2>6. \A j, k \in DOMAIN heap' : heap'[j].val = heap'[k].val => j = k
    BY <1>2, <1>4, <2>1
  <2> QED BY <2>2, <2>3, <2>4, <2>5, <2>6 DEF Objects
<1>7. \A slot \in Slot : /\ InSlot(pairs[slot], slot, object, heap)
                         /\ pairs[slot] \in Seq(Pair)
  BY DEF Stored
<1>8. PICK x : x = [key |-> o, value |-> i]
  OBVIOUS
<1>9. /\ index[id] \in Slot
      /\ pairs' = [pairs EXCEPT ![index[id]] = Append(pairs[index[id]], x)]
  <2>1. index[id] \in Slot
    BY HashAssumption
  <2>2. PICK p : p = hash_getpair(pairs[index[id]], object', id)
    OBVIOUS
  <2>3. \A k \in 1..Len(pairs[index[id]]) : object'[pairs[index[id]][k].key] # id
    BY <1>3, <1>5, <1>7, <2>1 DEF InSlot
  <2>4. p = 0
    BY <1>7, <2>1, <2>2, <2>3, PairFound
  <2> QED BY <1>3, <1>5, <1>8, <2>1, <2>2, <2>4 DEF hash_put
<1>10. x \in Pair
  BY <1>8 DEF Pair
<1>11. pairs' \in [Slot -> Seq(Pair)]
  <2>1. Append(pairs[index[id]], x) \in Seq(Pair)
    BY <1>7, <1>9, <1>10, AppendProperties
  <2> QED BY <1>9, <2>1 DEF Stored
<1>12. ASSUME NEW slot \in Slot PROVE InSlot(pairs'[slot], slot, object', heap')
  <2>1. /\ index[id] # slot => InSlot(pairs[slot], slot, object', heap')
        /\ index[id] = slot => InSlot(Append(pairs[slot], x), slot, object', heap')
    BY <1>2, <1>3, <1>4, <1>7, <1>8, SlotPut
  <2>2. pairs'[slot] = IF slot = index[id] THEN Append(pairs[slot], x) ELSE pairs[slot]
    BY <1>9 DEF Stored
  <2> QED BY <2>1, <2>2
<1> QED BY <1>6, <1>11, <1>12 DEF Stored

\* Deleting an object, its pair and its item does.
LEMMA DelStored ==
  ASSUME Wired, Stored, NEW i \in DOMAIN heap, list_del(i), DelObject(i) PROVE Stored'
<1>1. PICK o : o = heap[i].val
  OBVIOUS
<1>2. /\ DOMAIN heap' = DOMAIN heap \ {i}
      /\ \A j \in DOMAIN heap' : heap'[j].val = heap[j].val
  BY DelWired
<1>3. hash_del(object, object[o]) /\ object' = Without(object, {o})
  BY <1>1 DEF DelObject
<1>4. /\ DOMAIN object' = DOMAIN object \ {o}
      /\ \A q \in DOMAIN object' : object'[q] = object[q]
      /\ object' = [q \in DOMAIN object' |-> object'[q]]
  BY <1>3 DEF Without
<1>5. /\ DOMAIN object \subseteq Payload /\ object \in [DOMAIN object -> Id]
      /\ \A q, r \in DOMAIN object : object[q] = object[r] => q = r
      /\ \A j \in DOMAIN heap : heap[j].val \in DOMAIN object
      /\ \A q \in DOMAIN object : \E j \in DOMAIN heap : heap[j].val = q
      /\ \A j, k \in DOMAIN heap : heap[j].val = heap[k].val => j = k
  BY DEF Stored, Objects
<1>6. Objects(object', heap')
  <2>1. DOMAIN object' \subseteq Payload /\ object' \in [DOMAIN object' -> Id]
    BY <1>4, <1>5
  <2>2. \A q, r \in DOMAIN object' : object'[q] = object'[r] => q = r
    BY <1>4, <1>5
  <2>3. \A j \in DOMAIN heap' : heap'[j].val \in DOMAIN object'
    BY <1>1, <1>2, <1>4, <1>5
  <2>4. \A q \in DOMAIN object' : \E j \in DOMAIN heap' : heap'[j].val = q
    BY <1>1, <1>2, <1>4, <1>5
  <2>5. \A j, k \in DOMAIN heap' : heap'[j].val = heap'[k].val => j = k
    BY <1>2, <1>5
  <2> QED BY <2>1, <2>2, <2>3, <2>4, <2>5 DEF Objects
<1>7. \A slot \in Slot : /\ InSlot(pairs[slot], slot, object, heap)
                         /\ pairs[slot] \in Seq(Pair)
  BY DEF Stored
<1>8. o \in DOMAIN object /\ object[o] \in Id
  BY <1>1, <1>5
<1>9. PICK at : at = index[object[o]]
  OBVIOUS
<1>10. at \in Slot
  BY <1>8, <1>9, HashAssumption
<1>11. PICK p : p = hash_getpair(pairs[at], object, object[o])
  OBVIOUS
<1>12. p \in 1..Len(pairs[at]) /\ pairs[at][p].key = o
  <2>1. \E k \in 1..Len(pairs[at]) : pairs[at][k].key = o
    BY <1>7, <1>8, <1>9, <1>10 DEF InSlot
  <2>2. p \in 1..Len(pairs[at]) /\ object[pairs[at][p].key] = object[o]
    BY <1>7, <1>10, <1>11, <2>1, PairFound
  <2>3. pairs[at][p].key \in DOMAIN object
    BY <1>7, <1>10, <2>2 DEF InSlot
  <2> QED BY <1>5, <1>8, <2>2, <2>3
<1>13. pairs' = [pairs EXCEPT ![at] = RemoveAt(pairs[at], p)]
  <2>1. p # 0
    BY <1>12
  <2> QED BY <1>3, <1>9, <1>11, <2>1 DEF hash_del
<1>14. pairs' \in [Slot -> Seq(Pair)]
  <2>1. RemoveAt(pairs[at], p) \in Seq(Pair)
    BY <1>7, <1>10, <1>12, Removed
  <2> QED BY <1>10, <1>13, <2>1 DEF Stored
<1>15. ASSUME NEW slot \in Slot PROVE InSlot(pairs'[slot], slot, object', heap')
  <2>1. /\ at # slot => InSlot(pairs[slot], slot, object', heap')
        /\ at = slot => InSlot(RemoveAt(pairs[slot], p), slot, object', heap')
    <3>1. /\ InSlot(pairs[slot], slot, object, heap) /\ Objects(object, heap)
          /\ Freed(heap, heap', i, o)
      BY <1>1, <1>2, <1>7 DEF Stored, Freed
    <3>2. object' = Without(object, {o})
      BY <1>3
    <3>3. ASSUME at # slot PROVE InSlot(pairs[slot], slot, object', heap')
      BY <1>9, <3>1, <3>2, <3>3, SlotDel
    <3>4. ASSUME at = slot PROVE InSlot(RemoveAt(pairs[slot], p), slot, object', heap')
      <4>1. p \in 1..Len(pairs[slot]) /\ pairs[slot][p].key = o
        BY <1>12, <3>4
      <4> QED BY <3>1, <3>2, <4>1, SlotDel
    <3> QED BY <3>3, <3>4
  <2>2. pairs'[slot] = IF slot = at THEN RemoveAt(pairs[slot], p) ELSE pairs[slot]
    BY <1>10, <1>13 DEF Stored
  <2> QED BY <2>1, <2>2
<1> QED BY <1>6, <1>14, <1>15 DEF Stored

\* Every step keeps the invariant.
LEMMA HashNextInv == HashInv /\ [HashNext]_<<vars, hashvars>> => HashInv'
<1> SUFFICES ASSUME HashInv, [HashNext]_<<vars, hashvars>> PROVE HashInv'
  OBVIOUS
<1>1. ListInv'
  BY HashSteps, ListNext DEF HashInv
<1>2. Wired /\ Cursor
  BY DEF HashInv, ListInv
<1>3. hashed' = hashed
  BY DEF HashNext, hashvars
<1>4. ASSUME Stored, heap' = heap, UNCHANGED <<object, pairs>> PROVE Stored'
  BY <1>4 DEF Stored, Objects, InSlot
<1>5. ASSUME hashed, Stored, HashNext PROVE Stored'
  <2>1. CASE PutObject
    BY <1>2, <1>5, <2>1, PutStored
  <2>2. CASE (Del \/ SweepStep) /\ \E i \in Deleted : DelObject(i)
    <3>1. PICK i \in Deleted : DelObject(i)
      BY <2>2
    <3>2. \E j \in DOMAIN heap : list_del(j)
      <4>1. CASE Del
        BY <4>1 DEF Del
      <4>2. CASE SweepStep
        <5>1. PICK p \in 1..counter : Round(p)
          BY <1>2, <4>2, StepIsRound
        <5>2. sweep.i \in DOMAIN heap
          BY <1>2, <5>1, Link DEF Round
        <5>3. ~ UNCHANGED list
          BY <3>1 DEF Deleted, list
        <5> QED BY <5>1, <5>2, <5>3 DEF Round
      <4> QED BY <2>2, <4>1, <4>2
    <3>3. PICK j \in DOMAIN heap : list_del(j)
      BY <3>2
    <3>4. DOMAIN heap' = DOMAIN heap \ {j}
      BY <1>2, <3>3, DelWired
    <3>5. i = j
      BY <3>1, <3>4 DEF Deleted
    <3> QED BY <1>2, <1>5, <3>1, <3>3, <3>5, DelStored
  <2>3. CASE /\ SweepBegin \/ SweepStep \/ SweepEnd
             /\ Deleted = {} /\ UNCHANGED <<object, pairs>>
    <3>1. heap' = heap
      <4>1. CASE SweepBegin \/ SweepEnd
        BY <4>1 DEF SweepBegin, SweepEnd, list
      <4>2. CASE SweepStep
        <5>1. PICK p \in 1..counter : Round(p)
          BY <1>2, <4>2, StepIsRound
        <5>2. sweep.i \in DOMAIN heap
          BY <1>2, <5>1, Link DEF Round
        <5>3. ~ list_del(sweep.i)
          BY <1>2, <2>3, <5>2, DelWired DEF Deleted
        <5> QED BY <5>1, <5>3 DEF Round, list
      <4> QED BY <2>3, <4>1, <4>2
    <3> QED BY <1>4, <1>5, <2>3, <3>1
  <2> QED BY <1>5, <2>1, <2>2, <2>3 DEF HashNext, TableNext
<1>6. ASSUME Stored, UNCHANGED <<vars, hashvars>> PROVE Stored'
  BY <1>4, <1>6 DEF vars, hashvars
<1> QED BY <1>1, <1>3, <1>5, <1>6 DEF HashInv

\* It finds each object by its id and nothing else.
LEMMA StoredIsFindable ==
  ASSUME Stored
  PROVE  /\ \A s \in Slot : \A p \in ToSet(pairs[s]) : p.key \in DOMAIN object
         /\ \A id \in Id :
              LET item == hash_get(object, id)
              IN  IF \E o \in DOMAIN object : object[o] = id
                  THEN item \in DOMAIN heap /\ object[heap[item].val] = id
                  ELSE item = NULL
         /\ {heap[i].val : i \in DOMAIN heap} = DOMAIN object
<1>1. ASSUME NEW s \in Slot, NEW p \in ToSet(pairs[s]) PROVE p.key \in DOMAIN object
  <2>1. pairs[s] \in Seq(Pair) /\ InSlot(pairs[s], s, object, heap)
    BY DEF Stored
  <2>2. PICK k \in 1..Len(pairs[s]) : p = pairs[s][k]
    BY <2>1, LenProperties DEF ToSet
  <2> QED BY <2>1, <2>2 DEF InSlot
<1>2. ASSUME NEW id \in Id, NEW item, item = hash_get(object, id)
      PROVE  IF \E o \in DOMAIN object : object[o] = id
             THEN item \in DOMAIN heap /\ object[heap[item].val] = id
             ELSE item = NULL
  <2>1. PICK b : b = pairs[index[id]]
    OBVIOUS
  <2>2. InSlot(b, index[id], object, heap) /\ b \in Seq(Pair)
    BY <2>1, HashAssumption DEF Stored
  <2>3. PICK p : p = hash_getpair(b, object, id)
    OBVIOUS
  <2>4. item = IF p = 0 THEN NULL ELSE b[p].value
    BY <1>2, <2>1, <2>3 DEF hash_get
  <2>5. CASE p = 0
    <3>1. \A k \in 1..Len(b) : object[b[k].key] # id
      <4>1. Len(b) \in Nat /\ p \notin 1..Len(b)
        BY <2>2, <2>5, LenProperties
      <4> QED BY <2>2, <2>3, <4>1, PairFound
    <3>2. ~ \E o \in DOMAIN object : object[o] = id
      BY <2>2, <3>1 DEF InSlot
    <3> QED BY <2>4, <2>5, <3>2
  <2>6. CASE p \in 1..Len(b) /\ object[b[p].key] = id
    <3>1. /\ b[p].key \in DOMAIN object
          /\ b[p].value \in DOMAIN heap /\ heap[b[p].value].val = b[p].key
      BY <2>2, <2>6 DEF InSlot
    <3>2. item = b[p].value
      BY <2>4, <2>6
    <3> QED BY <2>6, <3>1, <3>2
  <2> QED BY <2>2, <2>3, <2>5, <2>6, PairFound
<1>3. {heap[i].val : i \in DOMAIN heap} = DOMAIN object
  <2>1. /\ \A i \in DOMAIN heap : heap[i].val \in DOMAIN object
        /\ \A o \in DOMAIN object : \E i \in DOMAIN heap : o = heap[i].val
    BY DEF Stored, Objects
  <2> QED BY <2>1
<1> QED BY <1>1, <1>2, <1>3

\* Each object of a table is found by its id and nothing else is, whatever shares
\* its bucket and whatever was deleted before; and no pair has its key in memory
\* that is free (hash.c:116), for any ids, buckets and hash function.
THEOREM AlwaysFindable == HashSpec => []Findable
<1>1. HashInv => Findable
  BY StoredIsFindable DEF HashInv, Findable
<1> QED BY <1>1, HashInitInv, HashNextInv, PTL DEF HashSpec
=============================================================================
