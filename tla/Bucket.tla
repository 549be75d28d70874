------------------------------- MODULE Bucket -------------------------------
(***************************************************************************)
(* bucket.c: the ordered list of buckets a node sorts its neighbours into. *)
(*                                                                         *)
(* A bucket list is a record [seq, stop]: seq holds the buckets in the     *)
(* order of list_next, each with its id and its list of nodes; stop is the *)
(* position of the item list->stop points to, which list_ins leaves where  *)
(* it was when it links an item behind the last one.  An id is a number of *)
(* Width bits, most significant first, so that memcmp is <.                *)
(***************************************************************************)
EXTENDS Integers, Sequences, FiniteSets, Sweeps

CONSTANTS Width,       \* bits of an id: 8 * SHA_DIGEST_LENGTH = 160
          BucketSize   \* nodes a bucket holds before it is split: 8

ASSUME BucketAssumption == Width \in Nat \ {0} /\ BucketSize \in Nat \ {0}

Id == 0 .. 2^Width - 1

\* bckt_init
NoNodes == [seq |-> <<[id |-> 0, nodes |-> << >>]>>, stop |-> 1]

-----------------------------------------------------------------------------
\* Faulty: an id equal to that of the next bucket still fits.
BestMatch_Inclusive(t, id) ==
  LET fits == {k \in 1..Len(t.seq) - 1 : id <= t.seq[k + 1].id}
  IN  IF fits = {} THEN t.stop ELSE CHOOSE k \in fits : \A m \in fits : k <= m

\* bckt_find_best_match: the first bucket whose successor has a greater id,
\* else whatever list->stop points to.
BestMatch(t, id) ==
  LET fits == {k \in 1..Len(t.seq) - 1 : id < t.seq[k + 1].id}
  IN  IF fits = {} THEN t.stop ELSE CHOOSE k \in fits : \A m \in fits : k <= m

BestNodes(t, id) == t.seq[BestMatch(t, id)].nodes

\* Faulty: only the first node of the bucket is looked at.
FindNode_FirstOnly(t, id) ==
  {p \in DOMAIN BestNodes(t, id) : p = 1 /\ BestNodes(t, id)[p].id = id}

\* bckt_find_node: the first node with this id in the best matching bucket, as
\* the set of its position there (empty: NULL).
FindNode(t, id) ==
  {p \in DOMAIN BestNodes(t, id) :
     /\ BestNodes(t, id)[p].id = id
     /\ \A q \in 1..p - 1 : BestNodes(t, id)[q].id # id}
Known(t, id) == FindNode(t, id) # {}

\* bckt_find_any_match: the best matching bucket if it has a node.  If it has
\* none the loop steps back with list_prev, which always returns NULL: with
\* one bucket it ends there, with more it dereferences NULL.
AnyMatch(t, id) ==
  IF BestNodes(t, id) # << >> THEN "bucket"
  ELSE IF Len(t.seq) = 1 THEN "NULL" ELSE "segfault"

\* bckt_put and bckt_del
InBucket(t, k, nodes) == [t EXCEPT !.seq[k].nodes = nodes]

bckt_put(t, n) ==
  IF Known(t, n.id) THEN t
  ELSE InBucket(t, BestMatch(t, n.id), Append(BestNodes(t, n.id), n))

\* The node record of id replaced by f of it, where one is found.
UpdateNode(t, id, F(_)) ==
  InBucket(t, BestMatch(t, id),
           [p \in DOMAIN BestNodes(t, id) |->
              IF p \in FindNode(t, id) THEN F(BestNodes(t, id)[p])
                                       ELSE BestNodes(t, id)[p]])

-----------------------------------------------------------------------------
\* bckt_significant_bit: the last bit of id that is set, counted from the
\* most significant one; -1 for the zero id.
SetBits(id) == {b \in 0..Width - 1 : (id \div 2^(Width - 1 - b)) % 2 = 1}
SignificantBit(id) ==
  IF id = 0 THEN -1 ELSE CHOOSE b \in SetBits(id) : \A c \in SetBits(id) : c <= b

\* Faulty: the successor does not count.
NextBit_OwnOnly(t, k) == SignificantBit(t.seq[k].id) + 1

\* bckt_compute_id: the bit behind the significant bits of the bucket and of
\* its successor, if list->stop says it has one.
NextBit(t, k) ==
  LET bit1 == SignificantBit(t.seq[k].id)
      bit2 == IF k # t.stop THEN SignificantBit(t.seq[k + 1].id) ELSE -1
  IN  (IF bit1 >= bit2 THEN bit1 ELSE bit2) + 1

ComputeId(t, k) == t.seq[k].id + 2^(Width - 1 - NextBit(t, k))

\* bckt_split finds a bucket that is too large and has a bit left to split on.
MustSplit(t, id) == /\ Len(BestNodes(t, id)) > BucketSize
                    /\ NextBit(t, BestMatch(t, id)) < Width

\* list_ins: a list_put on a list of one, else behind item k with list->stop
\* left at the same item.
Insert(t, k, b) ==
  IF Len(t.seq) <= 1
  THEN [seq |-> Append(t.seq, b), stop |-> Len(t.seq) + 1]
  ELSE [seq |-> SubSeq(t.seq, 1, k) \o <<b>> \o SubSeq(t.seq, k + 1, Len(t.seq)),
        stop |-> IF k < t.stop THEN t.stop + 1 ELSE t.stop]

\* Faulty: the nodes stay where they are.
bckt_split_NodesStay(t, id) ==
  LET k == BestMatch(t, id)
  IN  Insert(t, k, [id |-> ComputeId(t, k), nodes |-> << >>])

\* Faulty: the old bucket is emptied and gets nothing back.
bckt_split_HalfLost(t, id) ==
  LET k     == BestMatch(t, id)
      nodes == t.seq[k].nodes
      new   == [id |-> ComputeId(t, k), nodes |-> << >>]
      wide  == Insert(InBucket(t, k, << >>), k, new)
      Share(j) == Keep(nodes, {p \in DOMAIN nodes : BestMatch(wide, nodes[p].id) = j})
  IN  [wide EXCEPT !.seq = [j \in DOMAIN wide.seq |->
         IF j = k THEN wide.seq[j]
         ELSE [wide.seq[j] EXCEPT !.nodes = @ \o Share(j)]]]

\* The successful path of bckt_split: a new bucket behind the one of id, whose
\* nodes are then handed out again by best match.
bckt_split(t, id) ==
  LET k     == BestMatch(t, id)
      nodes == t.seq[k].nodes
      new   == [id |-> ComputeId(t, k), nodes |-> << >>]
      wide  == Insert(InBucket(t, k, << >>), k, new)
      Share(j) == Keep(nodes, {p \in DOMAIN nodes : BestMatch(wide, nodes[p].id) = j})
  IN  [wide EXCEPT !.seq = [j \in DOMAIN wide.seq |->
         [wide.seq[j] EXCEPT !.nodes = @ \o Share(j)]]]

-----------------------------------------------------------------------------
\* All nodes of the list, bucket by bucket.
Places(t) == UNION {{k} \X DOMAIN t.seq[k].nodes : k \in DOMAIN t.seq}
=============================================================================
