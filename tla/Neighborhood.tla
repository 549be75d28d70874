---------------------------- MODULE Neighborhood ----------------------------
(***************************************************************************)
(* neighborhood.c on top of bucket.c: the neighbours of one node, as the   *)
(* packets it receives (nbhd_put, nbhd_ponged, the queries) and its cron   *)
(* job (nbhd_ping, nbhd_find, nbhd_expire, nbhd_split) change them.        *)
(*                                                                         *)
(* Times are kept as "the deadline has passed": time_ping and time_find    *)
(* are set 4 to 6 minutes ahead at random and compared with the clock      *)
(* only, so each may pass at any moment after it is set (Elapse).  pinged  *)
(* is only compared with 0 and with PingLimit and is kept up to PingLimit. *)
(***************************************************************************)
EXTENDS Bucket

CONSTANTS OwnId,      \* the ids this node may have been given (conf->node_id)
          Peer,       \* the ids in the packets to a node, by its own id
          Addr,       \* their addresses
          PingLimit,  \* unanswered pings that make a node bad: 4
          MaxBuckets  \* bound: no split while there are this many buckets

ASSUME NeighborhoodAssumption ==
  /\ OwnId \subseteq Id /\ OwnId # {} /\ Peer \in [OwnId -> SUBSET Id]
  /\ PingLimit \in Nat \ {0, 1} /\ MaxBuckets \in Nat

VARIABLES
  node_id,   \* conf->node_id
  nbhd,      \* the bucket list
  mode       \* "run"; "split": inside the loop of nbhd_split, under the mutex;
             \* "segfault": the process has dereferenced NULL

vars == <<node_id, nbhd, mode>>

Node == [id : Peer[node_id], addr : Addr, pinged : 0..PingLimit,
         ping_due : BOOLEAN, find_due : BOOLEAN]

NodeAt(place) == nbhd.seq[place[1]].nodes[place[2]]
Stored == {NodeAt(place).id : place \in Places(nbhd)}

nbhd_empty == \A k \in DOMAIN nbhd.seq : nbhd.seq[k].nodes = << >>

Init == /\ node_id \in OwnId
        /\ nbhd = NoNodes
        /\ mode = "run"

-----------------------------------------------------------------------------
(* Packets *)

NewNode(id, addr) ==
  [id |-> id, addr |-> addr, pinged |-> 1, ping_due |-> FALSE, find_due |-> FALSE]

\* The bucket list after nbhd_put: of the sender of every packet, and of every
\* node listed in a reply.
WithNode(t, me, id, addr) ==
  IF id = me THEN t
  ELSE IF Known(t, id)
       THEN UpdateNode(t, id, LAMBDA n : [n EXCEPT !.addr = addr])
       ELSE bckt_put(t, NewNode(id, addr))

nbhd_put(id, addr) ==
  /\ mode = "run"
  /\ nbhd' = WithNode(nbhd, node_id, id, addr)
  /\ UNCHANGED <<node_id, mode>>

\* An answered ping.  Nothing happens if the node is not known (any more).
nbhd_ponged(id, addr) ==
  /\ mode = "run"
  /\ nbhd' = UpdateNode(nbhd, id, LAMBDA n :
       [n EXCEPT !.pinged = 0, !.ping_due = FALSE, !.addr = addr])
  /\ UNCHANGED <<node_id, mode>>

\* nbhd_send, nbhd_lookup and nbhd_announce read the nodes that suit id.
nbhd_query(id) ==
  /\ mode = "run"
  /\ mode' = IF AnyMatch(nbhd, id) = "segfault" THEN "segfault" ELSE "run"
  /\ UNCHANGED <<node_id, nbhd>>

-----------------------------------------------------------------------------
(* Cron *)

Capped(n) == IF n < PingLimit THEN n ELSE PingLimit

\* Every node whose deadline has passed counts one more ping; those behind
\* the first BucketSize of their bucket are not even sent it.
Pinged(n) == IF n.ping_due
             THEN [n EXCEPT !.pinged = Capped(@ + 1), !.ping_due = FALSE]
             ELSE n

nbhd_ping ==
  /\ mode = "run"
  /\ ~nbhd_empty
  /\ nbhd' = [nbhd EXCEPT !.seq = [k \in DOMAIN nbhd.seq |->
       [nbhd.seq[k] EXCEPT !.nodes = [p \in DOMAIN @ |-> Pinged(@[p])]]]]
  /\ UNCHANGED <<node_id, mode>>

\* nbhd_find_myself and nbhd_find_random
nbhd_find(id) ==
  /\ mode = "run"
  /\ ~nbhd_empty
  /\ LET nodes == BestNodes(nbhd, id) IN
       /\ mode' = IF AnyMatch(nbhd, id) = "segfault" THEN "segfault" ELSE "run"
       /\ nbhd' = InBucket(nbhd, BestMatch(nbhd, id),
                    [p \in DOMAIN nodes |-> [nodes[p] EXCEPT !.find_due = FALSE]])
  /\ UNCHANGED node_id

IsBad(n) == n.pinged >= PingLimit
Bad(nodes) == {n \in {nodes[p] : p \in DOMAIN nodes} : IsBad(n)}

nbhd_expire ==
  /\ mode = "run"
  /\ nbhd' = [nbhd EXCEPT !.seq = [k \in DOMAIN nbhd.seq |->
       [nbhd.seq[k] EXCEPT !.nodes = CountedSweep(@, Bad(@))]]]
  /\ UNCHANGED <<node_id, mode>>

\* nbhd_split: bckt_split for the own id until it returns 0.
nbhd_split ==
  /\ mode = "run"
  /\ ~nbhd_empty
  /\ Len(nbhd.seq) < MaxBuckets
  /\ mode' = "split"
  /\ UNCHANGED <<node_id, nbhd>>

SplitRound ==
  /\ mode = "split"
  /\ Len(nbhd.seq) < MaxBuckets
  /\ MustSplit(nbhd, node_id)
  /\ nbhd' = bckt_split(nbhd, node_id)
  /\ UNCHANGED <<node_id, mode>>

SplitReturns ==
  /\ mode = "split"
  /\ ~MustSplit(nbhd, node_id)
  /\ mode' = "run"
  /\ UNCHANGED <<node_id, nbhd>>

-----------------------------------------------------------------------------
\* The deadlines of one node pass.
Elapse ==
  /\ mode = "run"
  /\ \E place \in Places(nbhd), field \in {"ping_due", "find_due"} :
       nbhd' = [nbhd EXCEPT !.seq[place[1]].nodes[place[2]][field] = TRUE]
  /\ UNCHANGED <<node_id, mode>>

Packet == \E id \in Peer[node_id], addr \in Addr : nbhd_put(id, addr) \/ nbhd_ponged(id, addr)
Query == \E id \in Id : nbhd_query(id)
Cron == \/ nbhd_ping \/ nbhd_expire
        \/ \E id \in Id : nbhd_find(id)
        \/ nbhd_split \/ SplitRound \/ SplitReturns

Next == Packet \/ Query \/ Cron \/ Elapse

Spec == Init /\ [][Next]_vars

-----------------------------------------------------------------------------
TypeOK ==
  /\ node_id \in OwnId
  /\ mode \in {"run", "split", "segfault"}
  /\ \A k \in DOMAIN nbhd.seq : nbhd.seq[k].id \in Id /\ nbhd.seq[k].nodes \in Seq(Node)
  /\ nbhd.stop \in DOMAIN nbhd.seq

\* Every node is in the bucket that bckt_find_best_match names for its id.  A
\* pong, a new address, a repeated packet and the expiry all reach a node
\* through that search alone, so a node left in another bucket by a split is
\* lost to all of them and is added a second time.  None is there twice.
NodesInPlace ==
  /\ \A place \in Places(nbhd) : BestMatch(nbhd, NodeAt(place).id) = place[1]
  /\ Cardinality(Stored) = Cardinality(Places(nbhd))

\* list->stop stays at the last bucket only if the own id is in the lower half
\* of the ids: the first split is by list_put, and the later ones, of the own
\* bucket, come in front of the last one.
LowerHalf == node_id < 2^(Width - 1)

\* The buckets are in the order of their ids, without repetition, from the
\* zero id on, and list->stop is the last of them.
Partition ==
  /\ nbhd.seq[1].id = 0
  /\ \A k \in 1..Len(nbhd.seq) - 1 : nbhd.seq[k].id < nbhd.seq[k + 1].id
  /\ nbhd.stop = Len(nbhd.seq)

\* Leading bits two ids have in common.
Common(a, b) == Cardinality({n \in 1..Width : a \div 2^(Width - n) = b \div 2^(Width - n)})

\* The ids of the own bucket share a longer prefix with the own id (are closer
\* by XOR) than all other ids.
OwnBucketIsClosest ==
  LET own  == BestMatch(nbhd, node_id)
      near == {id \in Id : BestMatch(nbhd, id) = own}
  IN  \A in \in near, out \in Id \ near : Common(in, node_id) > Common(out, node_id)

\* Splitting keeps the table a Kademlia table: the buckets partition the ids,
\* and nbhd_find_myself and the answers to FIND, which give the nodes of one
\* bucket for the closest ones, are right to do so.
KademliaTable == LowerHalf => Partition /\ OwnBucketIsClosest

\* A node leaves the table only when it has PingLimit pings unanswered: no
\* split, no update of another node and no expiry of a neighbour drops it.
NobodyLost ==
  [][\A place \in Places(nbhd) :
       NodeAt(place).id \notin Stored' => IsBad(NodeAt(place))]_vars

\* "Do as many splits as neccessary" (neighborhood.c:110): there is one split
\* per bit at most, so that the loop, which holds the mutex, ends.
SplitsAreBounded == Len(nbhd.seq) <= Width + 1

\* ... as it is for own ids in the lower half.
LowerSplitsAreBounded == LowerHalf => SplitsAreBounded

\* "This bucket is empty: Find another one." (bucket.c:167): a search that
\* meets an empty bucket goes on to another one.
EmptyBucketIsSkipped == mode # "segfault"
=============================================================================
