----------------------------- MODULE P2pProofs -----------------------------
(***************************************************************************)
(* What a network of masala nodes promises whatever packets are lost,      *)
(* reordered and repeated, for any number of nodes, hosts, lookups and     *)
(* announcements and any way it may begin; and, of the workers that handle *)
(* the packets of one node, for every number of them and any traffic: one  *)
(* reads at a time, and the tables are freed last.                         *)
(***************************************************************************)
EXTENDS P2p, Udp, TLAPS

\* n has known m: it does, or it has deleted it as bad.
Knew(n, m) == m \in known[n] \/ gone[n][m] > 0

\* n has put m into its bucket after the i-th time it deleted it.
Met(n, m, i) == i \in Nat /\ i <= gone[n][m] /\ (i = gone[n][m] => m \in known[n])

\* What a packet says is true of the state it was sent in, and stays true: a
\* reply comes from a node that has known whom it answers, an announcement
\* from a node that has the host, and what is about a lookup is about the host
\* the lookup was started for.
Truthful(p) ==
  /\ p.to \in Node /\ p.from \in Node \ {p.to} /\ p.nodes \subseteq Node
  /\ p.q \notin Request => Knew(p.from, p.to)
  /\ p.q = "a" => p.f \in Host /\ hostname[p.from] = p.f
  /\ p.q = "A" => hostname[p.to] \in Host
  /\ p.q = "l" => p.l \in DOMAIN lkp /\ p.f = lkp[p.l].host
  /\ p.q = "V" => /\ p.l \in DOMAIN lkp /\ p.addr \in Node
                  /\ hostname[p.addr] = lkp[p.l].host

\* A key whose request will not be sent again: the node has been met, the ping is
\* not due any more, or the search remembers that it has asked.
Spent(k) ==
  \/ \E q \in {"p", "f"}, n, m \in Node : \E i : k = Key(q, n, m, Greeting, i) /\ Met(n, m, i)
  \/ \E q \in {"p", "f"}, n \in Node, m \in Node \cup {Everyone} :
       \E i : k = Key(q, n, m, Cron, i) /\ k \notin due
  \/ \E n, m \in Node :
       \E i : k = Key("p", n, m, Bootstrap, i) /\ Key("p", n, Everyone, Cron, i) \notin due
  \/ \E n \in Node, l \in DOMAIN announce : \E m \in announce[l].asked : k = Key("a", n, m, l, 0)
  \/ \E n \in Node, l \in DOMAIN lkp : \E m \in lkp[l].asked : k = Key("l", n, m, l, 0)

Sent ==
  /\ \A p \in net : Truthful(p)
  /\ \A k \in DOMAIN requests : Spent(k) /\ requests[k] = 1
  /\ cache \in [Node -> SUBSET DOMAIN requests]

Counters == [Node -> [Node -> Nat]]

Known ==
  /\ known \in [Node -> SUBSET Node] /\ pinged \in Counters /\ gone \in Counters
  /\ \A n \in Node : n \notin known[n]

LkpRecord ==
  [node : Node, host : Host, asked : SUBSET Node, state : {"open", "found", "timeout"},
   addr : Node, trail : SUBSET (Node \X Node), holders : SUBSET Node]

Lookups ==
  /\ ids \subseteq LkpId
  /\ DOMAIN lkp \cap ids = {} /\ DOMAIN announce \cap ids = {}
  /\ \A l \in DOMAIN lkp : lkp[l] \in LkpRecord
  /\ \A l \in DOMAIN announce :
       announce[l] \in [node : Node, asked : SUBSET Node, open : BOOLEAN]

Stored ==
  /\ DOMAIN db = Node
  /\ \A n \in Node : \A h \in DOMAIN db[n] :
       h \in Host /\ db[n][h] \in Node /\ hostname[db[n][h]] = h

IInv == Sent /\ Known /\ Lookups /\ Stored /\ GoodIsMutual /\ AnswersAreTrue

LEMMA IInvInitially == Init => IInv
<1> SUFFICES ASSUME Init PROVE IInv
  OBVIOUS
<1>1. PICK s \in Beginning :
        /\ known = [n \in Node |-> {m \in Node : <<n, m>> \in s.acquainted}]
        /\ ids = s.ids /\ db = s.db
  BY DEF Init
<1>2. /\ s.ids \subseteq LkpId
      /\ \A n, m \in Node : <<n, m>> \in s.acquainted => n # m /\ <<m, n>> \in s.acquainted
      /\ DOMAIN s.db = Node
      /\ \A n \in Node : \A h \in DOMAIN s.db[n] :
           h \in Host /\ s.db[n][h] \in Node /\ hostname[s.db[n][h]] = h
  BY P2pAssumption
<1>3. Known
  BY <1>1, <1>2 DEF Init, Known, Counters
<1>5. GoodIsMutual
  BY <1>1, <1>2 DEF GoodIsMutual, Good
<1>6. Stored
  BY <1>1, <1>2 DEF Stored
<1>4. Sent /\ Lookups /\ AnswersAreTrue
  BY <1>1, <1>2 DEF Init, Sent, Lookups, AnswersAreTrue, Nothing
<1> QED BY <1>3, <1>4, <1>5, <1>6 DEF IInv

-----------------------------------------------------------------------------
(* What all steps have in common: only bad nodes are forgotten, what is     *)
(* done is not due again, searches remember whom they have asked and what   *)
(* for.                                                                     *)

NbhdGrows ==
  /\ gone \in Counters /\ gone' \in Counters
  /\ \A n, m \in Node : /\ gone[n][m] <= gone'[n][m]
                        /\ m \in known[n] => m \in known'[n] \/ gone[n][m] < gone'[n][m]

Grows ==
  /\ NbhdGrows
  /\ due' \subseteq due
  /\ \A l \in DOMAIN announce :
       l \in DOMAIN announce' /\ announce[l].asked \subseteq announce'[l].asked
  /\ \A l \in DOMAIN lkp :
       /\ l \in DOMAIN lkp' /\ lkp[l].asked \subseteq lkp'[l].asked
       /\ lkp'[l].host = lkp[l].host

LEMMA NbhdStays ==
  ASSUME Known, \A n \in Node : known[n] \subseteq known'[n], gone' = gone PROVE NbhdGrows
<1>1. \A n, m \in Node : gone[n][m] \in Nat
  BY DEF Known, Counters
<1> QED BY <1>1 DEF NbhdGrows, Known

\* Whom a node has known it has known for ever.
LEMMA KnewStays ==
  ASSUME NbhdGrows, NEW n \in Node, NEW m \in Node
  PROVE  Knew(n, m) => Knew(n, m)'
<1>1. gone[n][m] \in Nat /\ gone'[n][m] \in Nat /\ gone[n][m] <= gone'[n][m]
  BY DEF NbhdGrows, Counters
<1>2. m \in known[n] => m \in known'[n] \/ gone[n][m] < gone'[n][m]
  BY DEF NbhdGrows
<1> QED BY <1>1, <1>2 DEF Knew

LEMMA MetStays ==
  ASSUME NbhdGrows, NEW n \in Node, NEW m \in Node, NEW i, Met(n, m, i)
  PROVE  Met(n, m, i)'
<1>1. gone[n][m] \in Nat /\ gone'[n][m] \in Nat /\ gone[n][m] <= gone'[n][m]
  BY DEF NbhdGrows, Counters
<1>2. m \in known[n] => m \in known'[n] \/ gone[n][m] < gone'[n][m]
  BY DEF NbhdGrows
<1> QED BY <1>1, <1>2 DEF Met

LEMMA SpentStays == Grows => \A k : Spent(k) => Spent(k)'
BY MetStays DEF Grows, Spent

LEMMA TruthfulStays == Grows => \A p : Truthful(p) => Truthful(p)'
BY KnewStays DEF Grows, Truthful

\* What is true of all packets that are sent, and keys that were not used
\* before, keep what is known of the packets and the requests.
LEMMA Sends ==
  ASSUME Sent, Grows, NEW n \in Node, NEW packets, NEW used, NEW rest \in SUBSET net,
         Send(n, packets, used, rest),
         \A p \in packets : Truthful(p)',
         \A k \in KeysOf(packets) : ~Spent(k) /\ Spent(k)'
  PROVE  Sent'
<1>1. \A p \in net' : Truthful(p)'
  BY TruthfulStays DEF Send, Sent
<1>2. DOMAIN requests' = DOMAIN requests \cup KeysOf(packets)
  BY DEF Send
<1>3. \A k \in DOMAIN requests' : Spent(k)' /\ requests'[k] = 1
  <2>1. ASSUME NEW k \in DOMAIN requests PROVE Spent(k)' /\ requests'[k] = 1
    <3>1. k \notin KeysOf(packets) /\ requests[k] = 1
      BY DEF Sent
    <3>2. requests'[k] = requests[k] + 0
      BY <3>1 DEF Send
    <3> QED BY <3>1, <3>2, SpentStays DEF Sent
  <2>2. ASSUME NEW k \in KeysOf(packets) PROVE Spent(k)' /\ requests'[k] = 1
    <3>1. k \notin DOMAIN requests
      BY DEF Sent
    <3>2. requests'[k] = 0 + 1
      BY <3>1 DEF Send
    <3> QED BY <3>2
  <2> QED BY <1>2, <2>1, <2>2
<1>4. cache' \in [Node -> SUBSET DOMAIN requests']
  BY <1>2 DEF Send, Sent
<1> QED BY <1>1, <1>3, <1>4 DEF Sent

\* Nothing is sent.
LEMMA NothingSent ==
  ASSUME Sent, Grows, UNCHANGED <<net, cache, requests>>
  PROVE  Sent'
BY SpentStays, TruthfulStays DEF Sent

-----------------------------------------------------------------------------
(* nbhd_put *)

LEMMA Remembers ==
  ASSUME Known, NEW n \in Node, NEW ms \in SUBSET Node, NEW answered, Remember(n, ms, answered)
  PROVE  /\ known' \in [Node -> SUBSET Node]
         /\ \A m \in Node : known[m] \subseteq known'[m] /\ m \notin known'[m]
         /\ ms \ {n} \subseteq known'[n]
         /\ pinged' \in Counters /\ gone' = gone
         /\ NbhdGrows
<1>1. /\ known' \in [Node -> SUBSET Node]
      /\ \A m \in Node : known[m] \subseteq known'[m] /\ m \notin known'[m]
      /\ ms \ {n} \subseteq known'[n]
      /\ gone' = gone
  BY DEF Known, Remember, NewAmong
<1>2. Unanswered(n, ms, answered) \in [Node -> Nat]
  BY DEF Unanswered, Known, Counters
<1>3. pinged' \in Counters
  BY <1>2 DEF Remember, Known, Counters
<1>4. NbhdGrows
  BY <1>1, NbhdStays
<1> QED BY <1>1, <1>3, <1>4

\* Greetings go to nodes that were not known before and are known after, under
\* keys that were not used when they were met before.
LEMMA Greets ==
  ASSUME Known, NEW n \in Node, NEW ms \in SUBSET Node, NEW answered, Remember(n, ms, answered)
  PROVE  /\ \A p \in Greetings(n, ms) : Truthful(p)'
         /\ \A k \in KeysOf(Greetings(n, ms)) : ~Spent(k) /\ Spent(k)'
<1>1. \A m \in NewAmong(n, ms) :
        /\ m \in Node \ {n} /\ m \notin known[n] /\ m \in known'[n]
        /\ gone[n][m] \in Nat /\ gone' = gone
  BY DEF Known, Remember, NewAmong, Counters
<1>2. ASSUME NEW p \in Greetings(n, ms)
      PROVE  /\ Truthful(p)'
             /\ \E q \in {"p", "f"}, m \in NewAmong(n, ms) :
                  p.key = Key(q, n, m, Greeting, gone[n][m])
  <2>1. PICK m \in NewAmong(n, ms) : p \in {send_ping(n, m, Greeting, gone[n][m]),
                                            send_find(n, m, Greeting, gone[n][m])}
    BY DEF Greetings
  <2>2. /\ p.from = n /\ p.to = m /\ p.nodes = {} /\ p.q \in {"p", "f"}
        /\ p.key = Key(p.q, n, m, Greeting, gone[n][m])
    BY <2>1 DEF send_ping, send_find, Packet
  <2>3. Truthful(p)'
    BY <1>1, <2>2 DEF Truthful, Request
  <2> QED BY <2>2, <2>3
<1>3. ASSUME NEW k \in KeysOf(Greetings(n, ms)) PROVE ~Spent(k) /\ Spent(k)'
  <2>1. PICK q \in {"p", "f"}, m \in NewAmong(n, ms) : k = Key(q, n, m, Greeting, gone[n][m])
    BY <1>2 DEF KeysOf
  <2>2. ~Met(n, m, gone[n][m])
    BY <1>1 DEF Met
  <2>3. ~Spent(k)
    BY <2>1, <2>2 DEF Spent, Key, Greeting, Cron, Bootstrap
  <2>4. Met(n, m, gone[n][m])'
    BY <1>1 DEF Met
  <2>5. (gone[n][m])' = gone[n][m]
    BY <1>1
  <2>6. k = Key(q, n, m, Greeting, gone[n][m]) /\ n \in Node /\ m \in Node
    BY <1>1, <2>1
  <2>7. Spent(k)'
    BY <2>4, <2>5, <2>6 DEF Spent
  <2> QED BY <2>3, <2>7
<1> QED BY <1>2, <1>3

-----------------------------------------------------------------------------
(* The handlers *)

\* A handler remembers the nodes ms, the sender among them, and sends more than
\* greetings.
LEMMA Handles ==
  ASSUME IInv, NEW p \in net, NEW rest \in SUBSET net, NEW ms \in SUBSET Node,
         p.from \in ms, NEW more, NEW used, NEW answered,
         Remember(p.to, ms, answered), Send(p.to, Greetings(p.to, ms) \cup more, used, rest),
         Grows, \A r \in more : Truthful(r)',
         \A k \in KeysOf(more) : ~Spent(k) /\ Spent(k)'
  PROVE  Sent'
<1>1. p.to \in Node
  BY DEF IInv, Sent, Truthful
<1>2. KeysOf(Greetings(p.to, ms) \cup more) = KeysOf(Greetings(p.to, ms)) \cup KeysOf(more)
  BY DEF KeysOf
<1> DEFINE packets == Greetings(p.to, ms) \cup more
<1>3. /\ \A r \in Greetings(p.to, ms) : Truthful(r)'
      /\ \A k \in KeysOf(Greetings(p.to, ms)) : ~Spent(k) /\ Spent(k)'
  BY <1>1, Greets DEF IInv
<1>4. \A r \in packets : Truthful(r)'
  BY <1>3
<1>5. \A k \in KeysOf(packets) : ~Spent(k) /\ Spent(k)'
  BY <1>2, <1>3
<1>6. Sent /\ Send(p.to, packets, used, rest)
  BY DEF IInv
<1> HIDE DEF packets
<1> QED BY <1>1, <1>4, <1>5, <1>6, Sends

LEMMA HandlesOnly ==
  ASSUME IInv, NEW p \in net, NEW rest \in SUBSET net, NEW ms \in SUBSET Node,
         p.from \in ms, NEW used, NEW answered,
         Remember(p.to, ms, answered), Send(p.to, Greetings(p.to, ms), used, rest), Grows
  PROVE  Sent'
<1>1. p.to \in Node
  BY DEF IInv, Sent, Truthful
<1> QED BY <1>1, Greets, Sends DEF IInv

\* The nodes of a handler that only grow, with a pong of the sender or not.
LEMMA KnownStays ==
  ASSUME IInv, NEW p \in net, NEW ms \in SUBSET Node, p.from \in ms,
         NEW answered, Remember(p.to, ms, answered),
         answered = {} \/ (answered = {p.from} /\ Knew(p.from, p.to))
  PROVE  /\ Known' /\ GoodIsMutual' /\ NbhdGrows
         /\ p.from \in known'[p.to] /\ p.to \in Node
<1>1. p.to \in Node /\ p.from \in Node \ {p.to} /\ Known
  BY DEF IInv, Sent, Truthful
<1>2. /\ known' \in [Node -> SUBSET Node]
      /\ \A m \in Node : known[m] \subseteq known'[m] /\ m \notin known'[m]
      /\ p.from \in known'[p.to]
      /\ pinged' \in Counters /\ gone' = gone /\ NbhdGrows
  BY <1>1, Remembers
<1>3. ASSUME NEW n \in Node, NEW m \in Good(n)' PROVE Knew(m, n)'
  <2>1. m \in Node /\ m \in known'[n] /\ pinged'[n][m] = 0
    BY <1>2 DEF Good
  <2>2. CASE m \in Good(n)
    <3>1. Knew(m, n)
      BY <2>2 DEF IInv, GoodIsMutual, Knew
    <3> QED BY <1>2, <2>1, <3>1, KnewStays
  <2>3. CASE m \notin Good(n)
    <3>1. n = p.to
      BY <1>1, <2>1, <2>3 DEF Remember, Good, Known, Counters
    <3>2. Unanswered(p.to, ms, answered)[m] = 0
      BY <1>1, <2>1, <3>1 DEF Remember, Known, Counters
    <3>3. m \notin NewAmong(p.to, ms) => m \in known[p.to]
      BY <1>1, <2>1, <3>1 DEF Remember, Known
    <3>4. m \in answered
      BY <2>1, <2>3, <3>1, <3>2, <3>3 DEF Unanswered, Good
    <3>5. Knew(m, n)
      BY <3>1, <3>4
    <3> QED BY <1>2, <2>1, <3>5, KnewStays
  <2> QED BY <2>2, <2>3
<1>4. GoodIsMutual'
  BY <1>3 DEF GoodIsMutual, Knew
<1> QED BY <1>1, <1>2, <1>4 DEF Known

\* A reply goes from a node to one it has just remembered.
LEMMA Replies ==
  ASSUME IInv, NEW p \in net, NEW q, NEW nodes \in SUBSET Node, NEW addr,
         q \notin Request, p.from \in known'[p.to], lkp' = lkp,
         q = "A" => p.q = "a",
         q = "V" => /\ p.l \in DOMAIN lkp /\ addr \in Node
                    /\ hostname[addr] = lkp[p.l].host
  PROVE  /\ Truthful(Reply(p, q, nodes, addr))'
         /\ KeysOf({Reply(p, q, nodes, addr)}) = {}
<1> DEFINE r == Reply(p, q, nodes, addr)
<1>1. /\ r.q = q /\ r.from = p.to /\ r.to = p.from /\ r.nodes = nodes
      /\ r.l = p.l /\ r.addr = addr
  BY DEF Reply, Packet
<1>2. Truthful(p)
  BY DEF IInv, Sent
<1>3. Truthful(r)'
  BY <1>1, <1>2 DEF Truthful, Request, Knew
<1>4. KeysOf({r}) = {}
  BY <1>1 DEF KeysOf
<1> QED BY <1>3, <1>4

\* Announcements, lookups and the database are left alone.
SearchesStay == UNCHANGED <<lkp, announce, ids, db>>

LEMMA OthersStay ==
  ASSUME IInv, SearchesStay
  PROVE  Lookups' /\ Stored' /\ AnswersAreTrue'
BY DEF IInv, SearchesStay, Lookups, Stored, AnswersAreTrue

\* A request is answered, and changes the database at most.
LEMMA RequestKeepsIInv ==
  ASSUME IInv, NEW p \in net, NEW rest \in SUBSET net, UNCHANGED bounds,
         p2p_ping(p, rest) \/ p2p_find(p, rest) \/ p2p_announce(p, rest) \/ p2p_lookup(p, rest)
  PROVE  IInv'
<1>1. /\ Truthful(p) /\ p.to \in Node /\ p.from \in Node /\ Good(p.to) \subseteq Node
  BY DEF IInv, Sent, Known, Truthful, Good
<1>2. /\ UNCHANGED <<lkp, announce, ids, due>> /\ Remember(p.to, {p.from}, {})
  BY DEF p2p_ping, p2p_find, p2p_announce, p2p_lookup, bounds
<1>3. Known' /\ GoodIsMutual' /\ p.from \in known'[p.to] /\ NbhdGrows
  BY <1>1, <1>2, KnownStays
<1>4. Grows
  BY <1>2, <1>3 DEF Grows
<1>5. Lookups' /\ AnswersAreTrue'
  BY <1>2 DEF IInv, Lookups, AnswersAreTrue
<1>6. ASSUME NEW q \in {"o", "F", "A", "L", "V"}, NEW nodes \in SUBSET Node, NEW addr,
             q = "A" => p.q = "a",
             q = "V" => /\ p.l \in DOMAIN lkp /\ addr \in Node
                        /\ hostname[addr] = lkp[p.l].host,
             Send(p.to, Greetings(p.to, {p.from}) \cup {Reply(p, q, nodes, addr)}, {}, rest)
      PROVE  Sent'
  <2>1. q \notin Request
    BY DEF Request
  <2>2. /\ Truthful(Reply(p, q, nodes, addr))'
        /\ KeysOf({Reply(p, q, nodes, addr)}) = {}
    BY <1>2, <1>3, <1>6, <2>1, Replies
  <2> QED BY <1>1, <1>2, <1>4, <1>6, <2>2, Handles
<1>7. CASE p2p_ping(p, rest)
  <2>1. Sent'
    BY <1>1, <1>6, <1>7 DEF p2p_ping, send_pong
  <2>2. Stored'
    BY <1>7 DEF p2p_ping, IInv, Stored
  <2> QED BY <1>3, <1>5, <2>1, <2>2 DEF IInv
<1>8. CASE p2p_find(p, rest)
  <2>1. Sent'
    BY <1>1, <1>6, <1>8 DEF p2p_find, send_node
  <2>2. Stored'
    BY <1>8 DEF p2p_find, IInv, Stored
  <2> QED BY <1>3, <1>5, <2>1, <2>2 DEF IInv
<1>9. CASE p2p_announce(p, rest)
  <2>1. Sent'
    BY <1>1, <1>6, <1>9 DEF p2p_announce, send_node
  <2>2. p.f \in Host /\ hostname[p.from] = p.f
    BY <1>1, <1>9 DEF p2p_announce, Truthful
  <2>3. db' = [db EXCEPT ![p.to] = With(@, p.f, p.from)]
    BY <1>9 DEF p2p_announce
  <2>4. ASSUME NEW n \in Node, NEW h \in DOMAIN db'[n]
        PROVE  h \in Host /\ db'[n][h] \in Node /\ hostname[db'[n][h]] = h
    <3>1. CASE n # p.to
      BY <1>1, <2>3, <3>1 DEF IInv, Stored
    <3>2. CASE n = p.to
      <4>1. db'[n] = With(db[n], p.f, p.from)
        BY <2>3, <3>2 DEF IInv, Stored
      <4> QED BY <1>1, <2>2, <4>1 DEF IInv, Stored, With
    <3> QED BY <3>1, <3>2
  <2> QED BY <1>3, <1>5, <2>1, <2>3, <2>4 DEF IInv, Stored
<1>10. CASE p2p_lookup(p, rest)
  <2>1. p.l \in DOMAIN lkp /\ p.f = lkp[p.l].host
    BY <1>1, <1>10 DEF p2p_lookup, Truthful
  <2>2. Send(p.to, Greetings(p.to, {p.from}) \cup {Found(p)}, {}, rest)
    BY <1>10 DEF p2p_lookup
  <2>3. Sent'
    <3>1. CASE p.f \in DOMAIN db[p.to]
      <4>1. Found(p) = Reply(p, "V", {}, db[p.to][p.f])
        BY <3>1 DEF Found, send_value
      <4>2. db[p.to][p.f] \in Node /\ hostname[db[p.to][p.f]] = p.f
        BY <1>1, <3>1 DEF IInv, Stored
      <4> QED BY <1>6, <2>1, <2>2, <4>1, <4>2
    <3>2. CASE p.f \notin DOMAIN db[p.to]
      <4>1. Found(p) = Reply(p, "L", Good(p.to), p.to)
        BY <3>2 DEF Found, send_node
      <4> QED BY <1>1, <1>6, <2>2, <4>1
    <3> QED BY <3>1, <3>2
  <2>4. Stored'
    BY <1>10 DEF p2p_lookup, IInv, Stored
  <2> QED BY <1>3, <1>5, <2>3, <2>4 DEF IInv
<1> QED BY <1>7, <1>8, <1>9, <1>10

\* A reply that nobody waits for, that changes no search, or that a lookup or
\* announcement is over for.
LEMMA ReplyKeepsIInv ==
  ASSUME IInv, NEW p \in net, NEW rest \in SUBSET net, UNCHANGED bounds,
         Unexpected(p, rest) \/ p2p_pong(p, rest) \/ p2p_node_find(p, rest)
  PROVE  IInv'
<1>1. Truthful(p) /\ p.from \in Node /\ p.nodes \subseteq Node
  BY DEF IInv, Sent, Truthful
<1>2. SearchesStay /\ due' = due
  BY DEF Unexpected, p2p_pong, p2p_node_find, SearchesStay, bounds
<1>3. ASSUME NEW ms \in SUBSET Node, p.from \in ms, NEW answered,
             Remember(p.to, ms, answered), NEW used,
             Send(p.to, Greetings(p.to, ms), used, rest),
             answered = {} \/ (answered = {p.from} /\ Knew(p.from, p.to))
      PROVE  IInv'
  <2>1. Known' /\ GoodIsMutual' /\ NbhdGrows
    BY <1>3, KnownStays
  <2>2. Grows
    BY <1>2, <2>1 DEF Grows, SearchesStay
  <2>3. Sent'
    BY <1>3, <2>2, HandlesOnly
  <2> QED BY <1>2, <2>1, <2>3, OthersStay DEF IInv
<1>4. CASE Unexpected(p, rest)
  BY <1>1, <1>3, <1>4 DEF Unexpected
<1>5. CASE p2p_pong(p, rest)
  <2>1. Knew(p.from, p.to)
    BY <1>1, <1>5 DEF p2p_pong, Truthful, Request
  <2> QED BY <1>1, <1>3, <1>5, <2>1 DEF p2p_pong
<1>6. CASE p2p_node_find(p, rest)
  BY <1>1, <1>3, <1>6 DEF p2p_node_find, Named
<1> QED BY <1>4, <1>5, <1>6

\* The nodes an announcement or lookup is sent on to have not been asked.
LEMMA AsksOn ==
  ASSUME IInv, NEW p \in net, NEW search, NEW m \in Candidates(p, search)
  PROVE  m \in Node /\ m \notin search.asked /\ m # p.to /\ m \in Named(p)
BY DEF IInv, Sent, Truthful, Candidates, Named

LEMMA NodeAnnounceKeepsIInv ==
  ASSUME IInv, NEW p \in net, NEW rest \in SUBSET net, UNCHANGED bounds,
         p2p_node_announce(p, rest)
  PROVE  IInv'
<1> DEFINE onward == IF Announcing(p) THEN Candidates(p, announce[p.l]) ELSE {}
           more == {send_announce(p.to, m, p.l, hostname[p.to]) : m \in onward}
<1>1. /\ Truthful(p) /\ p.to \in Node /\ p.from \in Node /\ Named(p) \subseteq Node
      /\ p.from \in Named(p) /\ hostname[p.to] \in Host
  BY DEF IInv, Sent, Truthful, p2p_node_announce, Named
<1>2. /\ UNCHANGED <<lkp, db, ids, due>> /\ Remember(p.to, Named(p), {})
      /\ Send(p.to, Greetings(p.to, Named(p)) \cup more, Used(p), rest)
      /\ announce' = IF Announcing(p) THEN Asked(announce, p) ELSE announce
  BY DEF p2p_node_announce, bounds
<1>3. Known' /\ GoodIsMutual' /\ NbhdGrows
  BY <1>1, <1>2, KnownStays
<1>4. /\ DOMAIN announce' = DOMAIN announce
      /\ \A l \in DOMAIN announce :
           /\ announce'[l] \in [node : Node, asked : SUBSET Node, open : BOOLEAN]
           /\ announce[l].asked \subseteq announce'[l].asked
      /\ Announcing(p) => Named(p) \subseteq announce'[p.l].asked
  <2>1. CASE Announcing(p)
    BY <1>1, <1>2, <2>1 DEF Asked, Announcing, IInv, Lookups
  <2>2. CASE ~Announcing(p)
    BY <1>2, <2>2 DEF IInv, Lookups
  <2> QED BY <2>1, <2>2
<1>5. Grows
  BY <1>2, <1>3, <1>4 DEF Grows
<1>6. ASSUME NEW m \in onward, NEW r, r = send_announce(p.to, m, p.l, hostname[p.to])
      PROVE  Truthful(r)' /\ r.key = Key("a", p.to, m, p.l, 0)
  BY <1>1, <1>6, AsksOn DEF send_announce, Packet, Truthful, Request
<1>7. ASSUME NEW k \in KeysOf(more) PROVE ~Spent(k) /\ Spent(k)'
  <2>1. PICK m \in onward : k = Key("a", p.to, m, p.l, 0)
    BY <1>6 DEF KeysOf
  <2>2. Announcing(p) /\ m \in Candidates(p, announce[p.l])
    BY <2>1
  <2>3. ~Spent(k)
    BY <2>1, <2>2, AsksOn DEF Spent, Key
  <2>4. Spent(k)'
    BY <1>1, <1>4, <2>1, <2>2, AsksOn DEF Spent, Announcing
  <2> QED BY <2>3, <2>4
<1>8. Sent'
  <2>1. \A r \in more : Truthful(r)'
    BY <1>6
  <2> HIDE DEF more
  <2> QED BY <1>1, <1>2, <1>5, <1>7, <2>1, Handles
<1>9. Lookups' /\ Stored' /\ AnswersAreTrue'
  BY <1>2, <1>4 DEF IInv, Lookups, Stored, AnswersAreTrue
<1> QED BY <1>3, <1>8, <1>9 DEF IInv

LEMMA NodeLookupKeepsIInv ==
  ASSUME IInv, NEW p \in net, NEW rest \in SUBSET net, UNCHANGED bounds,
         p2p_node_lookup(p, rest)
  PROVE  IInv'
<1> DEFINE onward == IF Searching(p) THEN Candidates(p, lkp[p.l]) ELSE {}
           more == {send_lookup(p.to, m, p.l, lkp[p.l].host) : m \in onward}
<1>1. /\ Truthful(p) /\ p.to \in Node /\ p.from \in Node /\ Named(p) \subseteq Node
      /\ p.from \in Named(p)
  BY DEF IInv, Sent, Truthful, Named
<1>2. /\ UNCHANGED <<announce, db, ids, due>> /\ Remember(p.to, Named(p), {})
      /\ Send(p.to, Greetings(p.to, Named(p)) \cup more, Used(p), rest)
      /\ lkp' = IF Searching(p) THEN Asked(lkp, p) ELSE lkp
  BY DEF p2p_node_lookup, bounds
<1>3. Known' /\ GoodIsMutual' /\ NbhdGrows
  BY <1>1, <1>2, KnownStays
<1>4. /\ DOMAIN lkp' = DOMAIN lkp
      /\ \A l \in DOMAIN lkp :
           /\ lkp'[l] \in LkpRecord
           /\ lkp[l].asked \subseteq lkp'[l].asked
           /\ lkp'[l].host = lkp[l].host /\ lkp'[l].state = lkp[l].state
           /\ lkp'[l].addr = lkp[l].addr
      /\ Searching(p) => Named(p) \subseteq lkp'[p.l].asked
  <2>1. CASE Searching(p)
    BY <1>1, <1>2, <2>1 DEF Asked, Searching, IInv, Lookups, LkpRecord
  <2>2. CASE ~Searching(p)
    BY <1>2, <2>2 DEF IInv, Lookups
  <2> QED BY <2>1, <2>2
<1>5. Grows
  BY <1>2, <1>3, <1>4 DEF Grows
<1>6. ASSUME NEW m \in onward, NEW r, r = send_lookup(p.to, m, p.l, lkp[p.l].host)
      PROVE  Truthful(r)' /\ r.key = Key("l", p.to, m, p.l, 0)
  <2>1. p.l \in DOMAIN lkp /\ p.l \in DOMAIN lkp' /\ lkp'[p.l].host = lkp[p.l].host
    BY <1>4 DEF Searching
  <2> QED BY <1>1, <1>6, <2>1, AsksOn DEF send_lookup, Packet, Truthful, Request
<1>7. ASSUME NEW k \in KeysOf(more) PROVE ~Spent(k) /\ Spent(k)'
  <2>1. PICK m \in onward : k = Key("l", p.to, m, p.l, 0)
    BY <1>6 DEF KeysOf
  <2>2. Searching(p) /\ m \in Candidates(p, lkp[p.l])
    BY <2>1
  <2>3. ~Spent(k)
    BY <2>1, <2>2, AsksOn DEF Spent, Key
  <2>4. Spent(k)'
    BY <1>1, <1>4, <2>1, <2>2, AsksOn DEF Spent, Searching
  <2> QED BY <2>3, <2>4
<1>8. Sent'
  <2>1. \A r \in more : Truthful(r)'
    BY <1>6
  <2> HIDE DEF more
  <2> QED BY <1>1, <1>2, <1>5, <1>7, <2>1, Handles
<1>9. Lookups' /\ Stored' /\ AnswersAreTrue'
  BY <1>2, <1>4 DEF IInv, Lookups, Stored, AnswersAreTrue
<1> QED BY <1>3, <1>8, <1>9 DEF IInv

\* The answer to a lookup is the address of its host, whenever it comes.
LEMMA ValueKeepsIInv ==
  ASSUME IInv, NEW p \in net, NEW rest \in SUBSET net, UNCHANGED bounds,
         p2p_value(p, rest)
  PROVE  IInv'
<1>1. /\ Truthful(p) /\ p.to \in Node /\ p.from \in Node /\ p.l \in DOMAIN lkp
      /\ p.addr \in Node /\ hostname[p.addr] = lkp[p.l].host
  BY DEF IInv, Sent, Truthful, p2p_value
<1>2. /\ UNCHANGED <<announce, db, ids, due>> /\ Remember(p.to, {p.from}, {})
      /\ Send(p.to, Greetings(p.to, {p.from}), Used(p), rest)
  BY DEF p2p_value, bounds
<1>3. Known' /\ GoodIsMutual' /\ NbhdGrows
  BY <1>1, <1>2, KnownStays
<1>4. /\ DOMAIN lkp' = DOMAIN lkp
      /\ \A l \in DOMAIN lkp :
           \/ lkp'[l] = lkp[l]
           \/ /\ l = p.l
              /\ lkp'[l] = [node |-> lkp[l].node, host |-> lkp[l].host,
                            asked |-> lkp[l].asked, state |-> "found",
                            addr |-> p.addr, trail |-> lkp[l].trail, holders |-> lkp[l].holders]
  <2>1. CASE Searching(p)
    <3>1. lkp' = [lkp EXCEPT ![p.l].state = "found", ![p.l].addr = p.addr]
      BY <2>1 DEF p2p_value
    <3>2. ASSUME NEW l \in DOMAIN lkp, l # p.l PROVE lkp'[l] = lkp[l]
      BY <3>1, <3>2
    <3>3. lkp[p.l] \in LkpRecord
      BY <1>1 DEF IInv, Lookups
    <3>4. lkp'[p.l] = [node |-> lkp[p.l].node, host |-> lkp[p.l].host,
                       asked |-> lkp[p.l].asked, state |-> "found",
                       addr |-> p.addr, trail |-> lkp[p.l].trail, holders |-> lkp[p.l].holders]
      BY <1>1, <3>1, <3>3 DEF LkpRecord
    <3> QED BY <3>1, <3>2, <3>4
  <2>2. CASE ~Searching(p)
    BY <2>2 DEF p2p_value
  <2> QED BY <2>1, <2>2
<1>5. ASSUME NEW l \in DOMAIN lkp
      PROVE  /\ lkp'[l].asked = lkp[l].asked /\ lkp'[l].host = lkp[l].host
             /\ lkp'[l] \in LkpRecord
             /\ lkp'[l].state = "found" => hostname[lkp'[l].addr] = lkp'[l].host
  BY <1>1, <1>4 DEF IInv, Lookups, LkpRecord, AnswersAreTrue
<1>6. Grows
  BY <1>2, <1>3, <1>4, <1>5 DEF Grows
<1>7. Sent'
  BY <1>1, <1>2, <1>6, HandlesOnly
<1>8. Lookups' /\ Stored' /\ AnswersAreTrue'
  BY <1>2, <1>4, <1>5 DEF IInv, Lookups, Stored, AnswersAreTrue
<1> QED BY <1>3, <1>7, <1>8 DEF IInv

-----------------------------------------------------------------------------
(* Cron and front ends *)

\* The parts of a lookup that are no history.
SameLookups ==
  /\ DOMAIN lkp' = DOMAIN lkp
  /\ \A l \in DOMAIN lkp :
       /\ lkp'[l] \in LkpRecord /\ lkp'[l].asked = lkp[l].asked
       /\ lkp'[l].host = lkp[l].host /\ lkp'[l].state = lkp[l].state
       /\ lkp'[l].addr = lkp[l].addr

\* Cron sends what is due, and no node is good that was not.
LEMMA CronKeepsIInv ==
  ASSUME IInv, NEW n \in Node, NEW q, NEW ms, NEW i, NEW packets,
         CronSends(q, n, ms, i, packets),
         UNCHANGED <<known, gone, announce, db>>, SameLookups,
         pinged' \in Counters, \A m \in Node : Good(m)' \subseteq Good(m),
         \A p \in packets : Truthful(p),
         due' \subseteq due => \A k \in KeysOf(packets) : ~Spent(k) /\ Spent(k)'
  PROVE  IInv'
<1>1. NbhdGrows
  BY NbhdStays DEF IInv
<1>2. Grows
  BY <1>1 DEF Grows, CronSends, SameLookups
<1>3. \A p \in packets : Truthful(p)'
  BY <1>2, TruthfulStays
<1>4. Sent'
  BY <1>2, <1>3, Sends DEF CronSends, Grows, IInv
<1>5. Known' /\ GoodIsMutual'
  BY DEF IInv, Known, GoodIsMutual
<1>6. Lookups' /\ Stored' /\ AnswersAreTrue'
  BY DEF SameLookups, CronSends, IInv, Lookups, Stored, AnswersAreTrue
<1> QED BY <1>4, <1>5, <1>6 DEF IInv

\* A step that leaves the buckets and the lookups alone.
LEMMA NbhdIsSame ==
  ASSUME IInv, UNCHANGED <<nbhd, lkp>>
  PROVE  /\ UNCHANGED <<known, gone>> /\ SameLookups
         /\ pinged' \in Counters /\ \A m \in Node : Good(m)' \subseteq Good(m)
BY DEF IInv, nbhd, Known, Lookups, SameLookups, Good

\* A request of cron's, or of the bootstrap.
LEMMA CronPing ==
  ASSUME NEW n \in Node, NEW m \in Node \ {n}, NEW for, NEW i
  PROVE  /\ Truthful(send_ping(n, m, for, i)) /\ Truthful(send_find(n, m, for, i))
         /\ Truthful(send_multicast(n, m, i))
         /\ send_ping(n, m, for, i).key = Key("p", n, m, for, i)
         /\ send_find(n, m, for, i).key = Key("f", n, m, for, i)
         /\ send_multicast(n, m, i).key = Key("p", n, Everyone, Cron, i)
BY DEF Truthful, send_ping, send_find, send_multicast, Packet, Request

LEMMA BootstrapKeepsIInv ==
  ASSUME IInv, NEW n \in Node, p2p_bootstrap(n)
  PROVE  IInv'
<1>1. /\ UNCHANGED <<known, gone, announce, db>> /\ SameLookups
      /\ pinged' \in Counters /\ \A m \in Node : Good(m)' \subseteq Good(m)
  BY NbhdIsSame DEF p2p_bootstrap
<1>2. PICK i \in Rounds :
        \/ CronSends("p", n, {Everyone}, i, {send_multicast(n, m, i) : m \in Node \ {n}})
        \/ \E m \in Node \ {n} :
             CronSends("p", n, {Everyone}, i, {send_ping(n, m, Bootstrap, i)})
  BY DEF p2p_bootstrap
<1> DEFINE key == Key("p", n, Everyone, Cron, i)
<1>3. CASE CronSends("p", n, {Everyone}, i, {send_multicast(n, m, i) : m \in Node \ {n}})
  <2> DEFINE packets == {send_multicast(n, m, i) : m \in Node \ {n}}
  <2>1. \A p \in packets : Truthful(p) /\ p.key = key
    BY CronPing
  <2>2. key \in due /\ key \notin due'
    BY <1>3 DEF CronSends, Due
  <2>3. \A k \in KeysOf(packets) : k = key
    BY <2>1 DEF KeysOf
  <2>4. ~Spent(key)
    BY <2>2 DEF Spent, Key, Greeting, Cron, Bootstrap
  <2>5. Spent(key)'
    BY <2>2 DEF Spent
  <2>6. \A k \in KeysOf(packets) : ~Spent(k) /\ Spent(k)'
    BY <2>3, <2>4, <2>5
  <2> HIDE DEF packets, key
  <2> QED BY <1>1, <1>3, <2>1, <2>6, CronKeepsIInv DEF packets
<1>4. ASSUME NEW m \in Node \ {n},
             CronSends("p", n, {Everyone}, i, {send_ping(n, m, Bootstrap, i)})
      PROVE  IInv'
  <2> DEFINE packets == {send_ping(n, m, Bootstrap, i)}
             sent == Key("p", n, m, Bootstrap, i)
  <2>1. \A p \in packets : Truthful(p) /\ p.key = sent
    BY CronPing
  <2>2. key \in due /\ key \notin due'
    BY <1>4 DEF CronSends, Due
  <2>3. \A k \in KeysOf(packets) : k = sent
    BY <2>1 DEF KeysOf
  <2>4. ~Spent(sent)
    BY <2>2 DEF Spent, Key, Greeting, Cron, Bootstrap
  <2>5. Spent(sent)'
    BY <2>2 DEF Spent
  <2>6. \A k \in KeysOf(packets) : ~Spent(k) /\ Spent(k)'
    BY <2>3, <2>4, <2>5
  <2> HIDE DEF packets, key, sent
  <2> QED BY <1>1, <1>4, <2>1, <2>6, CronKeepsIInv DEF packets
<1> QED BY <1>2, <1>3, <1>4

\* What cron has sent was due and is not due again.
LEMMA DueIsSpent ==
  ASSUME NEW n \in Node, NEW q \in {"p", "f"}, NEW ms \in SUBSET Node, NEW i, NEW packets,
         CronSends(q, n, ms, i, packets), NEW k \in Due(q, n, ms, i)
  PROVE  ~Spent(k) /\ Spent(k)'
<1>1. k \in due /\ k \notin due'
  BY DEF CronSends
<1>2. PICK m \in ms : k = Key(q, n, m, Cron, i)
  BY DEF Due
<1>3. ~Spent(k)
  BY <1>1, <1>2 DEF Spent, Key, Greeting, Cron, Bootstrap
<1>4. Spent(k)'
  BY <1>1, <1>2 DEF Spent
<1> QED BY <1>3, <1>4

LEMMA MaintenanceKeepsIInv ==
  ASSUME IInv, NEW n \in Node, nbhd_ping(n) \/ nbhd_find(n)
  PROVE  IInv'
<1>1. CASE nbhd_ping(n)
  <2>1. PICK i \in Rounds, ms \in SUBSET known[n] \ {{}} :
          /\ CronSends("p", n, ms, i, {send_ping(n, m, Cron, i) : m \in ms})
          /\ pinged' = [pinged EXCEPT ![n] = [m \in Node |-> @[m] + IF m \in ms THEN 1 ELSE 0]]
          /\ lkp' = [l \in DOMAIN lkp |-> [lkp[l] EXCEPT !.trail = @ \ ({n} \X ms)]]
          /\ UNCHANGED <<known, gone, announce, db>>
    BY <1>1 DEF nbhd_ping
  <2> DEFINE packets == {send_ping(n, m, Cron, i) : m \in ms}
  <2>2. ms \in SUBSET Node /\ ms \subseteq Node \ {n}
    BY <2>1 DEF IInv, Known
  <2>3. \A p \in packets : Truthful(p) /\ p.key \in Due("p", n, ms, i)
    BY <2>2, CronPing DEF Due
  <2>4. \A k \in KeysOf(packets) : k \in Due("p", n, ms, i)
    BY <2>3 DEF KeysOf
  <2>5. /\ pinged' \in Counters
        /\ \A m \in Node : Good(m)' \subseteq Good(m)
    <3>1. pinged \in Counters /\ known \in [Node -> SUBSET Node]
      BY DEF IInv, Known
    <3>2. \A m \in Node : pinged[n][m] + (IF m \in ms THEN 1 ELSE 0) \in Nat
      BY <3>1 DEF Counters
    <3>3. pinged' \in Counters
      BY <2>1, <3>1, <3>2 DEF Counters
    <3>4. ASSUME NEW m \in Node, NEW u \in Node, pinged'[m][u] = 0 PROVE pinged[m][u] = 0
      <4>1. CASE m # n
        BY <2>1, <3>1, <3>4, <4>1 DEF Counters
      <4>2. CASE m = n
        <5>1. pinged'[n][u] = pinged[n][u] + IF u \in ms THEN 1 ELSE 0
          BY <2>1, <3>1 DEF Counters
        <5>2. pinged[n][u] \in Nat
          BY <3>1 DEF Counters
        <5> QED BY <3>4, <4>2, <5>1, <5>2
      <4> QED BY <4>1, <4>2
    <3>5. ASSUME NEW m \in Node, NEW u \in Good(m)' PROVE u \in Good(m)
      BY <2>1, <3>1, <3>4, <3>5 DEF Good
    <3> QED BY <3>3, <3>5
  <2>6. \A k \in KeysOf(packets) : ~Spent(k) /\ Spent(k)'
    BY <2>1, <2>2, <2>4, DueIsSpent
  <2>7. SameLookups
    BY <2>1 DEF IInv, Lookups, LkpRecord, SameLookups
  <2> HIDE DEF packets
  <2> QED BY <2>1, <2>3, <2>5, <2>6, <2>7, CronKeepsIInv DEF packets
<1>2. CASE nbhd_find(n)
  <2>1. PICK i \in Rounds, ms \in SUBSET known[n] \ {{}} :
          /\ CronSends("f", n, ms, i, {send_find(n, m, Cron, i) : m \in ms})
          /\ UNCHANGED <<nbhd, lkp, announce, db>>
    BY <1>2 DEF nbhd_find
  <2> DEFINE packets == {send_find(n, m, Cron, i) : m \in ms}
  <2>2. ms \in SUBSET Node /\ ms \subseteq Node \ {n}
    BY <2>1 DEF IInv, Known
  <2>3. \A p \in packets : Truthful(p) /\ p.key \in Due("f", n, ms, i)
    BY <2>2, CronPing DEF Due
  <2>4. \A k \in KeysOf(packets) : k \in Due("f", n, ms, i)
    BY <2>3 DEF KeysOf
  <2>5. /\ UNCHANGED <<known, gone, announce, db>> /\ SameLookups
        /\ pinged' \in Counters /\ \A m \in Node : Good(m)' \subseteq Good(m)
    BY <2>1, NbhdIsSame
  <2>6. \A k \in KeysOf(packets) : ~Spent(k) /\ Spent(k)'
    BY <2>1, <2>2, <2>4, DueIsSpent
  <2> HIDE DEF packets
  <2> QED BY <2>1, <2>3, <2>5, <2>6, CronKeepsIInv DEF packets
<1> QED BY <1>1, <1>2

\* A lookup id that is drawn was not in use.
LEMMA Drawn ==
  ASSUME IInv, NEW l, Draw(l)
  PROVE  /\ l \in LkpId /\ l \notin DOMAIN lkp /\ l \notin DOMAIN announce
         /\ ids' \subseteq LkpId /\ ids' = ids \ {l} /\ due' = due
BY DEF IInv, Lookups, Draw

\* The buckets are left alone.
LEMMA SameNbhd ==
  ASSUME IInv, UNCHANGED nbhd
  PROVE  NbhdGrows /\ Known' /\ GoodIsMutual'
<1>1. UNCHANGED <<known, pinged, gone>>
  BY DEF nbhd
<1>2. NbhdGrows
  BY <1>1, NbhdStays DEF IInv
<1>3. Known' /\ GoodIsMutual'
  BY <1>1 DEF IInv, Known, GoodIsMutual, Good
<1> QED BY <1>2, <1>3

LEMMA AnnounceKeepsIInv ==
  ASSUME IInv, NEW n \in Node, NEW l \in LkpId, p2p_announce_myself(n, l)
  PROVE  IInv'
<1> DEFINE new == [node |-> n, asked |-> known[n], open |-> TRUE]
           packets == {send_announce(n, m, l, hostname[n]) : m \in known[n]}
<1>1. /\ UNCHANGED <<nbhd, lkp, db>> /\ announce' = With(announce, l, new)
      /\ Send(n, packets, {}, net) /\ Draw(l) /\ hostname[n] \in Host
      /\ known[n] \subseteq Node \ {n}
  BY P2pAssumption DEF p2p_announce_myself, IInv, Known
<1>2. /\ l \notin DOMAIN lkp /\ l \notin DOMAIN announce /\ ids' \subseteq LkpId
      /\ ids' = ids \ {l} /\ due' = due
  BY <1>1, Drawn
<1>3. /\ DOMAIN announce' = DOMAIN announce \cup {l} /\ announce'[l].asked = known[n]
      /\ announce'[l] \in [node : Node, asked : SUBSET Node, open : BOOLEAN]
      /\ \A k \in DOMAIN announce : announce'[k] = announce[k]
  <2>1. announce'[l] = new
    BY <1>1, <1>2 DEF With
  <2>2. known[n] \in SUBSET Node
    BY <1>1
  <2> QED BY <1>1, <1>2, <2>1, <2>2 DEF With
<1>4. Grows
  BY <1>1, <1>2, <1>3, SameNbhd DEF Grows
<1>5. ASSUME NEW m \in known[n], NEW r, r = send_announce(n, m, l, hostname[n])
      PROVE  Truthful(r)' /\ r.key = Key("a", n, m, l, 0)
  BY <1>1, <1>5 DEF send_announce, Packet, Truthful, Request
<1>6. ASSUME NEW k \in KeysOf(packets) PROVE ~Spent(k) /\ Spent(k)'
  <2>1. PICK m \in known[n] : k = Key("a", n, m, l, 0)
    BY <1>5 DEF KeysOf
  <2>2. ~Spent(k)
    BY <1>2, <2>1 DEF Spent, Key
  <2>3. Spent(k)'
    BY <1>1, <1>3, <2>1 DEF Spent
  <2> QED BY <2>2, <2>3
<1>7. Sent'
  <2>1. \A r \in packets : Truthful(r)'
    BY <1>5
  <2> HIDE DEF packets
  <2> QED BY <1>1, <1>4, <1>6, <2>1, Sends DEF IInv
<1>8. Lookups'
  BY <1>1, <1>2, <1>3 DEF IInv, Lookups
<1>9. Known' /\ Stored' /\ GoodIsMutual' /\ AnswersAreTrue'
  BY <1>1, SameNbhd DEF IInv, Stored, AnswersAreTrue
<1> QED BY <1>7, <1>8, <1>9 DEF IInv

LEMMA LookupKeepsIInv ==
  ASSUME IInv, NEW n \in Node, NEW h \in Host, NEW l \in LkpId, lkp_put(n, h, l)
  PROVE  IInv'
<1> DEFINE packets == {send_lookup(n, m, l, h) : m \in known[n]}
<1>1. PICK trail \in SUBSET (Node \X Node), holders \in SUBSET Node :
        lkp' = With(lkp, l, [node |-> n, host |-> h, asked |-> known[n],
                             state |-> "open", addr |-> n,
                             trail |-> trail, holders |-> holders])
  BY DEF lkp_put
<1>2. /\ UNCHANGED <<nbhd, announce, db>> /\ Draw(l)
      /\ Send(n, packets, {}, net) /\ known[n] \subseteq Node \ {n}
  BY DEF lkp_put, IInv, Known
<1>3. /\ l \notin DOMAIN lkp /\ l \notin DOMAIN announce /\ ids' \subseteq LkpId
      /\ ids' = ids \ {l} /\ due' = due
  BY <1>2, Drawn
<1>4. /\ DOMAIN lkp' = DOMAIN lkp \cup {l}
      /\ lkp'[l] = [node |-> n, host |-> h, asked |-> known[n],
                    state |-> "open", addr |-> n, trail |-> trail, holders |-> holders]
      /\ \A k \in DOMAIN lkp : lkp'[k] = lkp[k]
  BY <1>1, <1>3 DEF With
<1>5. Grows
  BY <1>2, <1>3, <1>4, SameNbhd DEF Grows
<1>6. ASSUME NEW m \in known[n], NEW r, r = send_lookup(n, m, l, h)
      PROVE  Truthful(r)' /\ r.key = Key("l", n, m, l, 0)
  BY <1>2, <1>4, <1>6 DEF send_lookup, Packet, Truthful, Request
<1>7. ASSUME NEW k \in KeysOf(packets) PROVE ~Spent(k) /\ Spent(k)'
  <2>1. PICK m \in known[n] : k = Key("l", n, m, l, 0)
    BY <1>6 DEF KeysOf
  <2>2. ~Spent(k)
    BY <1>3, <2>1 DEF Spent, Key
  <2>3. Spent(k)'
    BY <1>2, <1>4, <2>1 DEF Spent
  <2> QED BY <2>2, <2>3
<1>8. Sent'
  <2>1. \A r \in packets : Truthful(r)'
    BY <1>6
  <2> HIDE DEF packets
  <2> QED BY <1>2, <1>5, <1>7, <2>1, Sends DEF IInv
<1>9. Lookups'
  <2>1. known[n] \in SUBSET Node
    BY <1>2
  <2>2. lkp'[l] \in LkpRecord
    BY <1>4, <2>1 DEF LkpRecord
  <2> QED BY <1>2, <1>3, <1>4, <2>2 DEF IInv, Lookups
<1>10. Known' /\ Stored' /\ GoodIsMutual' /\ AnswersAreTrue'
  BY <1>2, <1>4, SameNbhd DEF IInv, Stored, AnswersAreTrue
<1> QED BY <1>8, <1>9, <1>10 DEF IInv

LEMMA ExpireKeepsIInv ==
  ASSUME IInv, Expire
  PROVE  IInv'
<1>1. CASE lkp_expire
  <2>1. PICK l \in DOMAIN lkp :
          /\ lkp' = [lkp EXCEPT ![l].state = "timeout"]
          /\ UNCHANGED <<net, nbhd, cache, announce, db, requests, bounds>>
    BY <1>1 DEF lkp_expire
  <2>2. /\ DOMAIN lkp' = DOMAIN lkp
        /\ \A k \in DOMAIN lkp :
             /\ lkp'[k].asked = lkp[k].asked /\ lkp'[k].host = lkp[k].host
             /\ lkp'[k] = lkp[k] \/ lkp'[k].state = "timeout"
             /\ lkp'[k] \in LkpRecord
    BY <2>1 DEF IInv, Lookups, LkpRecord
  <2>3. Grows
    BY <2>1, <2>2, SameNbhd DEF Grows, bounds
  <2>4. Sent'
    BY <2>1, <2>3, NothingSent DEF IInv
  <2>5. Known' /\ Stored' /\ GoodIsMutual'
    BY <2>1, SameNbhd DEF IInv, Stored
  <2>6. Lookups' /\ AnswersAreTrue'
    BY <2>1, <2>2 DEF IInv, Lookups, AnswersAreTrue, bounds
  <2> QED BY <2>4, <2>5, <2>6 DEF IInv
<1>2. CASE announce_expire
  <2>1. PICK l \in DOMAIN announce :
          /\ announce' = [announce EXCEPT ![l].open = FALSE]
          /\ UNCHANGED <<net, nbhd, cache, lkp, db, requests, bounds>>
    BY <1>2 DEF announce_expire
  <2>2. /\ DOMAIN announce' = DOMAIN announce
        /\ \A k \in DOMAIN announce :
             /\ announce'[k].asked = announce[k].asked
             /\ announce'[k] \in [node : Node, asked : SUBSET Node, open : BOOLEAN]
    <3>1. ASSUME NEW k \in DOMAIN announce
          PROVE  announce[k] \in [node : Node, asked : SUBSET Node, open : BOOLEAN]
      BY DEF IInv, Lookups
    <3>2. announce'[l] = [announce[l] EXCEPT !.open = FALSE]
      BY <2>1
    <3>3. \A k \in DOMAIN announce \ {l} : announce'[k] = announce[k]
      BY <2>1
    <3> QED BY <2>1, <3>1, <3>2, <3>3
  <2>3. Grows
    BY <2>1, <2>2, SameNbhd DEF Grows, bounds
  <2>4. Sent'
    BY <2>1, <2>3, NothingSent DEF IInv
  <2>5. Known' /\ Stored' /\ GoodIsMutual' /\ Lookups' /\ AnswersAreTrue'
    BY <2>1, <2>2, SameNbhd DEF IInv, Stored, Lookups, AnswersAreTrue, bounds
  <2> QED BY <2>4, <2>5 DEF IInv
<1>3. CASE db_expire
  <2>1. PICK n \in Node : \E h \in DOMAIN db[n] :
          /\ db' = [db EXCEPT ![n] = Without(@, {h})]
          /\ UNCHANGED <<net, nbhd, cache, lkp, announce, requests, bounds>>
    BY <1>3 DEF db_expire
  <2>2. Grows
    BY <2>1, SameNbhd DEF Grows, bounds
  <2>3. Sent'
    BY <2>1, <2>2, NothingSent DEF IInv
  <2>4. Stored'
    BY <2>1 DEF IInv, Stored, Without
  <2>5. Known' /\ GoodIsMutual' /\ Lookups' /\ AnswersAreTrue'
    BY <2>1, SameNbhd DEF IInv, Lookups, AnswersAreTrue, bounds
  <2> QED BY <2>3, <2>4, <2>5 DEF IInv
<1>4. CASE nbhd_expire
  <2>1. PICK n \in Node, ms \in SUBSET Node :
          /\ ms \subseteq Bad(n)
          /\ known' = [known EXCEPT ![n] = @ \ ms]
          /\ pinged' = [pinged EXCEPT ![n] = [m \in Node |-> IF m \in ms THEN 0 ELSE @[m]]]
          /\ gone' = [gone EXCEPT ![n] = [m \in Node |-> @[m] + IF m \in ms THEN 1 ELSE 0]]
          /\ UNCHANGED <<net, cache, lkp, announce, db, requests, bounds>>
    BY <1>4 DEF nbhd_expire, Bad, IInv, Known
  <2>2. known \in [Node -> SUBSET Node] /\ pinged \in Counters /\ gone \in Counters
    BY DEF IInv, Known
  <2>3. known' \in [Node -> SUBSET Node] /\ \A m \in Node : known'[m] \subseteq known[m]
    BY <2>1, <2>2
  <2>4. pinged' \in Counters
    BY <2>1, <2>2 DEF Counters
  <2>5. ASSUME NEW m \in Node, NEW u \in Node
        PROVE  /\ gone[m][u] \in Nat /\ gone'[m][u] \in Nat /\ gone[m][u] <= gone'[m][u]
               /\ u \in known[m] => u \in known'[m] \/ gone[m][u] < gone'[m][u]
    <3>1. gone[m][u] \in Nat
      BY <2>2 DEF Counters
    <3>2. gone'[m][u] = gone[m][u] + IF m = n /\ u \in ms THEN 1 ELSE 0
      BY <2>1, <2>2, <3>1 DEF Counters
    <3>3. u \in known[m] => u \in known'[m] \/ (m = n /\ u \in ms)
      BY <2>1, <2>2
    <3> QED BY <3>1, <3>2, <3>3
  <2>6. gone' \in Counters
    BY <2>1, <2>2, <2>5 DEF Counters
  <2>7. NbhdGrows
    BY <2>2, <2>5, <2>6 DEF NbhdGrows
  <2>8. Grows
    BY <2>1, <2>7 DEF Grows, bounds
  <2>9. Sent'
    BY <2>1, <2>8, NothingSent DEF IInv
  <2>10. Known'
    BY <2>3, <2>4, <2>6 DEF IInv, Known
  <2>11. GoodIsMutual'
    <3>1. ASSUME NEW m \in Node, NEW u \in Good(m)' PROVE Knew(u, m)'
      <4>1. u \in Node /\ u \in known'[m] /\ u \in known[m] /\ pinged'[m][u] = 0
        BY <2>3 DEF Good
      <4>2. ~(m = n /\ u \in ms)
        BY <2>1, <2>2, <4>1
      <4>3. pinged[m][u] = 0
        BY <2>1, <2>2, <4>1, <4>2 DEF Counters
      <4>4. Knew(u, m)
        BY <4>1, <4>3 DEF IInv, GoodIsMutual, Good, Knew
      <4> QED BY <2>7, <4>1, <4>4, KnewStays
    <3> QED BY <3>1 DEF GoodIsMutual, Knew
  <2>12. Lookups' /\ Stored' /\ AnswersAreTrue'
    BY <2>1, OthersStay DEF SearchesStay, bounds
  <2> QED BY <2>9, <2>10, <2>11, <2>12 DEF IInv
<1>5. CASE cache_expire
  <2>1. PICK n \in Node : \E k \in cache[n] :
          /\ cache' = [cache EXCEPT ![n] = @ \ {k}]
          /\ UNCHANGED <<net, nbhd, lkp, announce, db, requests, bounds>>
    BY <1>5 DEF cache_expire
  <2>2. Grows
    BY <2>1, SameNbhd DEF Grows, bounds
  <2>3. Sent'
    <3>1. cache' \in [Node -> SUBSET DOMAIN requests']
      BY <2>1 DEF IInv, Sent
    <3>2. (\A p \in net' : Truthful(p)') /\ \A k \in DOMAIN requests' : Spent(k)' /\ requests'[k] = 1
      BY <2>1, <2>2, SpentStays, TruthfulStays DEF IInv, Sent
    <3> QED BY <3>1, <3>2 DEF Sent
  <2>4. Known' /\ GoodIsMutual' /\ Lookups' /\ Stored' /\ AnswersAreTrue'
    BY <2>1, SameNbhd, OthersStay DEF SearchesStay, bounds
  <2> QED BY <2>3, <2>4 DEF IInv
<1> QED BY <1>1, <1>2, <1>3, <1>4, <1>5 DEF Expire

-----------------------------------------------------------------------------
LEMMA DecodeKeepsIInv ==
  ASSUME IInv, NEW p \in net, NEW rest \in SUBSET net, p2p_decode(p, rest),
         UNCHANGED bounds
  PROVE  IInv'
BY RequestKeepsIInv, ReplyKeepsIInv, NodeAnnounceKeepsIInv, NodeLookupKeepsIInv,
   ValueKeepsIInv DEF p2p_decode

LEMMA NextKeepsIInv == IInv /\ [Next]_vars => IInv'
<1> SUFFICES ASSUME IInv, [Next]_vars PROVE IInv'
  OBVIOUS
<1>1. CASE Deliver
  BY <1>1, DecodeKeepsIInv DEF Deliver
<1>2. CASE DeliverAgain
  BY <1>2, DecodeKeepsIInv DEF DeliverAgain
<1>3. CASE Maintenance
  BY <1>3, BootstrapKeepsIInv, MaintenanceKeepsIInv DEF Maintenance
<1>4. CASE Announce
  BY <1>4, AnnounceKeepsIInv DEF Announce
<1>5. CASE Search
  BY <1>5, LookupKeepsIInv DEF Search
<1>6. CASE Expire
  BY <1>6, ExpireKeepsIInv
<1>7. CASE UNCHANGED vars
  <2>1. /\ UNCHANGED <<net, nbhd, cache, requests, due>> /\ SearchesStay
    BY <1>7 DEF vars, bounds, SearchesStay
  <2>2. Grows
    BY <2>1, SameNbhd DEF Grows, SearchesStay
  <2>3. Sent' /\ Known' /\ GoodIsMutual'
    BY <2>1, <2>2, SameNbhd, NothingSent DEF IInv
  <2> QED BY <2>1, <2>3, OthersStay DEF IInv
<1> QED BY <1>1, <1>2, <1>3, <1>4, <1>5, <1>6, <1>7 DEF Next

LEMMA Inductive == Spec => []IInv
BY IInvInitially, NextKeepsIInv, PTL DEF Spec

\* The fields of packets, buckets, caches, searches and databases are of the
\* right kind; only keys that requests were sent under are in a cache.
THEOREM P2pTypes == Spec => []TypeOK
<1>1. IInv => TypeOK
  BY DEF IInv, Sent, Truthful, Known, Counters, Lookups, LkpRecord, Stored, TypeOK
<1> QED BY <1>1, Inductive, PTL

\* No node is asked twice by one lookup or announced to twice by one announcement,
\* and none is greeted twice by one that has not deleted it as bad in between
\* (lkp_resolve, announce_resolve and nbhd_put remember); cron's requests are sent
\* once each, whatever replies come and how often.
THEOREM RequestsOnce == Spec => []NoRequestTwice
<1>1. IInv => NoRequestTwice
  BY DEF IInv, Sent, NoRequestTwice
<1> QED BY <1>1, Inductive, PTL

\* A node that p2p_pong has made good knows the node it is good for, or nbhd_expire
\* has deleted that node since: after so many pings without an answer.
THEOREM Mutual == Spec => []GoodIsMutual
<1>1. IInv => GoodIsMutual
  BY DEF IInv
<1> QED BY <1>1, Inductive, PTL

\* The address p2p_value ends a lookup with is that of a node with the host the
\* lookup was started for.
THEOREM TrueAnswers == Spec => []AnswersAreTrue
<1>1. IInv => AnswersAreTrue
  BY DEF IInv
<1> QED BY <1>1, Inductive, PTL

\* Every entry of every database is the address of a node that has the host:
\* p2p_announce stores the sender of an announcement, and only a node with a
\* host announces it.
THEOREM TrueDatabases == Spec => []Stored
<1>1. IInv => Stored
  BY DEF IInv
<1> QED BY <1>1, Inductive, PTL

\* The same holds for a prompt network: its steps are steps of the network.
THEOREM PromptIsSafe ==
  PromptSpec => [](NoRequestTwice /\ GoodIsMutual /\ AnswersAreTrue)
<1>1. PromptNext => Next
  BY DEF PromptNext, PromptExpire, Next
<1>2. IInv => NoRequestTwice /\ GoodIsMutual /\ AnswersAreTrue
  BY DEF IInv, Sent, NoRequestTwice
<1> QED BY <1>1, <1>2, IInvInitially, NextKeepsIInv, PTL DEF PromptSpec

-----------------------------------------------------------------------------
(* The workers of one node.                                                  *)

\* EPOLLONESHOT, as the code uses it: while a thread is at work the socket is
\* not armed, and epoll reports a socket that is armed only.
OneShot == /\ armed => \A t \in Thread : pc[t] \notin Reading
           /\ event => armed

UdpIInv == UdpTypeOK /\ OneReader /\ OneShot /\ FreedLast

LEMMA UdpInitially == UdpInit => UdpIInv
<1> SUFFICES ASSUME UdpInit PROVE UdpIInv
  OBVIOUS
<1>1. pc \in [Thread -> Place] /\ \A t \in Thread : pc[t] \notin Reading
  BY DEF UdpInit, Place, Locked, Reading
<1>2. UdpTypeOK
  <2>1. socket \in Seq(Datagram) /\ arrived \in 0..MaxPackets
    BY UdpAssumption DEF UdpInit
  <2>2. armed \in BOOLEAN /\ event \in BOOLEAN /\ freed \in BOOLEAN
    BY DEF UdpInit
  <2>3. id \in [Thread -> Nat] /\ next_id \in Nat
    BY DEF UdpInit
  <2>4. QED
    BY <1>1, <2>1, <2>2, <2>3 DEF UdpInit, UdpTypeOK
<1>3. OneReader /\ OneShot /\ FreedLast
  BY <1>1 DEF UdpInit, OneReader, OneShot, FreedLast
<1>4. QED
  BY <1>2, <1>3 DEF UdpIInv

\* What a thread's step from a place to another one changes.
LEMMA ThreadMoves ==
  ASSUME UdpIInv, NEW t \in Thread, NEW place \in Place, Goto(t, place)
  PROVE  /\ pc' \in [Thread -> Place]
         /\ pc'[t] = place
         /\ \A u \in Thread \ {t} : pc'[u] = pc[u]
BY DEF UdpIInv, UdpTypeOK, Goto

\* A thread that moves within udp_input keeps everyone else out.
LEMMA ReaderMoves ==
  ASSUME UdpIInv, NEW t \in Thread, NEW place \in Reading \cup {"wait", "exit", "timed"},
         Goto(t, place), pc[t] \in Reading \/ place \notin Reading,
         armed' = armed, event' = event, mutex' \in Thread \cup {Free},
         socket' \in Seq(Datagram), UNCHANGED <<status, arrived, id, next_id, freed>>,
         pc[t] # "exit"
  PROVE  UdpIInv'
<1>1. place \in Place
  BY DEF Place, Locked
<1>2. /\ pc' \in [Thread -> Place]
      /\ pc'[t] = place
      /\ \A u \in Thread \ {t} : pc'[u] = pc[u]
  BY <1>1, ThreadMoves
<1>3. UdpTypeOK'
  BY <1>2 DEF UdpIInv, UdpTypeOK
<1>4. OneReader'
  BY <1>2 DEF UdpIInv, OneReader
<1>5. OneShot'
  BY <1>2 DEF UdpIInv, OneShot
<1>6. FreedLast'
  BY <1>2 DEF UdpIInv, FreedLast, Exited
<1>7. QED
  BY <1>3, <1>4, <1>5, <1>6 DEF UdpIInv

LEMMA Step_Number ==
  ASSUME UdpIInv, NEW t \in Thread, Number(t)
  PROVE  UdpIInv'
<1>1. /\ pc' \in [Thread -> Place]
      /\ pc'[t] = "wait"
      /\ \A u \in Thread \ {t} : pc'[u] = pc[u]
  <2>1. "wait" \in Place
    BY DEF Place
  <2>2. Goto(t, "wait")
    BY DEF Number, Unblock
  <2>3. QED
    BY <2>1, <2>2, ThreadMoves
<1>2. UdpTypeOK'
  <2>1. id' \in [Thread -> Nat] /\ next_id' \in Nat /\ mutex' = Free
    BY DEF Number, Unblock, UdpIInv, UdpTypeOK
  <2>2. UNCHANGED <<status, socket, arrived, armed, event, freed>>
    BY DEF Number, epoll
  <2>3. QED
    BY <1>1, <2>1, <2>2 DEF UdpIInv, UdpTypeOK
<1>3. OneReader'
  BY <1>1 DEF UdpIInv, OneReader, Reading
<1>4. OneShot'
  BY <1>1 DEF Number, epoll, UdpIInv, OneShot, Reading
<1>5. FreedLast'
  BY <1>1 DEF Number, UdpIInv, FreedLast, Exited
<1>6. QED
  BY <1>2, <1>3, <1>4, <1>5 DEF UdpIInv

LEMMA Step_Report ==
  ASSUME UdpIInv, NEW t \in Thread, Report(t)
  PROVE  UdpIInv'
<1> DEFINE place == IF Online THEN "recv" ELSE "exit"
<1>1. /\ pc' \in [Thread -> Place]
      /\ pc'[t] = place
      /\ \A u \in Thread \ {t} : pc'[u] = pc[u]
  <2>1. place \in Place
    BY DEF Place, Reading
  <2>2. Goto(t, place)
    BY DEF Report
  <2>3. QED
    BY <2>1, <2>2, ThreadMoves
<1>2. \A u \in Thread : pc[u] \notin Reading
  BY DEF Report, UdpIInv, OneShot
<1>3. UdpTypeOK'
  BY <1>1 DEF Report, UdpIInv, UdpTypeOK
<1>4. OneReader'
  BY <1>1, <1>2 DEF OneReader
<1>5. OneShot'
  BY DEF Report, OneShot
<1>6. FreedLast'
  BY <1>1 DEF Report, UdpIInv, FreedLast, Exited
<1>7. QED
  BY <1>3, <1>4, <1>5, <1>6 DEF UdpIInv

LEMMA Step_Rearm ==
  ASSUME UdpIInv, NEW t \in Thread, udp_rearm(t)
  PROVE  UdpIInv'
<1>1. /\ pc' \in [Thread -> Place]
      /\ pc'[t] = "wait"
      /\ \A u \in Thread \ {t} : pc'[u] = pc[u]
  <2>1. "wait" \in Place
    BY DEF Place
  <2>2. Goto(t, "wait")
    BY DEF udp_rearm
  <2>3. QED
    BY <2>1, <2>2, ThreadMoves
<1>2. \A u \in Thread : pc'[u] \notin Reading
  BY <1>1 DEF udp_rearm, UdpIInv, OneReader, Reading
<1>3. UdpTypeOK'
  BY <1>1 DEF udp_rearm, UdpIInv, UdpTypeOK
<1>4. OneReader' /\ OneShot'
  BY <1>2 DEF udp_rearm, OneReader, OneShot
<1>5. FreedLast'
  BY <1>1 DEF udp_rearm, UdpIInv, FreedLast, Exited
<1>6. QED
  BY <1>3, <1>4, <1>5 DEF UdpIInv

\* The other steps change the place of one thread, and the mutex or the socket.
LEMMA Step_Other ==
  ASSUME UdpIInv, NEW t \in Thread,
         TimedWakeup(t) \/ TimedCron(t) \/ udp_input(t) \/ ReadClock(t)
           \/ nbhd_put(t) \/ Handle(t) \/ udp_cron(t)
  PROVE  UdpIInv'
<1>1. CASE TimedWakeup(t)
  <2>1. PICK place \in {"timed", "exit"} : Goto(t, place)
    BY <1>1 DEF TimedWakeup
  <2>2. QED
    BY <1>1, <2>1, ReaderMoves DEF TimedWakeup, epoll, UdpIInv, UdpTypeOK, Reading
<1>2. CASE TimedCron(t)
  BY <1>2, ReaderMoves DEF TimedCron, Unblock, epoll, UdpIInv, UdpTypeOK, Reading
<1>3. CASE udp_input(t)
  <2>1. socket' \in Seq(Datagram)
    <3>1. socket \in Seq(Datagram)
      BY DEF UdpIInv, UdpTypeOK
    <3>2. socket # << >> => Tail(socket) \in Seq(Datagram)
      BY <3>1
    <3>3. QED
      BY <1>3, <3>1, <3>2 DEF udp_input
  <2>2. PICK place \in {"rearm", "clock"} : Goto(t, place)
    BY <1>3 DEF udp_input
  <2>3. QED
    BY <1>3, <2>1, <2>2, ReaderMoves DEF udp_input, epoll, UdpIInv, UdpTypeOK, Reading
<1>4. CASE ReadClock(t)
  <2>1. PICK place \in {"put", "cron"} : Unblock(t, place)
    BY <1>4 DEF ReadClock
  <2>2. QED
    BY <1>4, <2>1, ReaderMoves
       DEF ReadClock, Unblock, epoll, UdpIInv, UdpTypeOK, Reading
<1>5. CASE nbhd_put(t)
  <2>1. PICK place \in {"decode", "cron"} : Goto(t, place)
    BY <1>5 DEF nbhd_put
  <2>2. QED
    BY <1>5, <2>1, ReaderMoves DEF nbhd_put, epoll, UdpIInv, UdpTypeOK, Reading
<1>6. CASE Handle(t)
  BY <1>6, ReaderMoves DEF Handle, Unblock, epoll, UdpIInv, UdpTypeOK, Reading
<1>7. CASE udp_cron(t)
  BY <1>7, ReaderMoves DEF udp_cron, Unblock, epoll, UdpIInv, UdpTypeOK, Reading
<1>8. QED
  BY <1>1, <1>2, <1>3, <1>4, <1>5, <1>6, <1>7

LEMMA UdpSteps ==
  ASSUME UdpIInv, [UdpNext]_udpvars
  PROVE  UdpIInv'
<1>1. ASSUME NEW d \in Datagram, Arrive(d)
      PROVE  UdpIInv'
  <2>1. /\ socket' \in Seq(Datagram) /\ arrived' \in 0..MaxPackets
        /\ event' \in BOOLEAN
    BY <1>1, UdpAssumption DEF Arrive, UdpIInv, UdpTypeOK
  <2>2. UdpTypeOK'
    BY <1>1, <2>1 DEF Arrive, threads, UdpIInv, UdpTypeOK
  <2>3. OneReader' /\ OneShot' /\ FreedLast'
    BY <1>1 DEF Arrive, threads, UdpIInv, OneReader, OneShot, FreedLast, Exited
  <2>4. QED
    BY <2>2, <2>3 DEF UdpIInv
<1>2. CASE Shutdown
  BY <1>2
     DEF Shutdown, epoll, threads, UdpIInv, UdpTypeOK, OneReader, OneShot, FreedLast, Exited
<1>3. ASSUME NEW t \in Thread, mutex_block(t)
      PROVE  UdpIInv'
  BY <1>3 DEF mutex_block, epoll, threads, UdpIInv, UdpTypeOK, OneReader, OneShot,
     FreedLast, Exited
<1>4. ASSUME NEW t \in Thread, Step(t)
      PROVE  UdpIInv'
  BY <1>4, Step_Number, Step_Report, Step_Rearm, Step_Other DEF Step
<1>5. CASE udp_stop
  BY <1>5
     DEF udp_stop, epoll, threads, UdpIInv, UdpTypeOK, OneReader, OneShot, FreedLast, Exited
<1>6. CASE UNCHANGED udpvars
  BY <1>6
     DEF udpvars, epoll, threads, UdpIInv, UdpTypeOK, OneReader, OneShot, FreedLast, Exited
<1>7. QED
  BY <1>1, <1>2, <1>3, <1>4, <1>5, <1>6 DEF UdpNext

LEMMA UdpInductive == UdpSpec => []UdpIInv
<1>1. UdpInit => UdpIInv
  BY UdpInitially
<1>2. UdpIInv /\ [UdpNext]_udpvars => UdpIInv'
  BY UdpSteps
<1>3. QED
  BY <1>1, <1>2, PTL DEF UdpSpec

\* The workers' variables keep their types.
THEOREM UdpTypeCorrect == UdpSpec => []UdpTypeOK
<1>1. UdpIInv => UdpTypeOK
  BY DEF UdpIInv
<1>2. QED
  BY <1>1, UdpInductive, PTL

\* Never are two workers between recvfrom and udp_rearm, however many there
\* are: the registration with EPOLLONESHOT keeps them apart.
THEOREM UdpOneReader == UdpSpec => []OneReader
<1>1. UdpIInv => OneReader
  BY DEF UdpIInv
<1>2. QED
  BY <1>1, UdpInductive, PTL

\* main frees the tables when every worker has left its loop.
THEOREM UdpFreedLast == UdpSpec => []FreedLast
<1>1. UdpIInv => FreedLast
  BY DEF UdpIInv
<1>2. QED
  BY <1>1, UdpInductive, PTL

-----------------------------------------------------------------------------
\* Who has the mutex is at a place that needs it, and only thread 0 gets to the
\* timed cron.
Holder == /\ \A t \in Thread : mutex = t => pc[t] \in Locked
          /\ \A t \in Thread : pc[t] = "timed" => id[t] = 0

\* A thread moves: with the mutex, which it gives back, or from a place outside
\* of the sections under the mutex.
LEMMA HolderMoves ==
  ASSUME UdpIInv, Holder, NEW t \in Thread, NEW place \in Place, Goto(t, place),
         \A u \in Thread \ {t} : id'[u] = id[u],
         place = "timed" => id'[t] = 0,
         \/ mutex' = Free
         \/ mutex' = mutex /\ pc[t] \notin Locked
  PROVE  Holder'
<1>1. /\ pc'[t] = place
      /\ \A u \in Thread \ {t} : pc'[u] = pc[u]
  BY ThreadMoves
<1>2. ASSUME NEW u \in Thread, mutex' = u
      PROVE  pc'[u] \in Locked
  BY <1>1, <1>2, UdpAssumption DEF Holder
<1>3. ASSUME NEW u \in Thread, pc'[u] = "timed"
      PROVE  id'[u] = 0
  BY <1>1, <1>3 DEF Holder
<1>4. QED
  BY <1>2, <1>3 DEF Holder

LEMMA HolderStep ==
  ASSUME UdpIInv, Holder, NEW t \in Thread, Step(t)
  PROVE  Holder'
<1> USE DEF Place, Locked, Reading
<1>1. CASE Number(t)
  <2>1. \A u \in Thread \ {t} : id'[u] = id[u]
    BY <1>1 DEF Number, UdpIInv, UdpTypeOK
  <2>2. QED
    BY <1>1, <2>1, HolderMoves DEF Number, Unblock
<1>2. CASE Report(t)
  <2>1. PICK place \in {"recv", "exit"} : Goto(t, place)
    BY <1>2 DEF Report
  <2>2. QED
    BY <1>2, <2>1, HolderMoves DEF Report
<1>3. CASE TimedWakeup(t)
  <2>1. PICK place \in {"timed", "exit"} : Goto(t, place) /\ (place = "timed" => id[t] = 0)
    BY <1>3 DEF TimedWakeup
  <2>2. QED
    BY <1>3, <2>1, HolderMoves DEF TimedWakeup
<1>4. CASE TimedCron(t)
  BY <1>4, HolderMoves DEF TimedCron, Unblock
<1>5. CASE udp_input(t)
  <2>1. PICK place \in {"rearm", "clock"} : Goto(t, place)
    BY <1>5 DEF udp_input
  <2>2. QED
    BY <1>5, <2>1, HolderMoves DEF udp_input
<1>6. CASE ReadClock(t)
  <2>1. PICK place \in {"put", "cron"} : Unblock(t, place)
    BY <1>6 DEF ReadClock
  <2>2. QED
    BY <1>6, <2>1, HolderMoves DEF ReadClock, Unblock
<1>7. CASE nbhd_put(t)
  <2>1. PICK place \in {"decode", "cron"} : Goto(t, place)
    BY <1>7 DEF nbhd_put
  <2>2. QED
    BY <1>7, <2>1, HolderMoves DEF nbhd_put
<1>8. CASE Handle(t)
  BY <1>8, HolderMoves DEF Handle, Unblock
<1>9. CASE udp_cron(t)
  BY <1>9, HolderMoves DEF udp_cron, Unblock
<1>10. CASE udp_rearm(t)
  BY <1>10, HolderMoves DEF udp_rearm
<1>11. QED
  BY <1>1, <1>2, <1>3, <1>4, <1>5, <1>6, <1>7, <1>8, <1>9, <1>10 DEF Step

LEMMA HolderInductive == UdpSpec => []Holder
<1>1. UdpInit => Holder
  BY UdpAssumption DEF UdpInit, Holder
<1>2. UdpIInv /\ Holder /\ [UdpNext]_udpvars => Holder'
  <2> SUFFICES ASSUME UdpIInv, Holder, [UdpNext]_udpvars
               PROVE  Holder'
    OBVIOUS
  <2>1. ASSUME NEW t \in Thread, mutex_block(t)
        PROVE  Holder'
    BY <2>1 DEF mutex_block, threads, Holder
  <2>2. ASSUME NEW t \in Thread, Step(t)
        PROVE  Holder'
    BY <2>2, HolderStep
  <2>3. ASSUME \/ \E d \in Datagram : Arrive(d)
               \/ Shutdown \/ udp_stop \/ UNCHANGED udpvars
        PROVE  Holder'
    BY <2>3 DEF Arrive, Shutdown, udp_stop, udpvars, threads, Holder
  <2>4. QED
    BY <2>1, <2>2, <2>3 DEF UdpNext
<1>3. QED
  BY <1>1, <1>2, UdpInductive, PTL DEF UdpSpec

\* Only the timed cron of thread 0 may meet an nbhd_put that runs without the
\* mutex: for any number of workers.
THEOREM UdpPutMeetsTimedCronOnly == UdpSpec => []PutMeetsTimedCronOnly
<1>1. UdpIInv /\ Holder => PutMeetsTimedCronOnly
  BY DEF UdpIInv, Holder, OneReader, PutMeetsTimedCronOnly, Locked, Reading
<1>2. QED
  BY <1>1, UdpInductive, HolderInductive, PTL
=============================================================================
