-------------------------------- MODULE P2p --------------------------------
(***************************************************************************)
(* p2p.c and send_p2p.c: a network of masala nodes that ping, find,        *)
(* announce and look up.  Packets are delivered in any order; they may be  *)
(* lost, and delivered again.                                              *)
(*                                                                         *)
(* An address stands for the node that has it.  Every node keeps its       *)
(* neighbours in one bucket, as it does until nbhd_split finds more than   *)
(* eight of them, so that every search yields the whole bucket; module     *)
(* Neighborhood has the buckets.  Deadlines are in modules Cache and       *)
(* Lookup: here, what can expire may do so at any time.  The part of       *)
(* p2p_decode before its mutex is taken is one step with the handler.      *)
(***************************************************************************)
EXTENDS Naturals, FiniteSets, Tables

CONSTANTS
  Node, Host,  \* nodes (and their addresses), host ids
  NoHost,      \* conf->hostname is NULL
  hostname,    \* conf->hostname of each node
  LkpId,       \* lookup ids, of lookups and of announcements
  NoLkp,
  PingLimit,   \* a node is bad after so many pings without an answer: 4
  Beginning,   \* how the network may begin: records [acquainted, db, ids, due];
               \* two nodes that have answered each other are acquainted, and
               \* what is in a database has been announced
  Again        \* bound: kinds of packets the network may deliver repeatedly

ASSUME P2pAssumption ==
  /\ hostname \in [Node -> Host \cup {NoHost}]
  /\ NoHost \notin Host /\ NoLkp \notin LkpId
  /\ PingLimit \in Nat \ {0}
  /\ \A s \in Beginning :
       /\ s.acquainted \subseteq Node \X Node /\ s.ids \subseteq LkpId
       /\ \A n, m \in Node : <<n, m>> \in s.acquainted => n # m /\ <<m, n>> \in s.acquainted
       /\ DOMAIN s.db = Node
       /\ \A n \in Node : \A h \in DOMAIN s.db[n] :
            h \in Host /\ s.db[n][h] \in Node /\ hostname[s.db[n][h]] = h

VARIABLES
  net,      \* packets on their way
  known,    \* the nodes in the bucket of each node
  pinged,   \* how many pings to each of them await an answer
  cache,    \* the session keys of each node
  lkp,      \* lookups: id -> [node, host, asked, state, addr, trail, holders]
  announce, \* announcements: id -> [node, asked, open]
  db,       \* the database of each node: host -> address
  gone,     \* history: how often each node has deleted each other one as bad
  requests, \* history: how often a request has been sent under each key
  ids,      \* bound: lookup ids rand_urandom has still to draw
  due       \* bound: pings and finds that cron has still to send

bounds == <<ids, due>>
nbhd == <<known, pinged, gone>>
vars == <<net, nbhd, cache, lkp, announce, db, requests, bounds>>

\* The nodes that n names to others: those that have answered its last ping.
Good(n) == {m \in known[n] : pinged[n][m] = 0}

Init == /\ net = {}
        /\ \E s \in Beginning :
             /\ known = [n \in Node |-> {m \in Node : <<n, m>> \in s.acquainted}]
             /\ db = s.db /\ ids = s.ids /\ due = s.due
        /\ pinged = [n \in Node |-> [m \in Node |-> 0]]
        /\ gone = pinged
        /\ cache = [n \in Node |-> {}]
        /\ lkp = Nothing /\ announce = Nothing
        /\ requests = Nothing

-----------------------------------------------------------------------------
(* Packets.  A session id is drawn at random from 160 bits.  It is named   *)
(* here after the request it is drawn for: the kind of request, who asks,  *)
(* who is asked, what for - a lookup or announcement, cron's maintenance,  *)
(* the bootstrap, or a greeting - and which time: cron's round, or how     *)
(* often the one who is greeted has been deleted before.                   *)

Key(q, n, m, for, i) == <<q, n, m, for, i>>
Greeting == "greeting"
Cron == "cron"
Bootstrap == "bootstrap"
Everyone == "multicast"
IsMulticast(key) == key[3] = Everyone

Packet(q, from, to, key, f, l, nodes, addr) ==
  [q |-> q, from |-> from, to |-> to, key |-> key, f |-> f, l |-> l,
   nodes |-> nodes, addr |-> addr]

send_ping(n, m, for, i) == Packet("p", n, m, Key("p", n, m, for, i), NoHost, NoLkp, {}, n)
send_find(n, m, for, i) == Packet("f", n, m, Key("f", n, m, for, i), NoHost, NoLkp, {}, n)
send_announce(n, m, l, h) == Packet("a", n, m, Key("a", n, m, l, 0), h, l, {}, n)
send_lookup(n, m, l, h)   == Packet("l", n, m, Key("l", n, m, l, 0), h, l, {}, n)
send_multicast(n, m, i) ==
  Packet("p", n, m, Key("p", n, Everyone, Cron, i), NoHost, NoLkp, {}, n)

\* A reply to packet p.
Reply(p, q, nodes, addr) == Packet(q, p.to, p.from, p.key, NoHost, p.l, nodes, addr)
send_pong(p) == Reply(p, "o", {}, p.to)
send_node(p, q) == Reply(p, q, Good(p.to), p.to)
send_value(p, addr) == Reply(p, "V", {}, addr)

Request == {"p", "f", "a", "l"}
KeysOf(packets) == {p.key : p \in {r \in packets : r.q \in Request}}

\* Node n sends packets: a key of each request goes to its cache, from which
\* the keys in used are gone; rest is what else is on its way.
Send(n, packets, used, rest) ==
  /\ net' = rest \cup packets
  /\ cache' = [cache EXCEPT ![n] = (@ \ used) \cup KeysOf(packets)]
  /\ requests' = [k \in DOMAIN requests \cup KeysOf(packets) |->
       (IF k \in DOMAIN requests THEN requests[k] ELSE 0)
         + IF k \in KeysOf(packets) THEN 1 ELSE 0]

-----------------------------------------------------------------------------
(* nbhd_put: nodes that were not known are added, pinged and asked for      *)
(* nodes near the own id.                                                   *)

NewAmong(n, ms) == ms \ (known[n] \cup {n})

\* Faulty: the new node is not asked for others.
Greetings_PingOnly(n, ms) ==
  {send_ping(n, m, Greeting, gone[n][m]) : m \in NewAmong(n, ms)}

Greetings(n, ms) ==
  UNION {{send_ping(n, m, Greeting, gone[n][m]), send_find(n, m, Greeting, gone[n][m])} :
           m \in NewAmong(n, ms)}

\* The pings that await an answer with the greetings among them, and without
\* those that the node in answered has answered.
Unanswered(n, ms, answered) ==
  [m \in Node |-> IF m \in answered THEN 0
                  ELSE IF m \in NewAmong(n, ms) THEN 1
                  ELSE pinged[n][m]]

\* ms are put into the bucket of n, and n has a pong from those in answered.
Remember(n, ms, answered) ==
  /\ known' = [known EXCEPT ![n] = @ \cup NewAmong(n, ms)]
  /\ pinged' = [pinged EXCEPT ![n] = Unanswered(n, ms, answered)]
  /\ UNCHANGED gone

-----------------------------------------------------------------------------
(* Requests.  p is the packet, rest what stays on its way.                  *)

p2p_ping(p, rest) ==
  /\ p.q = "p"
  /\ Remember(p.to, {p.from}, {})
  /\ Send(p.to, Greetings(p.to, {p.from}) \cup {send_pong(p)}, {}, rest)
  /\ UNCHANGED <<lkp, announce, db>>

p2p_find(p, rest) ==
  /\ p.q = "f"
  /\ Remember(p.to, {p.from}, {})
  /\ Send(p.to, Greetings(p.to, {p.from}) \cup {send_node(p, "F")}, {}, rest)
  /\ UNCHANGED <<lkp, announce, db>>

\* db_put, with the sender's address, and the nodes that might suit even better
p2p_announce(p, rest) ==
  /\ p.q = "a"
  /\ Remember(p.to, {p.from}, {})
  /\ db' = [db EXCEPT ![p.to] = With(@, p.f, p.from)]
  /\ Send(p.to, Greetings(p.to, {p.from}) \cup {send_node(p, "A")}, {}, rest)
  /\ UNCHANGED <<lkp, announce>>

\* db_send, or else the nodes that are closer
\* Faulty: any entry of the database will do.
Found_Any(p) ==
  IF db[p.to] # Nothing
  THEN send_value(p, db[p.to][CHOOSE h \in DOMAIN db[p.to] : TRUE])
  ELSE send_node(p, "L")

Found(p) == IF p.f \in DOMAIN db[p.to] THEN send_value(p, db[p.to][p.f])
                                       ELSE send_node(p, "L")

p2p_lookup(p, rest) ==
  /\ p.q = "l"
  /\ Remember(p.to, {p.from}, {})
  /\ Send(p.to, Greetings(p.to, {p.from}) \cup {Found(p)}, {}, rest)
  /\ UNCHANGED <<lkp, announce, db>>

-----------------------------------------------------------------------------
(* Replies.  Their sender is remembered even if their key is not found.     *)

cache_validate(p) == p.key \in cache[p.to]
Used(p) == IF IsMulticast(p.key) THEN {} ELSE {p.key}

Unexpected(p, rest) ==
  /\ p.q \notin Request
  /\ ~cache_validate(p)
  /\ Remember(p.to, {p.from}, {})
  /\ Send(p.to, Greetings(p.to, {p.from}), {}, rest)
  /\ UNCHANGED <<lkp, announce, db>>

p2p_pong(p, rest) ==
  /\ p.q = "o"
  /\ cache_validate(p)
  /\ Remember(p.to, {p.from}, {p.from})
  /\ Send(p.to, Greetings(p.to, {p.from}), Used(p), rest)
  /\ UNCHANGED <<lkp, announce, db>>

Named(p) == {p.from} \cup p.nodes

p2p_node_find(p, rest) ==
  /\ p.q = "F"
  /\ cache_validate(p)
  /\ Remember(p.to, Named(p), {})
  /\ Send(p.to, Greetings(p.to, Named(p)), Used(p), rest)
  /\ UNCHANGED <<lkp, announce, db>>

\* Faulty: everyone named is asked again.
Candidates_Again(p, search) == Named(p) \ {p.to}

\* Faulty: a node is remembered before it is looked for among those asked.
Candidates_Late(p, search) == {}

\* announce_resolve and lkp_resolve: whom to ask next, if table still has the
\* search of packet p; everyone named is remembered as asked.
Candidates(p, search) == Named(p) \ (search.asked \cup {p.to})
Asked(table, p) == [table EXCEPT ![p.l].asked = @ \cup Named(p)]

Announcing(p) == p.l \in DOMAIN announce /\ announce[p.l].open
p2p_node_announce(p, rest) ==
  /\ p.q = "A"
  /\ cache_validate(p)
  /\ Remember(p.to, Named(p), {})
  /\ LET onward == IF Announcing(p) THEN Candidates(p, announce[p.l]) ELSE {}
     IN  Send(p.to,
              Greetings(p.to, Named(p)) \cup
                {send_announce(p.to, m, p.l, hostname[p.to]) : m \in onward},
              Used(p), rest)
  /\ announce' = IF Announcing(p) THEN Asked(announce, p) ELSE announce
  /\ UNCHANGED <<lkp, db>>

Searching(p) == p.l \in DOMAIN lkp /\ lkp[p.l].state = "open"
\* Faulty: nodes count as good because others know them.
p2p_node_lookup_Trusting(p, rest) ==
  /\ p.q = "L"
  /\ cache_validate(p)
  /\ Remember(p.to, Named(p), Named(p) \ {p.to})
  /\ Send(p.to, Greetings(p.to, Named(p)), Used(p), rest)
  /\ UNCHANGED <<lkp, announce, db>>

p2p_node_lookup(p, rest) ==
  /\ p.q = "L"
  /\ cache_validate(p)
  /\ Remember(p.to, Named(p), {})
  /\ LET onward == IF Searching(p) THEN Candidates(p, lkp[p.l]) ELSE {}
     IN  Send(p.to,
              Greetings(p.to, Named(p)) \cup
                {send_lookup(p.to, m, p.l, lkp[p.l].host) : m \in onward},
              Used(p), rest)
  /\ lkp' = IF Searching(p) THEN Asked(lkp, p) ELSE lkp
  /\ UNCHANGED <<announce, db>>

p2p_value(p, rest) ==
  /\ p.q = "V"
  /\ cache_validate(p)
  /\ Remember(p.to, {p.from}, {})
  /\ Send(p.to, Greetings(p.to, {p.from}), Used(p), rest)
  /\ lkp' = IF Searching(p)
            THEN [lkp EXCEPT ![p.l].state = "found", ![p.l].addr = p.addr]
            ELSE lkp
  /\ UNCHANGED <<announce, db>>

p2p_decode(p, rest) ==
  \/ p2p_ping(p, rest) \/ p2p_find(p, rest) \/ p2p_announce(p, rest)
  \/ p2p_lookup(p, rest) \/ p2p_pong(p, rest) \/ p2p_node_find(p, rest)
  \/ p2p_node_announce(p, rest) \/ p2p_node_lookup(p, rest)
  \/ p2p_value(p, rest) \/ Unexpected(p, rest)

Deliver == \E p \in net : p2p_decode(p, net \ {p}) /\ UNCHANGED bounds
DeliverAgain == \E p \in net : p.q \in Again /\ p2p_decode(p, net) /\ UNCHANGED bounds

-----------------------------------------------------------------------------
(* Cron and front ends                                                      *)

\* Cron's requests of kind q to the nodes ms in round i; it sends those it has
\* not sent yet.
Due(q, n, ms, i) == {Key(q, n, m, Cron, i) : m \in ms}
Rounds == {k[5] : k \in due}
CronSends(q, n, ms, i, packets) ==
  /\ Due(q, n, ms, i) \subseteq due
  /\ due' = due \ Due(q, n, ms, i)
  /\ Send(n, packets, {}, net)
  /\ UNCHANGED ids

\* One ping, to everyone in the multicast group or to one bootstrap node.
p2p_bootstrap(n) == \E i \in Rounds :
  /\ known[n] = {}
  /\ \/ CronSends("p", n, {Everyone}, i, {send_multicast(n, m, i) : m \in Node \ {n}})
     \/ \E m \in Node \ {n} :
          CronSends("p", n, {Everyone}, i, {send_ping(n, m, Bootstrap, i)})
  /\ UNCHANGED <<nbhd, lkp, announce, db>>

\* A node is not good from the ping to its answer.  The trails of lookups, a
\* history, lose it for good.
nbhd_ping(n) == \E i \in Rounds, ms \in SUBSET known[n] \ {{}} :
  /\ CronSends("p", n, ms, i, {send_ping(n, m, Cron, i) : m \in ms})
  /\ pinged' = [pinged EXCEPT ![n] = [m \in Node |-> @[m] + IF m \in ms THEN 1 ELSE 0]]
  /\ lkp' = [l \in DOMAIN lkp |-> [lkp[l] EXCEPT !.trail = @ \ ({n} \X ms)]]
  /\ UNCHANGED <<known, gone, announce, db>>

nbhd_find(n) == \E i \in Rounds, ms \in SUBSET known[n] \ {{}} :
  /\ CronSends("f", n, ms, i, {send_find(n, m, Cron, i) : m \in ms})
  /\ UNCHANGED <<nbhd, lkp, announce, db>>

\* rand_urandom: a new id; which one does not matter.
Draw(l) == /\ ids # {}
           /\ l = CHOOSE i \in ids : TRUE
           /\ ids' = ids \ {l}
           /\ UNCHANGED due

\* announce_put and nbhd_announce
p2p_announce_myself(n, l) ==
  /\ Draw(l)
  /\ hostname[n] # NoHost
  /\ known[n] # {}
  /\ announce' = With(announce, l, [node |-> n, asked |-> known[n], open |-> TRUE])
  /\ Send(n, {send_announce(n, m, l, hostname[n]) : m \in known[n]}, {}, net)
  /\ UNCHANGED <<nbhd, lkp, db>>

\* lkp_put and nbhd_lookup.  For history, who is good for whom (trail) and who
\* has the host (holders) when the lookup begins.
lkp_put(n, h, l) ==
  /\ Draw(l)
  /\ lkp' = With(lkp, l, [node |-> n, host |-> h, asked |-> known[n],
                          state |-> "open", addr |-> n,
                          trail |-> {e \in Node \X Node : e[2] \in Good(e[1])},
                          holders |-> {m \in Node : h \in DOMAIN db[m]}])
  /\ Send(n, {send_lookup(n, m, l, h) : m \in known[n]}, {}, net)
  /\ UNCHANGED <<nbhd, announce, db>>

lkp_expire == \E l \in DOMAIN lkp :
  /\ lkp[l].state = "open"
  /\ lkp' = [lkp EXCEPT ![l].state = "timeout"]
  /\ UNCHANGED <<net, nbhd, cache, announce, db, requests, bounds>>

announce_expire == \E l \in DOMAIN announce :
  /\ announce[l].open
  /\ announce' = [announce EXCEPT ![l].open = FALSE]
  /\ UNCHANGED <<net, nbhd, cache, lkp, db, requests, bounds>>

db_expire == \E n \in Node : \E h \in DOMAIN db[n] :
  /\ db' = [db EXCEPT ![n] = Without(@, {h})]
  /\ UNCHANGED <<net, nbhd, cache, lkp, announce, requests, bounds>>

\* A pass of nbhd_expire deletes the first bad node at least, and may stop
\* before it has come to all of them (module Neighborhood).
Bad(n) == {m \in known[n] : pinged[n][m] >= PingLimit}
nbhd_expire == \E n \in Node : \E ms \in SUBSET Bad(n) \ {{}} :
  /\ known' = [known EXCEPT ![n] = @ \ ms]
  /\ pinged' = [pinged EXCEPT ![n] = [m \in Node |-> IF m \in ms THEN 0 ELSE @[m]]]
  /\ gone' = [gone EXCEPT ![n] = [m \in Node |-> @[m] + IF m \in ms THEN 1 ELSE 0]]
  /\ UNCHANGED <<net, cache, lkp, announce, db, requests, bounds>>

cache_expire == \E n \in Node : \E k \in cache[n] :
  /\ cache' = [cache EXCEPT ![n] = @ \ {k}]
  /\ UNCHANGED <<net, nbhd, lkp, announce, db, requests, bounds>>

Maintenance == \E n \in Node : p2p_bootstrap(n) \/ nbhd_ping(n) \/ nbhd_find(n)
Announce == \E n \in Node, l \in LkpId : p2p_announce_myself(n, l)
Search == \E n \in Node, h \in Host, l \in LkpId : lkp_put(n, h, l)
Expire == lkp_expire \/ announce_expire \/ db_expire \/ nbhd_expire \/ cache_expire

Next == Deliver \/ DeliverAgain \/ Maintenance \/ Announce \/ Search \/ Expire
Spec == Init /\ [][Next]_vars

\* A network without loss and repetition, where all replies come before the
\* 5 seconds of a lookup or the 10 of an announcement are over.
PromptExpire == net = {} /\ Expire
PromptNext == Deliver \/ Maintenance \/ Announce \/ Search \/ PromptExpire
PromptSpec == Init /\ [][PromptNext]_vars /\ WF_vars(Deliver)
                   /\ WF_vars(\E n \in Node : p2p_bootstrap(n))

-----------------------------------------------------------------------------
TypeOK ==
  /\ \A p \in net : p.to \in Node /\ p.from \in Node \ {p.to} /\ p.nodes \subseteq Node
  /\ known \in [Node -> SUBSET Node]
  /\ pinged \in [Node -> [Node -> Nat]] /\ gone \in [Node -> [Node -> Nat]]
  /\ \A n \in Node : cache[n] \subseteq DOMAIN requests
  /\ \A l \in DOMAIN lkp : lkp[l].node \in Node /\ lkp[l].asked \subseteq Node
  /\ \A l \in DOMAIN announce : announce[l].asked \subseteq Node
  /\ \A n \in Node : \A h \in DOMAIN db[n] : h \in Host /\ db[n][h] \in Node

\* A request is sent once: no node is asked twice by one lookup, announced to
\* twice by one announcement, or greeted twice unless it has been deleted as bad
\* in between, whatever nodes the replies name and however often they come.  The
\* traffic that one event causes is finite because of this.
NoRequestTwice == \A k \in DOMAIN requests : requests[k] <= 1

\* A node that is good has received our ping, so it has remembered us as well.
\* If it does not know us now it has deleted us as bad: the graph along which
\* lookups and announcements travel can be walked back as long as nobody has
\* left as many pings unanswered (neighborhood.c:310).
GoodIsMutual ==
  \A n \in Node : \A m \in Good(n) : n \in known[m] \/ gone[m][n] > 0

\* A lookup ends with the address of the host it was started for: no late or
\* repeated reply, of this or of another lookup, gives it another one.
AnswersAreTrue ==
  \A l \in DOMAIN lkp :
    lkp[l].state = "found" => hostname[lkp[l].addr] = lkp[l].host

\* One bootstrap ping is enough to join a network whose nodes all know each
\* other, if no other ping or find of cron's is due: in the end everyone knows
\* everyone else.
Complete(ns) == \A n, m \in ns : n # m => m \in Good(n)
Joining(n) ==
  /\ known[n] = {} /\ Complete(Node \ {n})
  /\ \E i \in Rounds : due = Due("p", n, {Everyone}, i)
JoinCompletes == (\E n \in Node : Joining(n)) ~> Complete(Node)

\* The nodes a lookup is sure to ask: those it has asked, those that have been
\* good for them since it began, without a ping of cron's to them since, and so
\* on.  A node that cron has pinged is left out of replies until its pong
\* (send_p2p.c:389), and a lookup that comes by meanwhile misses it.
Onward(s, ms) == ms \cup {e[2] : e \in {d \in s.trail : d[1] \in ms \ {s.node}}}
Within(s) ==
  LET R[k \in 0..Cardinality(Node)] == IF k = 0 THEN s.asked ELSE Onward(s, R[k - 1])
  IN  R[Cardinality(Node)] \ {s.node}

\* On a prompt network a lookup finds a host that some node within its reach
\* has had in its database since it began, unless cron's pings cut the reach off.
Hopeful(l) == l \in DOMAIN lkp /\ Within(lkp[l]) \cap lkp[l].holders # {}
FoundIfReachable ==
  \A l \in LkpId : Hopeful(l) ~> (Hopeful(l) => lkp[l].state = "found")
=============================================================================
