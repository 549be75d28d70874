------------------------------ MODULE Announce ------------------------------
(***************************************************************************)
(* announce.c: how a node makes the address of its host known, again and   *)
(* again, and what becomes of it in the databases of the nodes that hear   *)
(* of it.                                                                  *)
(*                                                                         *)
(* Cron starts an announcement every four to six minutes.  It goes to the  *)
(* first nodes of a bucket, and from there to every node their replies     *)
(* name, each of them once.  Requests and replies may be lost, late and    *)
(* repeated; a reply may be broken anywhere: its session key is used up    *)
(* first, then its nodes are taken in one by one up to the broken one.     *)
(*                                                                         *)
(* A table is one function here; that its list and its hash stay in step   *)
(* is shown elsewhere.  A hostname is configured: without one none of this *)
(* happens.                                                                *)
(***************************************************************************)
EXTENDS Clock, Tables, FiniteSets

CONSTANTS
  Node, Me,
  FindLife,                        \* the 10 seconds of announce_put
  KeyTime,                         \* TIME_1_MINUTE, of the key of a request
  MinAnnounceGap, MaxAnnounceGap,  \* range of time_add_5_min_approx: 240 .. 359
  EntryLife,                       \* TIME_15_MINUTES, of a database entry
  Delay                            \* seconds a request may be on its way

\* The first condition is on the network; the other two hold for the times of
\* time.h.
ASSUME AnnounceAssumption ==
  /\ Me \in Node
  /\ {FindLife, KeyTime, MinAnnounceGap, MaxAnnounceGap, EntryLife, Delay} \subseteq Nat
  /\ Delay <= KeyTime
  /\ FindLife + MaxGap <= MinAnnounceGap
  /\ 2 * (MaxAnnounceGap + MaxLag) + Delay <= EntryLife

VARIABLES
  time_announce, \* p2p->time_announce
  made,          \* announcements started; the number of one is its lkp_id
  announce,      \* ANNOUNCE objects: lkp_id -> [asked, time_find]
  requests,      \* requests whose key is in the cache: <<lkp_id, node>> ->
                 \* [at, arrived]
  idle,          \* cron should have announced since, but knew no node
  db,            \* the host's entry at other nodes: node -> time_anno
  sent, again,   \* history: requests sent for live announcements, and for a
                 \* second time
  missed         \* history: node -> announcements since one arrived there

announcevars ==
  <<clocks, time_announce, made, announce, requests, idle, db, sent, again, missed>>

AnnounceInit ==
  /\ ClockInit
  /\ time_announce = 0 /\ made = 0
  /\ announce = Nothing /\ requests = Nothing /\ db = Nothing
  /\ idle = FALSE
  /\ sent = {} /\ again = {}
  /\ missed = Nothing

\* Two are missed in a row: nothing is promised.
Many == 3
MissedOneMore == [n \in DOMAIN missed |->
                    IF idle \/ missed[n] = Many THEN Many ELSE missed[n] + 1]

Requests(l, ns) == {<<l, n>> : n \in ns}

\* Requests for announcement l to nodes ns, when the table of keys is reqs.
send_announce(l, ns, reqs) ==
  /\ requests' = [r \in DOMAIN reqs \cup Requests(l, ns) |->
                    IF r \in Requests(l, ns) THEN [at |-> clock, arrived |-> FALSE]
                                             ELSE reqs[r]]
  /\ sent' = {r \in sent : r[1] \in DOMAIN announce'} \cup Requests(l, ns)
  /\ again' = again \cup (sent \cap Requests(l, ns))

\* announce_put and nbhd_announce, when the other announcements are live.
announce_put(live, reqs) ==
  \E first \in SUBSET (Node \ {Me}), gap \in MinAnnounceGap..MaxAnnounceGap :
    /\ made' = made + 1
    /\ announce' = With(live, made', [asked |-> first, time_find |-> clock + FindLife])
    /\ send_announce(made', first, reqs)
    /\ time_announce' = clock + gap
    /\ idle' = FALSE
    /\ missed' = MissedOneMore

\* Faulty: announcements are never deleted.
announce_expire_Never == announce

announce_expire == Without(announce, {l \in DOMAIN announce : clock > announce[l].time_find})
cache_expire_keys ==
  Without(requests, {r \in DOMAIN requests : clock > requests[r].at + KeyTime})

\* What p2p_cron does about announcements: the expiry comes first.
AnnounceCron ==
  /\ Cron
  /\ LET live == IF ExpiryIsDue THEN announce_expire ELSE announce
         reqs == IF ExpiryIsDue THEN cache_expire_keys ELSE requests
         due  == clock > time_announce
     IN  \/ due /\ announce_put(live, reqs)
         \/ /\ announce' = live /\ requests' = reqs
            /\ sent' = {r \in sent : r[1] \in DOMAIN live}
            /\ idle' = due
            /\ UNCHANGED <<time_announce, made, again, missed>>
  /\ UNCHANGED db

\* Faulty: a repeated announcement leaves the deadline alone.
Arrive_NotRenewed(l, n) ==
  /\ <<l, n>> \in DOMAIN requests
  /\ clock <= requests[<<l, n>>].at + Delay
  /\ requests' = [requests EXCEPT ![<<l, n>>].arrived = TRUE]
  /\ db' = IF n \in DOMAIN db THEN db ELSE With(db, n, clock + EntryLife)
  /\ missed' = With(missed, n, 0)
  /\ UNCHANGED <<clocks, time_announce, made, announce, idle, sent, again>>

\* p2p_announce at node n, once or more.
Arrive(l, n) ==
  /\ <<l, n>> \in DOMAIN requests
  /\ clock <= requests[<<l, n>>].at + Delay
  /\ requests' = [requests EXCEPT ![<<l, n>>].arrived = TRUE]
  /\ db' = With(db, n, clock + EntryLife)
  /\ missed' = With(missed, n, 0)
  /\ UNCHANGED <<clocks, time_announce, made, announce, idle, sent, again>>

\* Faulty: only the first nodes are remembered.
announce_resolve_Forgetful(l, ns, reqs) ==
  IF l \in DOMAIN announce
  THEN /\ announce' = announce
       /\ send_announce(l, ns \ (announce[l].asked \cup {Me}), reqs)
  ELSE requests' = reqs /\ UNCHANGED <<announce, sent, again>>

\* announce_resolve for each of the nodes ns.
announce_resolve(l, ns, reqs) ==
  IF l \in DOMAIN announce
  THEN /\ announce' = [announce EXCEPT ![l].asked = @ \cup ns]
       /\ send_announce(l, ns \ (announce[l].asked \cup {Me}), reqs)
  ELSE requests' = reqs /\ UNCHANGED <<announce, sent, again>>

\* The reply of node n, with its key: broken before the list of nodes, or with
\* the nodes in front of the first broken one.
p2p_node_announce(l, n) ==
  /\ <<l, n>> \in DOMAIN requests
  /\ requests[<<l, n>>].arrived
  /\ ReadClock
  /\ LET reqs == Without(requests, {<<l, n>>})
     IN  \/ requests' = reqs /\ UNCHANGED <<announce, sent, again>>
         \/ \E named \in SUBSET Node : announce_resolve(l, {n} \cup named, reqs)
  /\ UNCHANGED <<time_announce, made, idle, db, missed>>

\* db_expire at node n
Forget(n) == /\ n \in DOMAIN db
             /\ clock > db[n]
             /\ db' = Without(db, {n})
             /\ UNCHANGED <<clocks, time_announce, made, announce, requests, idle,
                            sent, again, missed>>

Wait == /\ Tick
        /\ UNCHANGED <<time_announce, made, announce, requests, idle, db, sent,
                       again, missed>>

AnnounceNext ==
  \/ AnnounceCron \/ Wait
  \/ \E l \in 1..made, n \in Node : Arrive(l, n) \/ p2p_node_announce(l, n)
  \/ \E n \in Node : Forget(n)

AnnounceSpec == AnnounceInit /\ [][AnnounceNext]_announcevars

-----------------------------------------------------------------------------
\* "Ask the node just once" (announce.c:148): whatever nodes the replies name,
\* in whatever order, complete or broken, an announcement goes to a node once,
\* and never to the node itself.
AnnouncedOnce ==
  /\ again = {}
  /\ \A r \in sent : r[2] # Me

\* An announcement is over, and its replies are idle, when cron starts the
\* next, although it is only deleted by an expiry pass some time after its
\* deadline: cron never has two of them go around.
OneAnnouncement == Cardinality(DOMAIN announce) <= 1

\* A node that hears one of two announcements in a row keeps the entry all the
\* time: the fifteen minutes of an entry last for two of the longest gaps, the
\* delay of cron at both, and the time the second request is on its way.
OnItsWay == \E l \in DOMAIN announce :
              l = made /\ clock + FindLife <= announce[l].time_find + Delay
StaysKnown ==
  \A n \in DOMAIN missed :
    ~idle /\ (missed[n] < 2 \/ (missed[n] = 2 /\ OnItsWay)) => n \in DOMAIN db
=============================================================================
