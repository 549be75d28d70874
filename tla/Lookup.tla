------------------------------- MODULE Lookup -------------------------------
(***************************************************************************)
(* lookup.c and the front ends' way into it: a request of a DNS or web     *)
(* client is answered from the database or starts a lookup, which asks     *)
(* node after node until one of them sends the address or the lookup       *)
(* expires.  All of it runs under the mutex of p2p.  Replies come in any   *)
(* order, repeatedly and late: any reply may arrive at any time.           *)
(*                                                                         *)
(* Lookup ids are drawn at random from 160 bits and taken as unique.  The  *)
(* pass of lkp_expire follows the items to the end (module List), so that  *)
(* the order of the list does not matter here.                             *)
(***************************************************************************)
EXTENDS Clock, Tables, Sequences, FiniteSets

CONSTANTS
  Task,      \* the requests of the front ends: struct task, struct request
  NoTask,    \* the context of a lookup without callback (nss, cmd)
  Node, Me,  \* node ids, and the own one
  LkpId,     \* lookup ids rand_urandom may draw
  First,     \* nodes of a bucket that are asked at first: 8
  Patience,  \* seconds a lookup may take: 5
  LastAsk    \* bound: no new lookup after this time

ASSUME LookupAssumption ==
  /\ NoTask \notin Task
  /\ Me \in Node
  /\ Patience \in Nat /\ First \in Nat /\ LastAsk \in Nat

VARIABLES
  list, hash,  \* the lookup ids of the items on the list, and in the hash
  lkp,         \* LOOKUP: lookup id -> [ctx, asked, time_find]
  calls,       \* history: the calls of the callback, by task
  sent,        \* history: LOOKUP messages sent, by lookup id and node
  born         \* history: when each lookup id was drawn

tables == <<list, hash, lkp>>
history == <<calls, sent, born>>
vars == <<clocks, tables, history>>

Answer == {"found", "timeout"}

Init == /\ ClockInit
        /\ list = {} /\ hash = {} /\ lkp = Nothing
        /\ calls = [t \in Task |-> << >>]
        /\ sent = [l \in LkpId |-> [n \in Node |-> 0]]
        /\ born = Nothing

\* Tasks whose lookup is under way.
Waiting == {lkp[l].ctx : l \in hash}

\* A front end allocates the context of a request when it is received.
New(t) == t \notin Waiting /\ calls[t] = << >>

Called(ts, answer) == [t \in Task |-> IF t \in ts THEN Append(calls[t], answer)
                                                 ELSE calls[t]]
SentTo(l, ns) == [sent EXCEPT ![l] = [n \in Node |->
                    IF n \in ns THEN @[n] + 1 ELSE @[n]]]

-----------------------------------------------------------------------------
(* Front ends *)

\* dns_lookup, web_lookup: the host is in the own database.
AnswerFromDatabase(t) ==
  /\ New(t)
  /\ calls' = Called({t}, "found")
  /\ UNCHANGED <<clocks, tables, sent, born>>

\* lkp_put, with the nodes that nbhd_lookup asks and remembers at once.  The
\* deadline is computed from the clock as cron or a packet left it.
lkp_put(ctx, l, nodes) ==
  /\ l \notin DOMAIN born
  /\ clock <= LastAsk
  /\ list' = list \cup {l}
  /\ hash' = hash \cup {l}
  /\ lkp' = With(lkp, l, [ctx |-> ctx, asked |-> nodes,
                          time_find |-> time_now + Patience])
  /\ sent' = SentTo(l, nodes)
  /\ born' = With(born, l, clock)
  /\ UNCHANGED <<clocks, calls>>

-----------------------------------------------------------------------------
(* Replies *)

\* Faulty: without the check for the own id.
lkp_resolve_Anyone(l, nodes) ==
  /\ l \in hash
  /\ lkp' = [lkp EXCEPT ![l].asked = @ \cup nodes]
  /\ sent' = SentTo(l, nodes \ lkp[l].asked)
  /\ UNCHANGED <<clocks, list, hash, calls, born>>

\* p2p_node_lookup: lkp_resolve for the sender and for each node it lists.
\* Nodes not asked yet are asked, the own id is only remembered.
lkp_resolve(l, nodes) ==
  /\ l \in hash
  /\ lkp' = [lkp EXCEPT ![l].asked = @ \cup nodes]
  /\ sent' = SentTo(l, nodes \ (lkp[l].asked \cup {Me}))
  /\ UNCHANGED <<clocks, list, hash, calls, born>>

\* lkp_del, of a set of lookups
lkp_del(ls) == /\ hash' = hash \ ls
               /\ list' = list \ ls
               /\ lkp' = Without(lkp, ls)

\* Faulty: the lookup is not deleted.
lkp_success_Again(l) ==
  /\ l \in hash
  /\ calls' = Called({lkp[l].ctx}, "found")
  /\ UNCHANGED <<clocks, tables, sent, born>>

\* p2p_value, lkp_success: a reply to a lookup that is gone is dropped.
lkp_success(l) ==
  /\ l \in hash
  /\ calls' = Called({lkp[l].ctx}, "found")
  /\ lkp_del({l})
  /\ UNCHANGED <<clocks, sent, born>>

-----------------------------------------------------------------------------
(* Cron *)

\* Faulty: lookups without callback are skipped.
Overdue_CalledBack == {l \in list : lkp[l].ctx # NoTask /\ clock > lkp[l].time_find}

\* Faulty: regardless of the deadline.
Overdue_All == list

Overdue == {l \in list : clock > lkp[l].time_find}

\* Faulty: the callbacks are not called.
lkp_expire_Silent ==
  /\ Cron
  /\ IF ExpiryIsDue THEN lkp_del(Overdue) ELSE UNCHANGED tables
  /\ UNCHANGED <<calls, sent, born>>

lkp_expire ==
  /\ Cron
  /\ IF ExpiryIsDue
     THEN /\ calls' = Called({lkp[l].ctx : l \in Overdue}, "timeout")
          /\ lkp_del(Overdue)
     ELSE UNCHANGED <<calls, tables>>
  /\ UNCHANGED <<sent, born>>

Pass == (Tick \/ ReadClock) /\ UNCHANGED <<tables, history>>

Others == Node \ {Me}
FirstNodes == {ns \in SUBSET Others : Cardinality(ns) <= First}

Ask(t, l) == New(t) /\ \E ns \in FirstNodes : lkp_put(t, l, ns)
AskSilently(l) == \E ns \in FirstNodes : lkp_put(NoTask, l, ns)

Next == \/ \E t \in Task : AnswerFromDatabase(t)
        \/ \E t \in Task, l \in LkpId : Ask(t, l)
        \/ \E l \in LkpId : AskSilently(l) \/ lkp_success(l)
        \/ \E l \in LkpId, ns \in SUBSET Node : lkp_resolve(l, ns)
        \/ lkp_expire
        \/ Pass

\* Thread 0 runs cron at least every MaxLag seconds, and time goes on.
Fairness == WF_vars(lkp_expire) /\ WF_vars(Tick /\ UNCHANGED <<tables, history>>)

Spec == Init /\ [][Next]_vars /\ Fairness

-----------------------------------------------------------------------------
TypeOK ==
  /\ ClockTypeOK
  /\ list \subseteq LkpId /\ hash \subseteq LkpId
  /\ lkp \in [DOMAIN lkp -> [ctx : Task \cup {NoTask}, asked : SUBSET Node,
                             time_find : Nat]]
  /\ calls \in [Task -> Seq(Answer)]
  /\ sent \in [LkpId -> [Node -> Nat]]
  /\ born \in [DOMAIN born -> Nat] /\ DOMAIN born \subseteq LkpId

\* List, hash and lookups stay in step through both ways to end a lookup: the
\* one that is missing in lkp_del would make the next reply or pass use freed
\* memory.
Agreement == InStep(list, hash, lkp)

\* The callback of a request is called once at most and its lookup is gone
\* then: dns_reply and web_reply free the context they are called with, so
\* that a second call, by a repeated reply or by a timeout that comes after
\* it, would use freed memory.
CallbackOnce ==
  /\ \A t \in Task : Len(calls[t]) <= 1
  /\ \A t \in Waiting \cap Task : calls[t] = << >>

\* "Ask every node only once" (lookup.c:152), however many replies name it;
\* and never the own node.
AskOnce ==
  \A l \in LkpId : sent[l][Me] = 0 /\ \A n \in Node : sent[l][n] <= 1

\* A lookup is over, with or without an answer, when its time, the longest
\* interval between two expiry passes and the delay of cron have passed.
Timely ==
  \A l \in hash : clock <= born[l] + Patience + MaxGap + MaxLag

\* A lookup that times out has had its time, but for what the clock was behind
\* when it began: "Expire after at least 5 seconds" (lookup.c:93) may be three,
\* as a front end starts its lookup by the clock that a packet or cron has read.
TimedOut(t) == calls'[t] # calls[t] /\ calls'[t][Len(calls'[t])] = "timeout"
NoEarlyTimeout ==
  [][\A t \in Task : TimedOut(t) =>
       \A l \in hash : lkp[l].ctx = t => clock + MaxLag > born[l] + Patience]_vars

\* How a request stands, as its front end sees it.
Status == [t \in Task |-> IF calls[t] # << >> THEN calls[t][1]
                          ELSE IF t \in Waiting THEN "waiting" ELSE "new"]

\* The lookup keeps what module Resolver promises the front ends; in particular
\* each request is answered, since every expiry pass covers the whole list.
Promise == INSTANCE Resolver WITH state <- Status
KeepsPromise == Promise!Spec
=============================================================================
