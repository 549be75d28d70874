------------------------------ MODULE Database ------------------------------
(***************************************************************************)
(* database.c: the addresses other nodes have announced to this one, by    *)
(* host id.  A DB object is reached through its item in the list and       *)
(* through the hash; the three are kept apart here, since db_put and       *)
(* db_del change each of them by a call of its own.                        *)
(***************************************************************************)
EXTENDS Integers, Sequences, FiniteSets, Sweeps, Tables

CONSTANTS Host, Addr,
          Life,     \* seconds an announcement is good for: TIME_15_MINUTES
          MaxTime   \* bound on the clock

ASSUME DatabaseAssumption == Life \in Nat /\ MaxTime \in Nat

VARIABLES
  list,   \* the list: the hosts of its items in order
  hash,   \* the hosts that db_find finds
  db,     \* the DB objects: host -> [c_addr, time_anno]
  now,    \* p2p->time_now
  told    \* history: host -> the last announcement, [c_addr, at]

vars == <<list, hash, db, now, told>>

Init == /\ list = << >> /\ hash = {}
        /\ db = Nothing
        /\ now = 0
        /\ told = Nothing

\* db_find, db_address (and db_send, which sends what db_address returns)
db_address(h) == db[h].c_addr

\* Faulty: a repeated announcement does not renew the address.
db_put_OldAddress(h, a) ==
  /\ IF h \in hash
     THEN UNCHANGED <<list, hash>>
     ELSE list' = Append(list, h) /\ hash' = hash \cup {h}
  /\ db' = With(db, h, [c_addr |-> IF h \in hash THEN db[h].c_addr ELSE a,
                        time_anno |-> now + Life])
  /\ told' = With(told, h, [c_addr |-> a, at |-> now])
  /\ UNCHANGED now

\* Faulty: a repeated announcement moves the entry to the end of the list.
db_put_ToTheEnd(h, a) ==
  /\ list' = Append(SelectSeq(list, LAMBDA x : x # h), h)
  /\ hash' = hash \cup {h}
  /\ db' = With(db, h, [c_addr |-> a, time_anno |-> now + Life])
  /\ told' = With(told, h, [c_addr |-> a, at |-> now])
  /\ UNCHANGED now

\* db_update: a repeated announcement renews the deadline and the address.
db_put(h, a) ==
  /\ IF h \in hash
     THEN UNCHANGED <<list, hash>>
     ELSE list' = Append(list, h) /\ hash' = hash \cup {h}
  /\ db' = With(db, h, [c_addr |-> a, time_anno |-> now + Life])
  /\ told' = With(told, h, [c_addr |-> a, at |-> now])
  /\ UNCHANGED now

Stale(h) == now > db[h].time_anno
StaleHosts == {h \in DOMAIN db : Stale(h)}

\* The loop of db_expire compares j with the counter that db_del lowers.
db_expire ==
  LET gone == {list[p] : p \in SweptAt(list, StaleHosts)}
  IN  /\ list' = CountedSweep(list, StaleHosts)
      /\ hash' = hash \ gone
      /\ db' = Without(db, gone)
      /\ UNCHANGED <<now, told>>

\* p2p_parse and p2p_cron read the clock.
Tick == /\ now < MaxTime
        /\ now' = now + 1
        /\ UNCHANGED <<list, hash, db, told>>

Announce == \E h \in Host, a \in Addr : db_put(h, a)

Next == Announce \/ db_expire \/ Tick

Spec == Init /\ [][Next]_vars

-----------------------------------------------------------------------------
\* A lookup is answered with the address of the latest announcement, and an
\* announcement of the last Life seconds is always there to answer with.
AnswersLatest ==
  /\ \A h \in hash : db_address(h) = told[h].c_addr
  /\ \A h \in DOMAIN told : now <= told[h].at + Life => h \in hash

\* "Delete node after 15 minutes without announcement." (database.c:112): a
\* pass of db_expire leaves no entry older than that.
ExpiryIsComplete ==
  [][(list' # list /\ hash' \subseteq hash) => StaleHosts \cap DOMAIN db' = {}]_vars
=============================================================================
