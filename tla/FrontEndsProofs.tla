-------------------------- MODULE FrontEndsProofs --------------------------
(***************************************************************************)
(* What clients are told, who owns the context of a request, what a        *)
(* console prints and what is left of a shutdown, for any front ends       *)
(* together, any number of hosts, addresses, contexts and any times;       *)
(* before that, what the database answers, although its expiry passes are  *)
(* partial; and what the dns thread reads of a query and sends back of it.  *)
(***************************************************************************)
EXTENDS FrontEnds, Dns, SweepsProofs

(* The database by itself.                                                   *)

TypeOK ==
  /\ hash = DOMAIN db
  /\ hash \subseteq DOMAIN told /\ DOMAIN told \subseteq Host
  /\ now \in Nat
  /\ \A h \in DOMAIN told : told[h].c_addr \in Addr /\ told[h].at \in Nat

\* An entry is what the last announcement says.
Told == \A h \in hash : /\ db[h].c_addr = told[h].c_addr
                        /\ db[h].time_anno = told[h].at + Life

DatabaseIInv == TypeOK /\ Told /\ AnswersLatest

LEMMA DatabaseInit == Init => DatabaseIInv
BY DatabaseAssumption DEF Init, Nothing, DatabaseIInv, TypeOK, Told, AnswersLatest

LEMMA PutKeepsIInv ==
  ASSUME DatabaseIInv, NEW h \in Host, NEW a \in Addr, db_put(h, a)
  PROVE  DatabaseIInv'
<1> USE DatabaseAssumption
<1>1. hash' = hash \cup {h}
  BY DEF db_put
<1>2. now' = now
  BY DEF db_put
<1>3. /\ DOMAIN db' = DOMAIN db \cup {h}
      /\ db'[h] = [c_addr |-> a, time_anno |-> now + Life]
      /\ \A g \in DOMAIN db : g # h => db'[g] = db[g]
  BY DEF db_put, With
<1>4. /\ DOMAIN told' = DOMAIN told \cup {h}
      /\ told'[h] = [c_addr |-> a, at |-> now]
      /\ \A g \in DOMAIN told : g # h => told'[g] = told[g]
  BY DEF db_put, With
<1>5. TypeOK'
  BY <1>1, <1>2, <1>3, <1>4 DEF DatabaseIInv, TypeOK
<1>6. Told'
  BY <1>1, <1>3, <1>4 DEF DatabaseIInv, TypeOK, Told
<1>7. AnswersLatest'
  BY <1>1, <1>2, <1>3, <1>4 DEF DatabaseIInv, TypeOK, AnswersLatest, db_address
<1> QED BY <1>5, <1>6, <1>7 DEF DatabaseIInv

\* What a pass deletes is stale, whatever it misses.
LEMMA ExpireDeletesStale ==
  ASSUME DatabaseIInv, db_expire
  PROVE  /\ hash' \subseteq hash
         /\ \A h \in hash \ hash' : now > told[h].at + Life
         /\ DOMAIN db' = hash'
         /\ \A h \in hash' : db'[h] = db[h]
<1> DEFINE gone == {list[p] : p \in SweptAt(list, StaleHosts)}
<1>1. gone \subseteq StaleHosts
  BY DEF SweptAt, BadAt
<1>2. hash' = hash \ gone /\ db' = Without(db, gone)
  BY DEF db_expire
<1>3. \A h \in gone : now > told[h].at + Life
  BY <1>1 DEF StaleHosts, Stale, DatabaseIInv, TypeOK, Told
<1> QED
  <2> HIDE DEF gone
  <2> QED BY <1>2, <1>3 DEF Without, DatabaseIInv, TypeOK

LEMMA ExpireKeepsIInv ==
  ASSUME DatabaseIInv, db_expire
  PROVE  DatabaseIInv'
<1> USE DatabaseAssumption
<1>1. now' = now /\ told' = told
  BY DEF db_expire
<1>2. TypeOK' /\ Told'
  BY <1>1, ExpireDeletesStale DEF DatabaseIInv, TypeOK, Told
<1>3. \A h \in hash' : (db_address(h) = told[h].c_addr)'
  BY <1>2 DEF TypeOK, Told, db_address
<1>4. \A h \in DOMAIN told : now <= told[h].at + Life => h \in hash'
  BY ExpireDeletesStale DEF DatabaseIInv, TypeOK, AnswersLatest
<1> QED BY <1>1, <1>2, <1>3, <1>4 DEF DatabaseIInv, AnswersLatest

LEMMA TickKeepsIInv ==
  ASSUME DatabaseIInv, Tick \/ UNCHANGED vars
  PROVE  DatabaseIInv'
<1>1. /\ UNCHANGED <<list, hash, db, told>>
      /\ now' = now + 1 \/ now' = now
  BY DEF Tick, vars
<1>2. TypeOK' /\ Told'
  BY <1>1 DEF DatabaseIInv, TypeOK, Told
<1>3. AnswersLatest'
  BY <1>1, DatabaseAssumption DEF DatabaseIInv, TypeOK, AnswersLatest, db_address
<1> QED BY <1>2, <1>3 DEF DatabaseIInv

LEMMA DatabaseNext ==
  ASSUME DatabaseIInv, [Next]_vars
  PROVE  DatabaseIInv'
BY PutKeepsIInv, ExpireKeepsIInv, TickKeepsIInv DEF Next, Announce

\* The invariant behind it: an entry is what the last announcement of its host
\* says, and no pass of db_expire deletes one that is not stale (database.c:108).
THEOREM DatabaseEntriesAreTold == Spec => []DatabaseIInv
BY DatabaseInit, DatabaseNext, PTL DEF Spec

\* db_address answers with the address of the latest announcement (db_update),
\* and finds whoever has announced himself in the last Life seconds.
THEOREM DatabaseAnswersLatest == Spec => []AnswersLatest
BY DatabaseEntriesAreTold, PTL DEF DatabaseIInv

-----------------------------------------------------------------------------
(* The front ends.                                                           *)

Place == {"start", "top", "recv", "ask", "answer", "search", "handed", "walk",
          "lost", "exit"}
Status == {"online", "shutdown", "freed"}

FrontTypeOK ==
  /\ status \in Status
  /\ pc \in [Loop -> Place]
  /\ at \in [Loop -> [host : Host \cup {None}, held : SUBSET Addr]]
  /\ own \in [Loop -> Context \cup {None}]
  /\ open \subseteq Context /\ waiting \subseteq Context
  /\ steady \subseteq Loop
  /\ late \in [Loop -> Nat]

\* One owner, said without counting; and a thread that waits for a request has
\* nothing in hand.
Owned ==
  /\ \A c \in waiting : c \in open /\ Holders(c) = {}
  /\ \A c \in open \ waiting : \E f \in Loop : Holders(c) = {f}
  /\ \A c \in Context \ open : Holders(c) = {}
  /\ \A f \in Loop : pc[f] = "recv" \/ f \in Console \cup {"nss"} => own[f] = None

\* A steady client's pointer shows the address that its host has announced
\* last, and not so long ago that an expiry pass could free it.
Steady ==
  \A f \in steady :
    /\ pc[f] = "answer"
    /\ at[f].host \in hash
    /\ at[f].held = {told[at[f].host].c_addr}
    /\ now <= told[at[f].host].at + Life

\* Only a thread that has read "online" waits for a request.
Late == \A f \in Loop : /\ Online \/ pc[f] = "recv" => late[f] = 0
                        /\ late[f] <= 1

FrontIInv == DatabaseIInv /\ FrontTypeOK /\ Owned /\ Steady /\ Late

LEMMA FrontInitially == FrontInit => FrontIInv
<1> SUFFICES ASSUME FrontInit PROVE FrontIInv
  OBVIOUS
<1> USE FrontEndsAssumption
<1>1. DatabaseIInv
  BY DatabaseInit DEF FrontInit
<1>2. FrontTypeOK
  BY DEF FrontInit, FrontTypeOK, Status, Place, Idle
<1>3. \A c \in Context : Holders(c) = {}
  BY DEF FrontInit, Holders
<1>4. Owned /\ Steady /\ Late
  BY <1>3 DEF FrontInit, Owned, Steady, Late
<1> QED BY <1>1, <1>2, <1>4 DEF FrontIInv

-----------------------------------------------------------------------------
(* What the steps of the threads have in common *)

LEMMA TablesStay ==
  ASSUME FrontIInv, UNCHANGED tables
  PROVE  DatabaseIInv'
BY DatabaseNext DEF FrontIInv, tables, vars

\* Steady clients are left alone.
LEMMA SteadyStays ==
  ASSUME FrontIInv, UNCHANGED tables, steady' \subseteq steady,
         \A f \in steady' : pc'[f] = pc[f] /\ at'[f] = at[f]
  PROVE  Steady'
BY DEF FrontIInv, Steady, tables

\* Contexts stay where they are, and so do the threads, but for one that has
\* nothing to hand on.
LEMMA OwnedStays ==
  ASSUME FrontIInv, UNCHANGED requests,
         \A f \in Loop : /\ pc'[f] = "handed" <=> pc[f] = "handed"
                         /\ pc'[f] = "recv" => pc[f] = "recv" \/ own[f] = None
  PROVE  Owned'
<1>1. \A c : Holders(c)' = Holders(c)
  BY DEF Holders, requests
<1> QED BY <1>1 DEF FrontIInv, Owned, requests

\* A thread at a place with nothing to answer goes on, and looks another host
\* up or none.
LEMMA Moves ==
  ASSUME FrontIInv, NEW f \in Loop, NEW place \in Place \ {"recv", "handed"},
         Goto(f, place), pc[f] \notin {"answer", "handed"},
         at' \in [Loop -> [host : Host \cup {None}, held : SUBSET Addr]],
         \A g \in Loop \ {f} : at'[g] = at[g],
         UNCHANGED <<tables, status, requests, steady, late>>
  PROVE  FrontIInv'
<1>1. /\ pc' \in [Loop -> Place] /\ pc'[f] = place
      /\ \A g \in Loop \ {f} : pc'[g] = pc[g]
  BY DEF Goto, FrontIInv, FrontTypeOK
<1>2. f \notin steady
  BY DEF FrontIInv, Steady
<1>3. FrontTypeOK'
  BY <1>1 DEF FrontIInv, FrontTypeOK, requests
<1>4. Owned'
  BY <1>1, OwnedStays
<1>5. Steady'
  BY <1>1, <1>2, SteadyStays DEF FrontIInv, FrontTypeOK
<1>6. Late'
  BY <1>1 DEF FrontIInv, Late, Online
<1> QED BY <1>3, <1>4, <1>5, <1>6, TablesStay DEF FrontIInv

\* The loop gives back what it still has in hand.
LEMMA Drops ==
  ASSUME FrontIInv, NEW f \in Loop, Drop(f), pc[f] # "handed",
         NEW place \in Place \ {"handed"}, Goto(f, place)
  PROVE  /\ own' \in [Loop -> Context \cup {None}]
         /\ open' \subseteq Context /\ waiting' \subseteq Context
         /\ Owned'
<1> USE FrontEndsAssumption
<1>1. /\ pc'[f] = place /\ \A g \in Loop \ {f} : pc'[g] = pc[g]
      /\ own'[f] = None /\ \A g \in Loop \ {f} : own'[g] = own[g]
      /\ own' \in [Loop -> Context \cup {None}]
  BY DEF Goto, Drop, FrontIInv, FrontTypeOK
<1>2. open' = open \ {own[f]} /\ waiting' = waiting
  BY DEF Drop
<1>3. None \notin Context /\ open \subseteq Context
  BY DEF FrontIInv, FrontTypeOK
<1>4. \A c \in Context : Holders(c)' = Holders(c) \ {f}
  BY <1>1, <1>3 DEF Holders
<1>5. \A c \in Context : c = own[f] <=> f \in Holders(c)
  BY DEF Holders
<1>6. ASSUME NEW c \in waiting PROVE c \in open' /\ Holders(c)' = {}
  BY <1>2, <1>4, <1>5 DEF FrontIInv, Owned, FrontTypeOK
<1>7. ASSUME NEW c \in open' \ waiting PROVE \E g \in Loop : Holders(c)' = {g}
  <2>1. PICK g \in Loop : Holders(c) = {g}
    BY <1>2 DEF FrontIInv, Owned
  <2>2. c \in Context /\ f \notin Holders(c)
    BY <1>2, <1>3, <1>5
  <2> QED BY <1>4, <2>1, <2>2
<1>8. ASSUME NEW c \in Context \ open' PROVE Holders(c)' = {}
  <2>1. CASE c \notin open
    BY <1>4, <2>1 DEF FrontIInv, Owned
  <2>2. CASE c = own[f]
    <3>1. f \in Holders(c)
      BY <1>5, <2>2
    <3>2. \A g \in Holders(c) : g = f
      BY <3>1 DEF FrontIInv, Owned
    <3> QED BY <1>4, <3>2
  <2> QED BY <1>2, <2>1, <2>2
<1>9. \A g \in Loop : pc'[g] = "recv" \/ g \in Console \cup {"nss"} => own'[g] = None
  BY <1>1 DEF FrontIInv, Owned
<1>10. waiting' = waiting /\ waiting' \subseteq Context /\ open' \subseteq Context
  BY <1>2 DEF FrontIInv, FrontTypeOK
<1> QED BY <1>1, <1>6, <1>7, <1>8, <1>9, <1>10 DEF Owned

-----------------------------------------------------------------------------
(* The steps of a thread *)

\* The top of a loop: what is left over is freed, unless the web thread ends.
LEMMA TopKeepsIInv ==
  ASSUME FrontIInv, NEW f \in Loop, pc[f] = "top", Proceed(f),
         UNCHANGED <<tables, status, at, walk, steady, late>>,
         \/ Drop(f)
         \/ UNCHANGED requests /\ (~Online \/ f \in Console \cup {"nss"})
  PROVE  FrontIInv'
<1>1. PICK place \in {"recv", "exit"} : Goto(f, place) /\ (place = "recv" => Online)
  BY DEF Proceed
<1>2. /\ pc' \in [Loop -> Place] /\ pc'[f] = place
      /\ \A g \in Loop \ {f} : pc'[g] = pc[g]
  BY <1>1 DEF Goto, FrontIInv, FrontTypeOK, Place
<1>3. /\ own' \in [Loop -> Context \cup {None}]
      /\ open' \subseteq Context /\ waiting' \subseteq Context
      /\ Owned'
  <2>1. CASE Drop(f)
    BY <1>1, <2>1, Drops DEF Place
  <2>2. CASE UNCHANGED requests /\ (~Online \/ f \in Console \cup {"nss"})
    <3>1. Owned'
      BY <1>1, <1>2, <2>2, OwnedStays DEF FrontIInv, Owned
    <3> QED BY <2>2, <3>1 DEF FrontIInv, FrontTypeOK, requests
  <2> QED BY <2>1, <2>2
<1>4. FrontTypeOK'
  BY <1>2, <1>3 DEF FrontIInv, FrontTypeOK
<1>5. f \notin steady
  BY DEF FrontIInv, Steady
<1>6. Steady'
  BY <1>2, <1>5, SteadyStays DEF FrontIInv, FrontTypeOK
<1>7. Late'
  BY <1>1, <1>2 DEF FrontIInv, Late, Online
<1> QED BY <1>3, <1>4, <1>6, <1>7, TablesStay DEF FrontIInv

\* A thread takes up a request that comes with the context c.
LEMMA TakesUp ==
  ASSUME FrontIInv, NEW f \in Loop, TakeUp(f),
         NEW place \in Place \ {"recv", "handed"}, Goto(f, place),
         NEW c \in Context \cup {None}, c \notin open, f \in Console \cup {"nss"} => c = None,
         own' = [own EXCEPT ![f] = c], open' = open \cup ({c} \ {None}), waiting' = waiting,
         at' \in [Loop -> [host : Host \cup {None}, held : SUBSET Addr]],
         \A g \in Loop \ {f} : at'[g] = at[g],
         status' \in {status, "shutdown"},
         UNCHANGED <<tables, steady>>
  PROVE  FrontIInv'
<1> USE FrontEndsAssumption
<1>1. /\ pc' \in [Loop -> Place] /\ pc'[f] = place /\ pc[f] = "recv"
      /\ \A g \in Loop \ {f} : pc'[g] = pc[g]
  BY DEF Goto, TakeUp, FrontIInv, FrontTypeOK
<1>2. /\ own' \in [Loop -> Context \cup {None}] /\ own'[f] = c /\ own[f] = None
      /\ \A g \in Loop \ {f} : own'[g] = own[g]
  BY <1>1 DEF FrontIInv, FrontTypeOK, Owned
<1>3. late' \in [Loop -> Nat] /\ late'[f] <= 1 /\ (Online => late'[f] = 0)
      /\ \A g \in Loop \ {f} : late'[g] = late[g]
  <2>1. late[f] = 0 /\ late \in [Loop -> Nat]
    BY <1>1 DEF FrontIInv, FrontTypeOK, Late
  <2> QED BY <2>1 DEF TakeUp
<1>4. FrontTypeOK'
  BY <1>1, <1>2, <1>3 DEF FrontIInv, FrontTypeOK, Status
<1>5. \A d \in Context : Holders(d)' = IF d = c THEN Holders(d) \cup {f} ELSE Holders(d)
  BY <1>1, <1>2 DEF Holders
<1>6. \A d \in Context : d = c => Holders(d) = {}
  BY DEF FrontIInv, Owned
<1>7. Owned'
  <2>1. open \subseteq Context /\ waiting \subseteq Context /\ None \notin Context
    BY DEF FrontIInv, FrontTypeOK
  <2>2. c \notin waiting
    BY DEF FrontIInv, Owned
  <2>3. \A d \in waiting : d \in open' /\ Holders(d)' = {}
    BY <1>5, <2>1, <2>2 DEF FrontIInv, Owned
  <2>4. ASSUME NEW d \in open' \ waiting PROVE \E g \in Loop : Holders(d)' = {g}
    <3>1. CASE d = c
      <4>1. Holders(d)' = {f}
        BY <1>5, <1>6, <2>1, <3>1
      <4> QED BY <4>1
    <3>2. CASE d # c
      <4>1. PICK g \in Loop : Holders(d) = {g}
        BY <3>2 DEF FrontIInv, Owned
      <4>2. d \in Context
        BY <2>1, <3>2
      <4> QED BY <1>5, <3>2, <4>1, <4>2
    <3> QED BY <3>1, <3>2
  <2>5. \A d \in Context \ open' : Holders(d)' = {}
    BY <1>5, <2>1 DEF FrontIInv, Owned
  <2>6. \A g \in Loop : pc'[g] = "recv" \/ g \in Console \cup {"nss"} => own'[g] = None
    BY <1>1, <1>2 DEF FrontIInv, Owned
  <2> QED BY <2>3, <2>4, <2>5, <2>6 DEF Owned
<1>8. f \notin steady
  BY <1>1 DEF FrontIInv, Steady
<1>9. Steady'
  BY <1>1, <1>8, SteadyStays DEF FrontIInv, FrontTypeOK
<1>10. Late'
  BY <1>1, <1>3 DEF FrontIInv, Late, Online
<1> QED BY <1>4, <1>7, <1>9, <1>10, TablesStay DEF FrontIInv

LEMMA RequestKeepsIInv ==
  ASSUME FrontIInv, NEW f \in Loop, NEW c \in Context \cup {None},
         f \in Console \cup {"nss"} => c = None, Request(f, c)
  PROVE  FrontIInv'
<1>1. CASE Refuse(f, c)
  <2>1. at' \in [Loop -> [host : Host \cup {None}, held : SUBSET Addr]] /\ at' = at
    BY <1>1 DEF Refuse, FrontIInv, FrontTypeOK
  <2>2. "top" \in Place \ {"recv", "handed"}
    BY DEF Place
  <2> QED BY <1>1, <2>1, <2>2, TakesUp DEF Refuse, Obtain
<1>2. ASSUME NEW h \in Host, Receive(f, c, h) PROVE FrontIInv'
  <2>1. /\ at' \in [Loop -> [host : Host \cup {None}, held : SUBSET Addr]]
        /\ \A g \in Loop \ {f} : at'[g] = at[g]
    BY <1>2 DEF Receive, Look, Idle, FrontIInv, FrontTypeOK
  <2>2. "ask" \in Place \ {"recv", "handed"}
    BY DEF Place
  <2> QED BY <1>2, <2>1, <2>2, TakesUp DEF Receive, Look, Obtain
<1> QED BY <1>1, <1>2 DEF Request

\* db_address, when the host is found.
LEMMA FetchKeepsIInv ==
  ASSUME FrontIInv, NEW f \in Loop, Fetch(f)
  PROVE  FrontIInv'
<1> DEFINE h == at[f].host
<1>1. CASE h \notin hash
  <2>1. PICK place \in {"top", "search"} :
          Goto(f, place) /\ (at' = at \/ at' = [at EXCEPT ![f] = Idle])
    BY <1>1 DEF Fetch, IdleAgain
  <2>2. /\ at' \in [Loop -> [host : Host \cup {None}, held : SUBSET Addr]]
        /\ \A g \in Loop \ {f} : at'[g] = at[g]
    BY <2>1 DEF Idle, FrontIInv, FrontTypeOK
  <2>3. /\ pc[f] \notin {"answer", "handed"}
        /\ UNCHANGED <<tables, status, requests, steady, late>>
    BY <1>1 DEF Fetch
  <2> QED BY <2>1, <2>2, <2>3, Moves DEF Place
<1>2. CASE h \in hash
  <2>1. /\ pc[f] = "ask" /\ Goto(f, "answer")
        /\ at' = [at EXCEPT ![f].held = {db_address(h)}]
        /\ steady' = IF Live(h) THEN steady \cup {f} ELSE steady
        /\ UNCHANGED <<tables, status, requests, walk, late>>
    BY <1>2 DEF Fetch
  <2>2. db_address(h) = told[h].c_addr /\ told[h].c_addr \in Addr
    BY <1>2 DEF FrontIInv, DatabaseIInv, AnswersLatest, TypeOK
  <2>3. /\ pc' \in [Loop -> Place] /\ pc'[f] = "answer"
        /\ \A g \in Loop \ {f} : pc'[g] = pc[g]
    BY <2>1 DEF Goto, FrontIInv, FrontTypeOK, Place
  <2>4. /\ at' \in [Loop -> [host : Host \cup {None}, held : SUBSET Addr]]
        /\ at'[f].host = h /\ at'[f].held = {told[h].c_addr}
        /\ \A g \in Loop \ {f} : at'[g] = at[g]
    <3>1. at[f] \in [host : Host \cup {None}, held : SUBSET Addr]
      BY DEF FrontIInv, FrontTypeOK
    <3>2. at' = [at EXCEPT ![f] = [@ EXCEPT !.held = {told[h].c_addr}]]
      BY <2>1, <2>2
    <3>3. at'[f] = [at[f] EXCEPT !.held = {told[h].c_addr}]
      BY <3>2 DEF FrontIInv, FrontTypeOK
    <3>4. [at[f] EXCEPT !.held = {told[h].c_addr}] \in [host : Host \cup {None}, held : SUBSET Addr]
      BY <2>2, <3>1
    <3> QED BY <3>1, <3>2, <3>3, <3>4 DEF FrontIInv, FrontTypeOK
  <2>5. FrontTypeOK'
    BY <2>1, <2>3, <2>4 DEF FrontIInv, FrontTypeOK, requests
  <2>6. Owned'
    BY <2>1, <2>3, OwnedStays
  <2>7. Steady'
    <3>1. UNCHANGED <<hash, told, now>>
      BY <2>1 DEF tables
    <3>2. f \notin steady
      BY <2>1 DEF FrontIInv, Steady
    <3>3. steady' = IF now <= told[h].at + Life THEN steady \cup {f} ELSE steady
      BY <2>1 DEF Live
    <3>4. ASSUME NEW g \in steady', g # f
          PROVE  /\ pc'[g] = "answer" /\ at'[g].host \in hash
                 /\ at'[g].held = {told[at'[g].host].c_addr}
                 /\ now <= told[at'[g].host].at + Life
      <4>1. g \in steady /\ g \in Loop
        BY <3>3, <3>4 DEF FrontIInv, FrontTypeOK
      <4>2. pc'[g] = pc[g] /\ at'[g] = at[g]
        BY <2>3, <2>4, <3>4, <4>1
      <4> QED BY <4>1, <4>2 DEF FrontIInv, Steady
    <3>5. f \in steady' => now <= told[h].at + Life
      BY <3>2, <3>3
    <3> QED BY <1>2, <2>3, <2>4, <3>1, <3>4, <3>5 DEF Steady
  <2>8. Late'
    BY <2>1, <2>3 DEF FrontIInv, Late, Online
  <2> QED BY <2>1, <2>5, <2>6, <2>7, <2>8, TablesStay DEF FrontIInv
<1> QED BY <1>1, <1>2

LEMMA ReplyKeepsIInv ==
  ASSUME FrontIInv, NEW f \in Loop, Reply(f)
  PROVE  FrontIInv'
<1>1. /\ pc' \in [Loop -> Place] /\ pc'[f] = "top"
      /\ \A g \in Loop \ {f} : pc'[g] = pc[g]
  BY DEF Reply, Goto, FrontIInv, FrontTypeOK, Place
<1>2. /\ at' \in [Loop -> [host : Host \cup {None}, held : SUBSET Addr]]
      /\ \A g \in Loop \ {f} : at'[g] = at[g]
  BY DEF Reply, IdleAgain, Idle, FrontIInv, FrontTypeOK
<1>3. /\ own' \in [Loop -> Context \cup {None}]
      /\ open' \subseteq Context /\ waiting' \subseteq Context
      /\ Owned'
  BY Drops DEF Reply, Place
<1>4. FrontTypeOK'
  BY <1>1, <1>2, <1>3 DEF Reply, FrontIInv, FrontTypeOK
<1>5. Steady'
  BY <1>1, <1>2, SteadyStays DEF Reply, FrontIInv, FrontTypeOK
<1>6. Late'
  BY <1>1 DEF Reply, FrontIInv, Late, Online
<1> QED BY <1>3, <1>4, <1>5, <1>6, TablesStay DEF Reply, FrontIInv

\* lkp_put takes the context over.
LEMMA SearchKeepsIInv ==
  ASSUME FrontIInv, NEW f \in Loop, Search(f)
  PROVE  FrontIInv'
<1> USE FrontEndsAssumption
<1>1. /\ pc' \in [Loop -> Place] /\ pc'[f] = "handed" /\ pc[f] = "search"
      /\ \A g \in Loop \ {f} : pc'[g] = pc[g]
  BY DEF Search, Goto, FrontIInv, FrontTypeOK, Place
<1>2. /\ at' \in [Loop -> [host : Host \cup {None}, held : SUBSET Addr]]
      /\ \A g \in Loop \ {f} : at'[g] = at[g]
  BY DEF Search, IdleAgain, Idle, FrontIInv, FrontTypeOK
<1>3. /\ own' = own /\ open' = open
      /\ waiting' = waiting \cup ({own[f]} \ {None})
  BY DEF Search
<1>4. own[f] \in Context \cup {None} /\ None \notin Context
      /\ open \subseteq Context /\ waiting \subseteq Context
  BY DEF FrontIInv, FrontTypeOK
<1>5. FrontTypeOK'
  BY <1>1, <1>2, <1>3, <1>4 DEF Search, FrontIInv, FrontTypeOK
<1>6. \A c \in Context : /\ Holders(c)' = Holders(c) \ {f}
                         /\ c = own[f] <=> f \in Holders(c)
  BY <1>1, <1>3 DEF Holders
<1>7. Owned'
  <2>1. ASSUME NEW c \in waiting' PROVE c \in open' /\ Holders(c)' = {}
    <3>1. CASE c \in waiting
      BY <1>3, <1>4, <1>6, <3>1 DEF FrontIInv, Owned
    <3>2. CASE c = own[f] /\ c \in Context /\ c \notin waiting
      <4>1. f \in Holders(c)
        BY <1>6, <3>2
      <4>2. c \in open
        BY <3>2, <4>1 DEF FrontIInv, Owned
      <4>3. PICK g \in Loop : Holders(c) = {g}
        BY <3>2, <4>2 DEF FrontIInv, Owned
      <4> QED BY <1>3, <1>6, <3>2, <4>1, <4>2, <4>3
    <3> QED BY <1>3, <1>4, <3>1, <3>2
  <2>2. ASSUME NEW c \in open' \ waiting' PROVE \E g \in Loop : Holders(c)' = {g}
    <3>1. c \in open \ waiting /\ c \in Context /\ c # own[f]
      BY <1>3, <1>4
    <3>2. PICK g \in Loop : Holders(c) = {g}
      BY <3>1 DEF FrontIInv, Owned
    <3> QED BY <1>6, <3>1, <3>2
  <2>3. \A c \in Context \ open' : Holders(c)' = {}
    BY <1>3, <1>6 DEF FrontIInv, Owned
  <2>4. \A g \in Loop : pc'[g] = "recv" \/ g \in Console \cup {"nss"} => own'[g] = None
    BY <1>1, <1>3 DEF FrontIInv, Owned
  <2> QED BY <2>1, <2>2, <2>3, <2>4 DEF Owned
<1>8. f \notin steady
  BY <1>1 DEF FrontIInv, Steady
<1>9. Steady'
  BY <1>1, <1>2, <1>8, SteadyStays DEF Search, FrontIInv, FrontTypeOK
<1>10. Late'
  BY <1>1 DEF Search, FrontIInv, Late, Online
<1> QED BY <1>5, <1>7, <1>9, <1>10, TablesStay DEF Search, FrontIInv

\* "task = NULL": the context has not been the loop's since lkp_put.
LEMMA ForgetKeepsIInv ==
  ASSUME FrontIInv, NEW f \in Loop, Forget(f)
  PROVE  FrontIInv'
<1> USE FrontEndsAssumption
<1>1. /\ pc' \in [Loop -> Place] /\ pc'[f] = "top" /\ pc[f] = "handed"
      /\ \A g \in Loop \ {f} : pc'[g] = pc[g]
  BY DEF Forget, Goto, FrontIInv, FrontTypeOK, Place
<1>2. /\ own' \in [Loop -> Context \cup {None}] /\ own'[f] = None
      /\ \A g \in Loop \ {f} : own'[g] = own[g]
  BY DEF Forget, FrontIInv, FrontTypeOK
<1>3. UNCHANGED <<tables, status, at, open, waiting, walk, steady, late>>
  BY DEF Forget
<1>4. FrontTypeOK'
  BY <1>1, <1>2, <1>3 DEF FrontIInv, FrontTypeOK
<1>5. None \notin Context /\ open \subseteq Context /\ waiting \subseteq Context
  BY DEF FrontIInv, FrontTypeOK
<1>6. \A c \in Context : Holders(c)' = Holders(c)
  BY <1>1, <1>2, <1>5 DEF Holders
<1>7. Owned'
  BY <1>1, <1>2, <1>3, <1>5, <1>6 DEF FrontIInv, Owned
<1>8. f \notin steady
  BY <1>1 DEF FrontIInv, Steady
<1>9. Steady'
  BY <1>1, <1>3, <1>8, SteadyStays DEF FrontIInv, FrontTypeOK
<1>10. Late'
  BY <1>1, <1>3 DEF FrontIInv, Late, Online
<1> QED BY <1>3, <1>4, <1>7, <1>9, <1>10, TablesStay DEF FrontIInv

-----------------------------------------------------------------------------
(* Workers and main *)

\* Steps that leave the threads and their contexts alone.
LEMMA Others ==
  ASSUME FrontIInv, DatabaseIInv', UNCHANGED <<pc, requests, late>>,
         status' \in Status, Online' => Online,
         at' \in [Loop -> [host : Host \cup {None}, held : SUBSET Addr]],
         steady' \subseteq steady, Steady'
  PROVE  FrontIInv'
<1>1. FrontTypeOK'
  BY DEF FrontIInv, FrontTypeOK, requests
<1>2. Owned'
  BY OwnedStays
<1>3. Late'
  BY DEF FrontIInv, Late
<1> QED BY <1>1, <1>2, <1>3 DEF FrontIInv

LEMMA AnnouncedKeepsIInv ==
  ASSUME FrontIInv, NEW h \in Host, NEW a \in Addr, Announced(h, a)
  PROVE  FrontIInv'
<1> USE DatabaseAssumption
<1>1. DatabaseIInv'
  BY PutKeepsIInv DEF FrontIInv, Announced
<1>2. /\ UNCHANGED <<status, pc, requests, walk, late>>
      /\ now' = now /\ hash' = hash \cup {h}
      /\ told'[h] = [c_addr |-> a, at |-> now]
      /\ \A g \in DOMAIN told : g # h => told'[g] = told[g]
  BY DEF Announced, db_put, With
<1>3. /\ \A f \in Loop : at'[f] = IF pc[f] = "answer" /\ at[f].host = h /\ at[f].held # {}
                                  THEN [at[f] EXCEPT !.held = @ \cup {a}] ELSE at[f]
      /\ at' \in [Loop -> [host : Host \cup {None}, held : SUBSET Addr]]
  <2> DEFINE seen(f) == IF pc[f] = "answer" /\ at[f].host = h /\ at[f].held # {}
                        THEN [at[f] EXCEPT !.held = @ \cup {a}] ELSE at[f]
  <2>1. at' = [f \in Loop |-> seen(f)]
    BY DEF Announced, Follow
  <2>2. \A f \in Loop : seen(f) \in [host : Host \cup {None}, held : SUBSET Addr]
    <3> TAKE f \in Loop
    <3>1. at[f] \in [host : Host \cup {None}, held : SUBSET Addr]
      BY DEF FrontIInv, FrontTypeOK
    <3> QED BY <3>1
  <2> QED BY <2>1, <2>2
<1>4. steady' \subseteq steady
  BY DEF Announced, Follow
<1>5. Steady'
  <2> SUFFICES ASSUME NEW f \in steady'
               PROVE  /\ pc'[f] = "answer" /\ at'[f].host \in hash'
                      /\ at'[f].held = {told'[at'[f].host].c_addr}
                      /\ now' <= told'[at'[f].host].at + Life
    BY DEF Steady
  <2>1. /\ f \in steady /\ f \in Loop
        /\ at[f].host = h => told[h].c_addr = a
    BY DEF Announced, Follow, FrontIInv, FrontTypeOK
  <2>2. /\ pc[f] = "answer" /\ at[f].host \in hash /\ at[f].host \in DOMAIN told
        /\ at[f].held = {told[at[f].host].c_addr}
        /\ now <= told[at[f].host].at + Life /\ now \in Nat
    BY <2>1 DEF FrontIInv, Steady, DatabaseIInv, TypeOK
  <2>3. CASE at[f].host = h
    <3>1. at'[f].host = h /\ at'[f].held = {a}
      <4>1. at[f] \in [host : Host \cup {None}, held : SUBSET Addr]
        BY <2>1 DEF FrontIInv, FrontTypeOK
      <4> QED BY <1>3, <2>1, <2>2, <2>3, <4>1
    <3> QED BY <1>2, <2>2, <2>3, <3>1
  <2>4. CASE at[f].host # h
    BY <1>2, <1>3, <2>1, <2>2, <2>4
  <2> QED BY <2>3, <2>4
<1>6. status' = status /\ UNCHANGED <<pc, requests, late>>
  BY <1>2
<1> QED BY <1>1, <1>3, <1>4, <1>5, <1>6, Others DEF FrontIInv, FrontTypeOK, Online

\* No steady client's entry is among those a pass frees.
LEMMA ExpiredKeepsIInv ==
  ASSUME FrontIInv, Expired
  PROVE  FrontIInv'
<1>1. DatabaseIInv' /\ hash' \subseteq hash /\ \A h \in hash \ hash' : now > told[h].at + Life
  BY ExpireKeepsIInv, ExpireDeletesStale DEF FrontIInv, Expired
<1>2. /\ UNCHANGED <<status, pc, requests, steady, late>>
      /\ now' = now /\ told' = told
  BY DEF Expired, db_expire
<1>3. /\ \A f \in Loop : at'[f] = IF at[f].host \in hash \ hash'
                                  THEN [at[f] EXCEPT !.held = {}] ELSE at[f]
      /\ at' \in [Loop -> [host : Host \cup {None}, held : SUBSET Addr]]
  <2> DEFINE seen(f) == IF at[f].host \in hash \ hash'
                        THEN [at[f] EXCEPT !.held = {}] ELSE at[f]
  <2>1. at' = [f \in Loop |-> seen(f)]
    BY DEF Expired, Free
  <2>2. \A f \in Loop : seen(f) \in [host : Host \cup {None}, held : SUBSET Addr]
    <3> TAKE f \in Loop
    <3>1. at[f] \in [host : Host \cup {None}, held : SUBSET Addr]
      BY DEF FrontIInv, FrontTypeOK
    <3> QED BY <3>1
  <2> QED BY <2>1, <2>2
<1>4. Steady'
  <2> SUFFICES ASSUME NEW f \in steady
               PROVE  /\ pc'[f] = "answer" /\ at'[f].host \in hash'
                      /\ at'[f].held = {told'[at'[f].host].c_addr}
                      /\ now' <= told'[at'[f].host].at + Life
    BY <1>2 DEF Steady
  <2>1. f \in Loop
    BY DEF FrontIInv, FrontTypeOK
  <2>2. /\ pc[f] = "answer" /\ at[f].host \in hash
        /\ at[f].held = {told[at[f].host].c_addr}
        /\ now <= told[at[f].host].at + Life
        /\ now \in Nat /\ told[at[f].host].at \in Nat
    BY DEF FrontIInv, Steady, DatabaseIInv, TypeOK
  <2>3. at[f].host \in hash'
    BY <1>1, <2>2, DatabaseAssumption
  <2> QED BY <1>2, <1>3, <2>1, <2>2, <2>3
<1>5. status' = status
  BY <1>2
<1> QED BY <1>1, <1>2, <1>3, <1>4, <1>5, Others DEF FrontIInv, FrontTypeOK, Online

LEMMA SecondKeepsIInv ==
  ASSUME FrontIInv, Second
  PROVE  FrontIInv'
<1>1. DatabaseIInv'
  BY TickKeepsIInv DEF FrontIInv, Second
<1>2. /\ UNCHANGED <<status, pc, at, requests, late>>
      /\ now' = now + 1 /\ UNCHANGED <<hash, told>>
  BY DEF Second, Tick
<1>3. /\ steady' \subseteq steady
      /\ \A f \in steady' : now < told[at[f].host].at + Life
  BY DEF Second
<1>4. \A f \in steady : at[f].host \in DOMAIN told
  BY DEF FrontIInv, Steady, DatabaseIInv, TypeOK
<1>5. Steady'
  BY <1>2, <1>3, <1>4, DatabaseAssumption DEF FrontIInv, Steady, DatabaseIInv, TypeOK
<1>6. status' = status /\ at' = at
  BY <1>2
<1> QED BY <1>1, <1>2, <1>3, <1>5, <1>6, Others DEF FrontIInv, FrontTypeOK, Online

\* The callback is the owner of a context that waits.
LEMMA CallbackKeepsIInv ==
  ASSUME FrontIInv, NEW c \in Context, Callback(c)
  PROVE  FrontIInv'
<1>1. /\ c \in waiting /\ waiting' = waiting \ {c} /\ open' = open \ {c}
      /\ UNCHANGED <<tables, status, pc, at, own, walk, steady, late>>
  BY DEF Callback
<1>2. FrontTypeOK'
  BY <1>1 DEF FrontIInv, FrontTypeOK
<1>3. \A d : Holders(d)' = Holders(d)
  BY <1>1 DEF Holders
<1>4. Owned'
  BY <1>1, <1>3 DEF FrontIInv, Owned
<1>5. Steady'
  BY <1>1, SteadyStays
<1>6. Late'
  BY <1>1 DEF FrontIInv, Late, Online
<1> QED BY <1>1, <1>2, <1>4, <1>5, <1>6, TablesStay DEF FrontIInv

LEMMA SignalKeepsIInv ==
  ASSUME FrontIInv, Signal
  PROVE  FrontIInv'
<1>1. UNCHANGED <<tables, pc, at, requests, walk, steady, late>> /\ status' = "shutdown"
  BY DEF Signal
<1>2. Steady'
  BY <1>1, SteadyStays
<1>3. status' \in Status /\ ~Online'
  BY <1>1 DEF Status, Online
<1> QED BY <1>1, <1>2, <1>3, TablesStay, Others DEF FrontIInv, FrontTypeOK

LEMMA MainFreesKeepsIInv ==
  ASSUME FrontIInv, MainFrees
  PROVE  FrontIInv'
<1>1. /\ UNCHANGED <<tables, pc, requests, walk, late>>
      /\ status' = "freed" /\ steady' = {}
      /\ at' = [f \in Loop |-> [at[f] EXCEPT !.held = {}]]
  BY DEF MainFrees
<1>2. at' \in [Loop -> [host : Host \cup {None}, held : SUBSET Addr]]
  <2>1. \A f \in Loop : [at[f] EXCEPT !.held = {}] \in [host : Host \cup {None}, held : SUBSET Addr]
    <3> TAKE f \in Loop
    <3>1. at[f] \in [host : Host \cup {None}, held : SUBSET Addr]
      BY DEF FrontIInv, FrontTypeOK
    <3> QED BY <3>1
  <2> QED BY <1>1, <2>1
<1>3. Steady'
  BY <1>1 DEF Steady
<1>4. status' \in Status /\ ~Online'
  BY <1>1 DEF Status, Online
<1> QED BY <1>1, <1>2, <1>3, <1>4, TablesStay, Others

-----------------------------------------------------------------------------
(* The consoles, and the steps that only move a thread *)

LEMMA PlainMovesKeepIInv ==
  ASSUME FrontIInv, NEW f \in Loop,
         SetUp(f) \/ Timeout(f) \/ GetLost(f) \/ (f \in Console /\ PrintEnd(f))
  PROVE  FrontIInv'
<1>1. at \in [Loop -> [host : Host \cup {None}, held : SUBSET Addr]]
  BY DEF FrontIInv, FrontTypeOK
<1>2. CASE SetUp(f)
  BY <1>1, <1>2, Moves DEF SetUp, Place
<1>3. CASE Timeout(f)
  BY <1>1, <1>3, Moves DEF Timeout, Place
<1>4. CASE GetLost(f)
  <2>1. /\ at' \in [Loop -> [host : Host \cup {None}, held : SUBSET Addr]]
        /\ \A g \in Loop \ {f} : at'[g] = at[g]
    BY <1>1, <1>4 DEF GetLost, IdleAgain, Idle
  <2>2. pc[f] \notin {"answer", "handed"} /\ Goto(f, "lost")
    BY <1>4 DEF GetLost
  <2> QED BY <1>4, <2>1, <2>2, Moves DEF GetLost, Place
<1>5. CASE PrintEnd(f)
  BY <1>1, <1>5, Moves DEF PrintEnd, Place
<1> QED BY <1>2, <1>3, <1>4, <1>5

LEMMA ConsoleLoopKeepsIInv ==
  ASSUME FrontIInv, cmd_console_loop
  PROVE  FrontIInv'
<1>1. "console" \in Loop /\ "console" \in Console
  BY DEF Loop, Console
<1>2. CASE PlainLoop("console")
  BY <1>1, <1>2, TopKeepsIInv DEF PlainLoop
<1>3. CASE ~PlainLoop("console")
  <2>1. at \in [Loop -> [host : Host \cup {None}, held : SUBSET Addr]]
    BY DEF FrontIInv, FrontTypeOK
  <2> QED BY <1>1, <1>3, <2>1, Moves DEF cmd_console_loop, Place
<1> QED BY <1>2, <1>3

LEMMA ConsoleKeepsIInv ==
  ASSUME FrontIInv, NEW f \in Console,
         Command(f) \/ cmd_shutdown(f) \/ cmd_print_database(f)
  PROVE  FrontIInv'
<1> USE FrontEndsAssumption
<1>1. f \in Loop
  BY DEF Loop
<1>2. /\ at \in [Loop -> [host : Host \cup {None}, held : SUBSET Addr]]
      /\ None \in Context \cup {None} /\ None \notin open
      /\ open = open \cup ({None} \ {None})
  BY DEF FrontIInv, FrontTypeOK
<1>3. TakeUp(f) => own = [own EXCEPT ![f] = None]
  BY <1>1 DEF TakeUp, FrontIInv, FrontTypeOK, Owned
<1>4. {"top", "search", "walk"} \subseteq Place \ {"recv", "handed"}
  BY DEF Place
<1>5. CASE Request(f, None)
  BY <1>1, <1>2, <1>5, RequestKeepsIInv
<1>6. ASSUME NEW h \in Host, TakeUp(f), Look(f, "search", h),
             UNCHANGED <<tables, status, requests, walk, steady>>
      PROVE  FrontIInv'
  <2>1. /\ at' \in [Loop -> [host : Host \cup {None}, held : SUBSET Addr]]
        /\ \A g \in Loop \ {f} : at'[g] = at[g]
    BY <1>1, <1>2, <1>6 DEF Look, Idle
  <2>2. Goto(f, "search")
    BY <1>6 DEF Look
  <2>3. own' = [own EXCEPT ![f] = None] /\ open' = open \cup ({None} \ {None}) /\ waiting' = waiting
    BY <1>2, <1>3, <1>6 DEF requests
  <2>4. status' \in {status, "shutdown"} /\ UNCHANGED <<tables, steady>>
    BY <1>6
  <2> QED BY <1>1, <1>2, <1>4, <1>6, <2>1, <2>2, <2>3, <2>4, TakesUp
<1>7. CASE Fetch(f) \/ Reply(f) \/ Search(f) \/ Forget(f)
  BY <1>1, <1>7, FetchKeepsIInv, ReplyKeepsIInv, SearchKeepsIInv, ForgetKeepsIInv
<1>8. CASE cmd_shutdown(f)
  <2>1. TakeUp(f) /\ Goto(f, "top") /\ status' \in {status, "shutdown"} /\ at' = at
        /\ UNCHANGED <<tables, requests, steady>>
    BY <1>8 DEF cmd_shutdown
  <2>2. own' = [own EXCEPT ![f] = None] /\ open' = open \cup ({None} \ {None}) /\ waiting' = waiting
    BY <1>2, <1>3, <2>1 DEF requests
  <2> QED BY <1>1, <1>2, <1>4, <2>1, <2>2, TakesUp
<1>9. CASE PrintFirst(f)
  <2>1. TakeUp(f) /\ Goto(f, "walk") /\ status' \in {status, "shutdown"} /\ at' = at
        /\ UNCHANGED <<tables, requests, steady>>
    BY <1>9 DEF PrintFirst
  <2>2. own' = [own EXCEPT ![f] = None] /\ open' = open \cup ({None} \ {None}) /\ waiting' = waiting
    BY <1>2, <1>3, <2>1 DEF requests
  <2> QED BY <1>1, <1>2, <1>4, <2>1, <2>2, TakesUp
<1>10. CASE PrintItem(f)
  <2>1. UNCHANGED <<tables, status, pc, at, requests, steady, late>>
    BY <1>10 DEF PrintItem
  <2>2. Steady'
    BY <2>1, SteadyStays
  <2> QED BY <1>2, <2>1, <2>2, TablesStay, Others DEF FrontIInv, FrontTypeOK, Online
<1>11. CASE PrintEnd(f)
  BY <1>1, <1>11, PlainMovesKeepIInv
<1> QED BY <1>5, <1>6, <1>7, <1>8, <1>9, <1>10, <1>11 DEF Command, cmd_print_database

LEMMA LoopsKeepIInv ==
  ASSUME FrontIInv, Dns \/ Web \/ Nss
  PROVE  FrontIInv'
<1>1. {"dns", "web", "nss"} \subseteq Loop /\ "nss" \in Console \cup {"nss"}
      /\ "dns" \notin Console \cup {"nss"} /\ "web" \notin Console \cup {"nss"}
  BY DEF Loop, Console
<1>2. CASE dns_socket \/ web_socket \/ nss_socket
  BY <1>1, <1>2, PlainMovesKeepIInv DEF dns_socket, web_socket, nss_socket
<1>3. CASE dns_loop
  BY <1>1, <1>3, TopKeepsIInv DEF dns_loop
<1>4. CASE web_loop
  BY <1>1, <1>4, TopKeepsIInv DEF web_loop
<1>5. CASE nss_loop
  BY <1>1, <1>5, TopKeepsIInv DEF nss_loop, PlainLoop
<1>6. CASE dns_request \/ web_request \/ nss_request
  BY <1>1, <1>6, RequestKeepsIInv DEF dns_request, web_request, nss_request, Context
<1>7. CASE dns_lookup \/ web_lookup \/ nss_lookup
  BY <1>1, <1>7, FetchKeepsIInv, SearchKeepsIInv, ForgetKeepsIInv
  DEF dns_lookup, web_lookup, nss_lookup
<1>8. CASE dns_reply \/ web_reply \/ nss_reply
  BY <1>1, <1>8, ReplyKeepsIInv DEF dns_reply, web_reply, nss_reply
<1> QED BY <1>2, <1>3, <1>4, <1>5, <1>6, <1>7, <1>8 DEF Dns, Web, Nss

LEMMA FrontNextKeepsIInv ==
  ASSUME FrontIInv, [FrontNext]_frontvars
  PROVE  FrontIInv'
<1>1. CASE Dns \/ Web \/ Nss
  BY <1>1, LoopsKeepIInv
<1>2. CASE Cmd
  <2>1. "cmd" \in Loop /\ "cmd" \in Console
    BY DEF Loop, Console
  <2>2. CASE cmd_socket
    BY <2>1, <2>2, PlainMovesKeepIInv DEF cmd_socket
  <2>3. CASE cmd_remote_loop
    BY <2>1, <2>3, TopKeepsIInv DEF cmd_remote_loop, PlainLoop
  <2> QED BY <1>2, <2>2, <2>3, ConsoleLoopKeepsIInv, ConsoleKeepsIInv DEF Cmd
<1>3. ASSUME NEW f \in Loop, Timeout(f) \/ GetLost(f) PROVE FrontIInv'
  BY <1>3, PlainMovesKeepIInv
<1>4. CASE Worker
  BY <1>4, AnnouncedKeepsIInv, CallbackKeepsIInv, ExpiredKeepsIInv, SecondKeepsIInv
  DEF Worker
<1>5. CASE Signal \/ MainFrees
  BY <1>5, SignalKeepsIInv, MainFreesKeepsIInv
<1>6. CASE UNCHANGED frontvars
  <2>1. UNCHANGED <<tables, status, pc, at, requests, steady, late>>
    BY <1>6 DEF frontvars
  <2>2. Steady'
    BY <2>1, SteadyStays
  <2> QED BY <2>1, <2>2, TablesStay, Others DEF FrontIInv, FrontTypeOK, Online
<1> QED BY <1>1, <1>2, <1>3, <1>4, <1>5, <1>6 DEF FrontNext

LEMMA FrontAlways == FrontSpec => []FrontIInv
BY FrontInitially, FrontNextKeepsIInv, PTL DEF FrontSpec

-----------------------------------------------------------------------------
\* However many front ends run together, they leave the database to the
\* workers: all of their steps are steps of Database, or none of its steps.
THEOREM FrontEndsUseDatabase == FrontSpec => Spec
<1>1. FrontInit => Init
  BY DEF FrontInit
<1>2. ASSUME [FrontNext]_frontvars PROVE [Next]_vars
  <2>1. CASE Worker
    BY <2>1 DEF Worker, Announced, Expired, Second, Callback, Next, Announce, tables, vars
  <2>2. CASE UNCHANGED tables
    BY <2>2 DEF tables, vars
  <2>3. Dns \/ Web \/ Nss => UNCHANGED tables
    BY DEF Dns, Web, Nss, dns_socket, web_socket, nss_socket, SetUp, dns_loop, web_loop,
           nss_loop, PlainLoop, dns_request, web_request, nss_request, Request, Refuse,
           Receive, dns_lookup, web_lookup, nss_lookup, Fetch, Search, Forget, dns_reply,
           web_reply, nss_reply, Reply
  <2>4. Cmd => UNCHANGED tables
    BY DEF Cmd, cmd_socket, SetUp, cmd_remote_loop, cmd_console_loop, PlainLoop, Command,
           Request, Refuse, Receive, Fetch, Search, Forget, Reply, cmd_shutdown,
           cmd_print_database, PrintFirst, PrintItem, PrintEnd
  <2>5. (\E f \in Loop : Timeout(f) \/ GetLost(f)) \/ Signal \/ MainFrees => UNCHANGED tables
    BY DEF Timeout, GetLost, Signal, MainFrees
  <2>6. UNCHANGED frontvars => UNCHANGED tables
    BY DEF frontvars
  <2> QED BY <1>2, <2>1, <2>2, <2>3, <2>4, <2>5, <2>6 DEF FrontNext
<1> QED BY <1>1, <1>2, PTL DEF FrontSpec, Spec

\* A client that asks for a host that is announced from one address is sent
\* this address, whole, though the pointer of db_address is used without the
\* mutex (masala-dns.c:434).
THEOREM FrontLiveAnswersAreWhole == FrontSpec => []LiveAnswersAreWhole
<1>1. FrontIInv => LiveAnswersAreWhole
  <2> SUFFICES ASSUME FrontIInv, NEW f \in steady
               PROVE  /\ pc[f] = "answer"
                      /\ Answers(f) = {<<told[at[f].host].c_addr, told[at[f].host].c_addr>>}
    BY DEF LiveAnswersAreWhole
  <2>1. pc[f] = "answer" /\ at[f].held = {told[at[f].host].c_addr}
    BY DEF FrontIInv, Steady
  <2> QED BY <2>1 DEF Answers
<1> QED BY <1>1, FrontAlways, PTL

\* Each task and each descriptor has one owner, that frees it: the loop, or the
\* callback it was handed to (masala-dns.c:600, masala-web.c:226).
THEOREM FrontOneOwner == FrontSpec => []OneOwner
<1>1. FrontIInv => OneOwner
  <2> SUFFICES ASSUME FrontIInv, NEW c \in Context
               PROVE  IF c \in waiting THEN c \in open /\ Holders(c) = {}
                      ELSE Cardinality(Holders(c)) = IF c \in open THEN 1 ELSE 0
    BY DEF OneOwner
  <2>1. CASE c \in waiting
    BY <2>1 DEF FrontIInv, Owned
  <2>2. CASE c \in open \ waiting
    <3>1. PICK f \in Loop : Holders(c) = {f}
      BY <2>2 DEF FrontIInv, Owned
    <3> QED BY <2>2, <3>1, FS_Singleton
  <2>3. CASE c \notin open /\ c \notin waiting
    BY <2>3, FS_EmptySet DEF FrontIInv, Owned
  <2> QED BY <2>1, <2>2, <2>3
<1> QED BY <1>1, FrontAlways, PTL

\* After a shutdown a front end takes up one more request at most (main.c:152).
THEOREM FrontLastRequest == FrontSpec => []LastRequest
<1>1. FrontIInv => LastRequest
  BY DEF FrontIInv, Late, LastRequest
<1> QED BY <1>1, FrontAlways, PTL

-----------------------------------------------------------------------------
(* The walk of the consoles over the list.                                   *)

\* The list has an item for each host of the hash, and one only.
Listing ==
  /\ list \in Seq(Host)
  /\ \A p, q \in DOMAIN list : list[p] = list[q] => p = q
  /\ Items = hash

\* The item of h comes before the one of g.
Before(h, g) == \E p, q \in DOMAIN list : list[p] = h /\ list[q] = g /\ p < q

Once(s, h) == \E p \in DOMAIN s : s[p] = h /\ \A q \in DOMAIN s : s[q] = h => q = p
Never(s, h) == \A p \in DOMAIN s : s[p] # h

\* A walk has printed what comes before the item it is at, all of it at the end.
Underway(f) ==
  LET w == walk[f]
  IN  /\ w.item \in hash \cup {None, Gone}
      /\ w.all \subseteq hash
      /\ w.item = None => \A h \in w.all : Once(w.printed, h)
      /\ w.item \in hash => \A h \in w.all : IF Before(h, w.item) THEN Once(w.printed, h)
                                                                  ELSE Never(w.printed, h)

WalkTypeOK ==
  walk \in [Console -> [item : Host \cup {None, Gone}, printed : Seq(Host), all : SUBSET Host]]

WalkIInv == Listing /\ WalkTypeOK /\ \A f \in Console : pc[f] = "walk" => Underway(f)

LEMMA OneMore ==
  ASSUME NEW s \in Seq(Host), NEW g \in Host
  PROVE  /\ Append(s, g) \in Seq(Host)
         /\ \A h : h # g /\ Once(s, h) => Once(Append(s, g), h)
         /\ \A h : h # g /\ Never(s, h) => Never(Append(s, g), h)
         /\ Never(s, g) => Once(Append(s, g), g)
<1> DEFINE t == Append(s, g)
<1>1. /\ Len(s) \in Nat /\ DOMAIN s = 1..Len(s)
      /\ t \in Seq(Host) /\ DOMAIN t = 1..(Len(s) + 1)
      /\ \A p \in 1..Len(s) : t[p] = s[p]
      /\ t[Len(s) + 1] = g
  BY LenProperties, AppendProperties
<1>2. \A p \in DOMAIN t : p \in DOMAIN s \/ p = Len(s) + 1
  BY <1>1
<1>3. Len(s) + 1 \in DOMAIN t /\ \A p \in DOMAIN s : p \in DOMAIN t /\ t[p] = s[p]
  BY <1>1
<1> HIDE DEF t
<1>4. \A h : h # g /\ Once(s, h) => Once(t, h)
  BY <1>1, <1>2, <1>3 DEF Once
<1>5. \A h : h # g /\ Never(s, h) => Never(t, h)
  BY <1>1, <1>2, <1>3 DEF Never
<1>6. Never(s, g) => Once(t, g)
  BY <1>1, <1>2, <1>3 DEF Never, Once
<1> QED BY <1>1, <1>4, <1>5, <1>6 DEF t

\* An announcement appends, so that what there was keeps its place.
LEMMA AnnouncedListing ==
  ASSUME Listing, NEW h \in Host, NEW a \in Addr, db_put(h, a)
  PROVE  /\ Listing' /\ hash \subseteq hash'
         /\ \A x, y \in hash : Before(x, y)' <=> Before(x, y)
<1>1. CASE h \in hash
  <2>1. UNCHANGED <<list, hash>>
    BY <1>1 DEF db_put
  <2> QED BY <2>1 DEF Listing, Items, Before
<1>2. CASE h \notin hash
  <2>1. list' = Append(list, h) /\ hash' = hash \cup {h}
    BY <1>2 DEF db_put
  <2>2. /\ Len(list) \in Nat /\ DOMAIN list = 1..Len(list) /\ list \in Seq(Host)
        /\ list' \in Seq(Host) /\ DOMAIN list' = 1..(Len(list) + 1)
        /\ \A p \in 1..Len(list) : list'[p] = list[p]
        /\ list'[Len(list) + 1] = h
    BY <2>1, LenProperties, AppendProperties DEF Listing
  <2>3. /\ \A p \in DOMAIN list' : p \in DOMAIN list \/ p = Len(list) + 1
        /\ Len(list) + 1 \in DOMAIN list'
        /\ \A p \in DOMAIN list : p \in DOMAIN list' /\ list'[p] = list[p] /\ list[p] \in hash
    BY <2>2 DEF Listing, Items
  <2>4. \A p, q \in DOMAIN list' : list'[p] = list'[q] => p = q
    BY <1>2, <2>2, <2>3 DEF Listing
  <2>5. Items' = hash'
    <3>1. \A x \in hash : \E p \in DOMAIN list : list[p] = x
      BY DEF Listing, Items
    <3> QED BY <2>1, <2>2, <2>3, <3>1 DEF Items
  <2>6. \A x, y \in hash : Before(x, y)' <=> Before(x, y)
    BY <1>2, <2>2, <2>3 DEF Before
  <2> QED BY <2>1, <2>2, <2>4, <2>5, <2>6 DEF Listing
<1> QED BY <1>1, <1>2

\* An expiry pass takes items out and leaves the others in their order.
LEMMA ExpiredListing ==
  ASSUME Listing, db_expire
  PROVE  /\ Listing' /\ hash' \subseteq hash
         /\ \A x, y \in hash' : Before(x, y)' <=> Before(x, y)
<1> DEFINE swept == SweptAt(list, StaleHosts)
           gone == {list[p] : p \in swept}
<1>1. list \in Seq(Host) /\ swept \subseteq DOMAIN list
  BY DEF Listing, SweptAt, BadAt
<1>2. /\ list' = CountedSweep(list, StaleHosts)
      /\ hash' = hash \ gone
  BY DEF db_expire
<1>3. /\ list' \in Seq(Host)
      /\ \E c, e : PartOf(list, DOMAIN list \ swept, c, e, list')
  BY <1>1, <1>2, SweepIs
<1> HIDE DEF swept
<1>4. PICK c, e : PartOf(list, DOMAIN list \ swept, c, e, list')
  BY <1>3
<1>5. /\ Enumerates(e, c, DOMAIN list \ swept, Len(list))
      /\ list' = [k \in 1..c |-> list[e[k]]]
  BY <1>4 DEF PartOf
<1>6. /\ c \in Nat /\ DOMAIN list' = 1..c
      /\ \A k \in DOMAIN list' : /\ e[k] \in DOMAIN list \ swept
                                 /\ list'[k] = list[e[k]]
      /\ \A p \in DOMAIN list \ swept : \E k \in DOMAIN list' : e[k] = p
  BY <1>5 DEF Enumerates
<1>7. \A j, k \in DOMAIN list' : (e[j] = e[k] => j = k) /\ (j < k => e[j] < e[k])
                                 /\ (e[j] < e[k] => j < k)
  <2> SUFFICES ASSUME NEW j \in DOMAIN list', NEW k \in DOMAIN list'
               PROVE  (e[j] = e[k] => j = k) /\ (j < k => e[j] < e[k]) /\ (e[j] < e[k] => j < k)
    OBVIOUS
  <2>1. j \in 1..c /\ k \in 1..c
    BY <1>6
  <2>2. /\ e[j] <= e[k] <=> j <= k
        /\ e[k] <= e[j] <=> k <= j
        /\ e[j] = e[k] => j = k
        /\ e[j] \in 1..Len(list) /\ e[k] \in 1..Len(list)
    BY <1>5, <2>1, Increasing
  <2> QED BY <1>1, <1>6, <2>1, <2>2, LenProperties
<1>8. \A p \in DOMAIN list : list[p] \in gone <=> p \in swept
  BY <1>1 DEF Listing
<1> HIDE DEF gone
<1>9. \A p, q \in DOMAIN list' : list'[p] = list'[q] => p = q
  BY <1>6, <1>7 DEF Listing
<1>10. \A x \in hash' : \E p \in DOMAIN list \ swept : list[p] = x
  BY <1>2, <1>8 DEF Listing, Items
<1>11. Items' = hash'
  <2>1. ASSUME NEW k \in DOMAIN list' PROVE list'[k] \in hash'
    BY <1>2, <1>6, <1>8 DEF Listing, Items
  <2>2. ASSUME NEW x \in hash' PROVE \E k \in DOMAIN list' : list'[k] = x
    <3>1. PICK p \in DOMAIN list \ swept : list[p] = x
      BY <1>10
    <3>2. PICK k \in DOMAIN list' : e[k] = p
      BY <1>6, <3>1
    <3> QED BY <1>6, <3>1, <3>2
  <2> QED BY <2>1, <2>2 DEF Items
<1>12. ASSUME NEW x \in hash', NEW y \in hash' PROVE Before(x, y)' <=> Before(x, y)
  <2>1. PICK j \in DOMAIN list', k \in DOMAIN list' : list'[j] = x /\ list'[k] = y
    BY <1>11 DEF Items
  <2>2. /\ e[j] \in DOMAIN list /\ e[k] \in DOMAIN list
        /\ list[e[j]] = x /\ list[e[k]] = y
    BY <1>6, <2>1
  <2>3. Before(x, y)' <=> j < k
    BY <1>9, <2>1 DEF Before
  <2>4. Before(x, y) <=> e[j] < e[k]
    BY <2>2 DEF Before, Listing
  <2> QED BY <1>7, <2>3, <2>4
<1> QED BY <1>2, <1>3, <1>9, <1>11, <1>12 DEF Listing

\* The walks of other threads, and what is in the table meanwhile.
Undisturbed(g) ==
  /\ pc'[g] = "walk" => pc[g] = "walk"
  /\ walk'[g] = walk[g]

LEMMA WalkStays ==
  ASSUME WalkIInv, UNCHANGED <<list, hash>>, NEW g \in Console, Undisturbed(g)
  PROVE  pc'[g] = "walk" => Underway(g)'
BY DEF WalkIInv, Undisturbed, Underway, Before

LEMMA WalksStay ==
  ASSUME WalkIInv, UNCHANGED <<list, hash, walk>>,
         \A g \in Console : pc'[g] = "walk" => pc[g] = "walk"
  PROVE  WalkIInv'
<1>1. \A g \in Console : pc'[g] = "walk" => Underway(g)'
  BY WalkStays DEF Undisturbed
<1> QED BY <1>1 DEF WalkIInv, WalkTypeOK, Listing, Items

\* Nothing has been printed, and nothing comes before the first item.
LEMMA FirstKeepsWalk ==
  ASSUME FrontIInv, WalkIInv, NEW f \in Console, PrintFirst(f)
  PROVE  WalkIInv'
<1> USE FrontEndsAssumption
<1> DEFINE w == [item |-> IF list = << >> THEN None ELSE Head(list),
                 printed |-> << >>, all |-> Items]
<1>1. /\ UNCHANGED <<list, hash>> /\ walk' = [walk EXCEPT ![f] = w]
      /\ Goto(f, "walk") /\ f \in Loop
  BY DEF PrintFirst, tables, Loop
<1>2. /\ list \in Seq(Host) /\ Items = hash
      /\ list # << >> => /\ 1 \in DOMAIN list /\ Head(list) = list[1]
                         /\ \A p \in DOMAIN list : ~(p < 1)
      /\ list = << >> => Items = {}
  <2>1. list \in Seq(Host) /\ DOMAIN list = 1..Len(list) /\ Len(list) \in Nat
    BY LenProperties DEF WalkIInv, Listing
  <2>2. CASE list = << >>
    BY <2>2 DEF Items, WalkIInv, Listing
  <2>3. CASE list # << >>
    <3>1. Len(list) # 0 /\ Head(list) = list[1]
      BY <2>1, <2>3, EmptySeq, HeadTailProperties
    <3> QED BY <2>1, <2>3, <3>1 DEF WalkIInv, Listing
  <2> QED BY <2>1, <2>2, <2>3
<1>3. /\ w.item \in Host \cup {None} /\ w.printed = << >> /\ w.all = hash
      /\ w.item = None <=> list = << >>
      /\ list # << >> => w.item = list[1] /\ list[1] \in hash
  BY <1>2 DEF Items
<1>4. /\ << >> \in Seq(Host) /\ \A h : Never(<< >>, h)
      /\ hash \subseteq Host
  BY <1>2 DEF Items, Never
<1>5. w \in [item : Host \cup {None, Gone}, printed : Seq(Host), all : SUBSET Host]
  BY <1>3, <1>4
<1> HIDE DEF w
<1>6. WalkTypeOK' /\ walk'[f] = w /\ \A g \in Console \ {f} : walk'[g] = walk[g]
  BY <1>1, <1>5 DEF WalkIInv, WalkTypeOK
<1>7. \A g \in Console \ {f} : pc'[g] = "walk" => Underway(g)'
  <2>1. \A g \in Console \ {f} : pc'[g] = pc[g]
    BY <1>1 DEF Goto, FrontIInv, FrontTypeOK, Loop
  <2> QED BY <1>1, <1>6, <2>1, WalkStays DEF Undisturbed
<1>8. Underway(f)'
  <2>1. list # << >> => \A h : ~Before(h, list[1])
    BY <1>2 DEF Before, WalkIInv, Listing
  <2>2. list' = list /\ hash' = hash
    BY <1>1
  <2>3. \A h, i : Before(h, i)' <=> Before(h, i)
    BY <2>2 DEF Before
  <2> QED BY <1>2, <1>3, <1>4, <1>6, <2>1, <2>2, <2>3 DEF Underway
<1> QED BY <1>1, <1>6, <1>7, <1>8 DEF WalkIInv, Listing, Items

\* It prints the item it is at, which has not been printed, and what comes
\* before the next item is that one and what came before it.
LEMMA ItemKeepsWalk ==
  ASSUME FrontIInv, WalkIInv, NEW f \in Console, PrintItem(f)
  PROVE  WalkIInv'
<1> USE FrontEndsAssumption
<1>1. PICK g : g = walk[f].item
  OBVIOUS
<1>2. /\ UNCHANGED <<list, hash, pc>>
      /\ walk' = [walk EXCEPT ![f].printed = Append(@, g), ![f].item = Behind(g)]
      /\ pc[f] = "walk" /\ g \in Host
  BY <1>1 DEF PrintItem, tables
<1>3. /\ walk[f].printed \in Seq(Host) /\ walk[f].all \subseteq Host
      /\ walk[f] \in [item : Host \cup {None, Gone}, printed : Seq(Host), all : SUBSET Host]
      /\ g \in hash /\ Underway(f)
  BY <1>2, <1>1 DEF WalkIInv, WalkTypeOK, Underway
<1>4. /\ list \in Seq(Host) /\ DOMAIN list = 1..Len(list) /\ Len(list) \in Nat
      /\ \A p, q \in DOMAIN list : list[p] = list[q] => p = q
      /\ \A h \in hash : \E p \in DOMAIN list : list[p] = h
      /\ \A p \in DOMAIN list : list[p] \in hash /\ list[p] \in Host
  BY LenProperties DEF WalkIInv, Listing, Items
<1>5. PICK p \in DOMAIN list : list[p] = g
  BY <1>3, <1>4
<1>6. Behind(g) = IF p = Len(list) THEN None ELSE list[p + 1]
  <2> DEFINE here == CHOOSE q \in DOMAIN list : list[q] = g
  <2>1. Behind(g) = IF here = Len(list) THEN None ELSE list[here + 1]
    BY DEF Behind
  <2>2. here = p
    BY <1>4, <1>5
  <2> HIDE DEF here
  <2> QED BY <2>1, <2>2
<1>7. p # Len(list) => p + 1 \in DOMAIN list
  BY <1>4
<1>8. /\ Behind(g) \in hash \cup {None} /\ Behind(g) \in Host \cup {None}
      /\ Behind(g) = None <=> p = Len(list)
  BY <1>4, <1>6, <1>7
<1>9. PICK w : w = walk'[f]
  OBVIOUS
<1>10. /\ w.printed = Append(walk[f].printed, g) /\ w.item = Behind(g) /\ w.all = walk[f].all
       /\ w \in [item : Host \cup {None, Gone}, printed : Seq(Host), all : SUBSET Host]
       /\ \A k \in Console \ {f} : walk'[k] = walk[k]
       /\ WalkTypeOK'
  <2>1. Append(walk[f].printed, g) \in Seq(Host) /\ Behind(g) \in Host \cup {None, Gone}
    BY <1>2, <1>3, <1>8, OneMore
  <2> QED BY <1>2, <1>3, <1>9, <2>1 DEF WalkIInv, WalkTypeOK
<1>11. \A h : Before(h, g) <=> \E q \in DOMAIN list : list[q] = h /\ q < p
  BY <1>4, <1>5 DEF Before
<1>12. WalkTypeOK' /\ walk'[f] = w /\ \A k \in Console \ {f} : walk'[k] = walk[k]
  BY <1>10, <1>9
<1>13. \A k \in Console \ {f} : pc'[k] = "walk" => Underway(k)'
  BY <1>2, <1>12, WalkStays DEF Undisturbed
<1>14. ASSUME NEW h \in walk[f].all, NEW q \in DOMAIN list, list[q] = h
       PROVE  IF q <= p THEN Once(w.printed, h) ELSE Never(w.printed, h)
  <2>1. IF Before(h, g) THEN Once(walk[f].printed, h) ELSE Never(walk[f].printed, h)
    BY <1>3, <1>1 DEF Underway
  <2>2. Before(h, g) <=> q < p
    BY <1>4, <1>11, <1>14
  <2>3. h = g <=> q = p
    BY <1>4, <1>5, <1>14
  <2>4. p \in Nat /\ q \in Nat
    BY <1>4
  <2>5. CASE q = p
    BY <1>2, <1>3, <1>10, <2>1, <2>2, <2>3, <2>4, <2>5, OneMore
  <2>6. CASE q < p
    BY <1>2, <1>3, <1>10, <2>1, <2>2, <2>3, <2>4, <2>6, OneMore
  <2>7. CASE p < q
    BY <1>2, <1>3, <1>10, <2>1, <2>2, <2>3, <2>4, <2>7, OneMore
  <2> QED BY <2>4, <2>5, <2>6, <2>7
<1>15. walk[f].all \subseteq hash
  BY <1>3 DEF Underway
<1>16. Underway(f)'
  <2>1. CASE p = Len(list)
    <3>1. ASSUME NEW h \in walk[f].all PROVE Once(w.printed, h)
      <4>1. PICK q \in DOMAIN list : list[q] = h
        BY <1>4, <1>15
      <4>2. q <= p
        BY <1>4, <2>1
      <4> QED BY <1>14, <4>1, <4>2
    <3>2. w.item = None /\ None \notin hash'
      BY <1>2, <1>4, <1>8, <1>10, <2>1
    <3> QED BY <1>2, <1>10, <1>12, <1>15, <3>1, <3>2 DEF Underway
  <2>2. CASE p # Len(list)
    <3>1. w.item = list[p + 1] /\ p + 1 \in DOMAIN list /\ w.item \in hash /\ w.item # None
      BY <1>4, <1>6, <1>7, <1>8, <1>10, <2>2
    <3>2. ASSUME NEW h \in walk[f].all
          PROVE  IF Before(h, w.item) THEN Once(w.printed, h) ELSE Never(w.printed, h)
      <4>1. PICK q \in DOMAIN list : list[q] = h
        BY <1>4, <1>15
      <4>2. Before(h, w.item) <=> q < p + 1
        BY <1>4, <3>1, <4>1 DEF Before
      <4>3. q < p + 1 <=> q <= p
        BY <1>4
      <4> QED BY <1>14, <4>1, <4>2, <4>3
    <3>3. PICK i : i = w.item
      OBVIOUS
    <3>4. \A h : Before(h, i)' <=> Before(h, i)
      BY <1>2 DEF Before
    <3>5. /\ walk'[f].item = i /\ walk'[f].all = walk[f].all
          /\ walk'[f].printed = w.printed /\ hash' = hash
      BY <1>2, <1>10, <1>12, <3>3
    <3> QED BY <1>15, <3>1, <3>2, <3>3, <3>4, <3>5 DEF Underway
  <2> QED BY <2>1, <2>2
<1> QED BY <1>2, <1>12, <1>13, <1>16 DEF WalkIInv, Listing, Items

\* A thread that leaves its walk.
LEMMA LeavingKeepsWalks ==
  ASSUME FrontIInv, WalkIInv, NEW f \in Loop,
         GetLost(f) \/ (f \in Console /\ PrintEnd(f))
  PROVE  WalkIInv'
<1>1. UNCHANGED <<list, hash>>
  BY DEF GetLost, PrintEnd, tables
<1>2. pc'[f] # "walk" /\ \A g \in Loop \ {f} : pc'[g] = pc[g]
  BY DEF GetLost, PrintEnd, Goto, FrontIInv, FrontTypeOK
<1>3. NoWalk \in [item : Host \cup {None, Gone}, printed : Seq(Host), all : SUBSET Host]
  BY DEF NoWalk
<1>4. WalkTypeOK' /\ \A g \in Console \ {f} : walk'[g] = walk[g]
  <2>1. CASE GetLost(f)
    <3>1. walk' = [g \in Console |-> IF g = f THEN NoWalk ELSE walk[g]]
      BY <2>1 DEF GetLost
    <3> QED BY <1>3, <3>1 DEF WalkIInv, WalkTypeOK
  <2>2. CASE f \in Console /\ PrintEnd(f)
    <3>1. walk' = [walk EXCEPT ![f] = NoWalk]
      BY <2>2 DEF PrintEnd
    <3> QED BY <1>3, <2>2, <3>1 DEF WalkIInv, WalkTypeOK
  <2> QED BY <2>1, <2>2
<1>5. ASSUME NEW g \in Console, pc'[g] = "walk" PROVE Underway(g)'
  <2>1. g \in Loop \ {f}
    BY <1>2, <1>5 DEF Loop
  <2> QED BY <1>1, <1>2, <1>4, <1>5, <2>1, WalkStays DEF Undisturbed
<1> QED BY <1>1, <1>4, <1>5 DEF WalkIInv, Listing, Items

LEMMA AnnouncedKeepsWalks ==
  ASSUME WalkIInv, NEW h \in Host, NEW a \in Addr, Announced(h, a)
  PROVE  WalkIInv'
<1> USE FrontEndsAssumption
<1>1. /\ Listing' /\ hash \subseteq hash'
      /\ \A x, y \in hash : Before(x, y)' <=> Before(x, y)
  BY AnnouncedListing DEF WalkIInv, Announced
<1>2. walk' = walk /\ pc' = pc /\ hash' \subseteq Host
  BY <1>1 DEF Announced, Listing, Items
<1>3. ASSUME NEW g \in Console, pc'[g] = "walk" PROVE Underway(g)'
  <2>1. PICK w : w = walk[g]
    OBVIOUS
  <2>2. walk'[g] = w /\ w.item \in hash \cup {None, Gone} /\ w.all \subseteq hash
    BY <1>2, <1>3, <2>1 DEF WalkIInv, Underway
  <2>3. w.item \in hash' => w.item \in hash
    BY <1>2, <2>2
  <2> QED BY <1>1, <1>2, <1>3, <2>1, <2>2, <2>3 DEF WalkIInv, Underway
<1> QED BY <1>1, <1>2, <1>3 DEF WalkIInv, WalkTypeOK

LEMMA ExpiredKeepsWalks ==
  ASSUME WalkIInv, Expired
  PROVE  WalkIInv'
<1> USE FrontEndsAssumption
<1>1. /\ Listing' /\ hash' \subseteq hash
      /\ \A x, y \in hash' : Before(x, y)' <=> Before(x, y)
  BY ExpiredListing DEF WalkIInv, Expired
<1>2. PICK gone : gone = hash \ hash'
  OBVIOUS
<1>3. pc' = pc /\ hash \subseteq Host
  BY DEF Expired, WalkIInv, Listing, Items
<1>4. ASSUME NEW g \in Console
      PROVE  /\ walk'[g].all = walk[g].all \ gone
             /\ walk'[g].item = IF walk[g].item \in gone THEN Gone ELSE walk[g].item
             /\ walk'[g].printed = walk[g].printed
             /\ walk'[g] \in [item : Host \cup {None, Gone}, printed : Seq(Host), all : SUBSET Host]
  <2>1. walk[g] \in [item : Host \cup {None, Gone}, printed : Seq(Host), all : SUBSET Host]
    BY DEF WalkIInv, WalkTypeOK
  <2>2. Free(hash \ hash')
    BY DEF Expired
  <2>3. walk'[g] = [walk[g] EXCEPT !.all = @ \ gone, !.item = IF @ \in gone THEN Gone ELSE @]
    BY <1>2, <2>2 DEF Free
  <2> QED BY <2>1, <2>3
<1>5. WalkTypeOK'
  <2>1. walk' = [g \in Console |-> walk'[g]]
    BY DEF Expired, Free
  <2> QED BY <1>4, <2>1 DEF WalkTypeOK
<1>6. ASSUME NEW g \in Console, pc'[g] = "walk" PROVE Underway(g)'
  <2>1. PICK w, v : w = walk[g] /\ v = walk'[g]
    OBVIOUS
  <2>2. /\ w.item \in hash \cup {None, Gone} /\ w.all \subseteq hash
        /\ w.item = None => \A h \in w.all : Once(w.printed, h)
        /\ w.item \in hash => \A h \in w.all : IF Before(h, w.item) THEN Once(w.printed, h)
                                                                    ELSE Never(w.printed, h)
    BY <1>3, <1>6, <2>1 DEF WalkIInv, Underway
  <2>3. /\ v.printed = w.printed /\ v.all \subseteq w.all /\ v.all \subseteq hash'
        /\ v.item \in hash' \cup {None, Gone}
        /\ v.item \in hash' \cup {None} => v.item = w.item
    BY <1>1, <1>2, <1>3, <1>4, <2>1, <2>2
  <2> QED BY <1>1, <1>3, <2>1, <2>2, <2>3 DEF Underway
<1> QED BY <1>1, <1>5, <1>6 DEF WalkIInv

\* All other steps leave the list and the walks alone, and start none.
LEMMA ElsewhereKeepsWalks ==
  ASSUME FrontIInv, WalkIInv, UNCHANGED <<list, hash, walk>>,
         NEW f \in Loop, NEW place, place # "walk", Goto(f, place) \/ pc' = pc
  PROVE  WalkIInv'
<1>1. \A g \in Console : pc'[g] = "walk" => pc[g] = "walk"
  BY DEF Goto, FrontIInv, FrontTypeOK, Loop
<1> QED BY <1>1, WalksStay

LEMMA WalkNext ==
  ASSUME FrontIInv, WalkIInv, [FrontNext]_frontvars
  PROVE  WalkIInv'
<1> DEFINE Still(f) == /\ UNCHANGED <<list, hash, walk>>
                       /\ \E place \in Place \ {"walk"} : Goto(f, place) \/ pc' = pc
<1>1. ASSUME NEW f \in Loop, Still(f) PROVE WalkIInv'
  BY <1>1, ElsewhereKeepsWalks
<1>2. {"dns", "web", "nss", "cmd", "console"} \subseteq Loop /\ Console \subseteq Loop
      /\ {"top", "recv", "ask", "answer", "search", "handed", "exit"} \subseteq Place \ {"walk"}
  BY DEF Loop, Console, Place
<1>3. ASSUME NEW f \in Loop, SetUp(f) \/ PlainLoop(f) \/ Timeout(f) PROVE Still(f)
  BY <1>2, <1>3 DEF SetUp, PlainLoop, Proceed, Timeout, tables
<1>4. ASSUME NEW f \in Loop, NEW c, Request(f, c) PROVE Still(f)
  BY <1>2, <1>4 DEF Request, Refuse, Receive, Look, tables
<1>5. ASSUME NEW f \in Loop, Fetch(f) \/ Search(f) \/ Forget(f) \/ Reply(f) PROVE Still(f)
  BY <1>2, <1>5 DEF Fetch, Search, Forget, Reply, tables
<1>6. CASE Dns
  <2>1. dns_loop => Still("dns")
    BY <1>2 DEF dns_loop, Proceed, tables
  <2>2. Still("dns")
    BY <1>2, <1>3, <1>4, <1>5, <1>6, <2>1 DEF Dns, dns_socket, dns_request, dns_lookup, dns_reply
  <2> QED BY <1>1, <1>2, <2>2
<1>7. CASE Web
  <2>1. web_loop => Still("web")
    BY <1>2 DEF web_loop, Proceed, tables
  <2>2. Still("web")
    BY <1>2, <1>3, <1>4, <1>5, <1>7, <2>1 DEF Web, web_socket, web_request, web_lookup, web_reply
  <2> QED BY <1>1, <1>2, <2>2
<1>8. CASE Nss
  <2>1. Still("nss")
    BY <1>2, <1>3, <1>4, <1>5, <1>8
    DEF Nss, nss_socket, nss_loop, nss_request, nss_lookup, nss_reply
  <2> QED BY <1>1, <1>2, <2>1
<1>9. CASE cmd_socket \/ cmd_remote_loop \/ cmd_console_loop
  <2>1. Still("cmd") \/ Still("console")
    BY <1>2, <1>3, <1>9 DEF cmd_socket, cmd_remote_loop, cmd_console_loop, tables
  <2> QED BY <1>1, <1>2, <2>1
<1>10. ASSUME NEW f \in Console, Command(f) \/ cmd_shutdown(f) PROVE WalkIInv'
  <2>1. cmd_shutdown(f) => Still(f)
    BY <1>2 DEF cmd_shutdown, tables
  <2>2. Command(f) => Still(f)
    BY <1>2, <1>4, <1>5 DEF Command, Look, tables
  <2> QED BY <1>1, <1>2, <1>10, <2>1, <2>2
<1>11. ASSUME NEW f \in Console, cmd_print_database(f) PROVE WalkIInv'
  BY <1>2, <1>11, FirstKeepsWalk, ItemKeepsWalk, LeavingKeepsWalks DEF cmd_print_database
<1>12. ASSUME NEW f \in Loop, Timeout(f) \/ GetLost(f) PROVE WalkIInv'
  BY <1>1, <1>3, <1>12, LeavingKeepsWalks
<1>13. CASE Worker
  <2>1. (\E c \in Context : Callback(c)) \/ Second => Still("dns")
    BY <1>2 DEF Callback, Second, Tick, tables
  <2> QED BY <1>1, <1>2, <1>13, <2>1, AnnouncedKeepsWalks, ExpiredKeepsWalks DEF Worker
<1>14. CASE Signal \/ MainFrees \/ UNCHANGED frontvars
  <2>1. Still("dns")
    BY <1>2, <1>14 DEF Signal, MainFrees, frontvars, tables
  <2> QED BY <1>1, <1>2, <2>1
<1> HIDE DEF Still
<1>15. CASE Cmd
  BY <1>9, <1>10, <1>11, <1>15 DEF Cmd
<1> QED BY <1>6, <1>7, <1>8, <1>12, <1>13, <1>14, <1>15 DEF FrontNext

LEMMA WalkInitially == FrontInit => WalkIInv
<1> SUFFICES ASSUME FrontInit PROVE WalkIInv
  OBVIOUS
<1>1. list = << >> /\ hash = {} /\ walk = [f \in Console |-> NoWalk]
  BY DEF FrontInit, Init
<1>2. Listing
  BY <1>1 DEF Listing, Items
<1>3. WalkTypeOK
  BY <1>1 DEF WalkTypeOK, NoWalk
<1>4. \A f \in Console : f \in Loop /\ pc[f] # "walk"
  BY DEF FrontInit, Loop
<1> QED BY <1>2, <1>3, <1>4 DEF WalkIInv

\* "print_database" prints every host that stays in the database, and once,
\* although other threads add and delete entries under it (masala-cmd.c:196),
\* unless they delete the one it is at.
THEOREM FrontWalkIsComplete == FrontSpec => []WalkIsComplete
<1>1. WalkIInv => WalkIsComplete
  <2> SUFFICES ASSUME WalkIInv, NEW f \in Console, pc[f] = "walk", walk[f].item = None,
                      NEW h \in walk[f].all
               PROVE  Cardinality({p \in DOMAIN walk[f].printed : walk[f].printed[p] = h}) = 1
    BY DEF WalkIsComplete
  <2>1. Once(walk[f].printed, h)
    BY DEF WalkIInv, Underway
  <2>2. PICK p \in DOMAIN walk[f].printed :
               {q \in DOMAIN walk[f].printed : walk[f].printed[q] = h} = {p}
    BY <2>1 DEF Once
  <2> QED BY <2>2, FS_Singleton
<1> QED BY <1>1, WalkInitially, WalkNext, FrontAlways, PTL DEF FrontSpec

-----------------------------------------------------------------------------
(* The queries that the dns thread reads.                                    *)

DnsTypeOK ==
  /\ datagram \in Nat /\ consumed \in Nat /\ left \in Nat
  /\ count \in Nat /\ passed \in Nat /\ begin \in Nat
  /\ domain \in Seq(LabelByte) /\ Len(domain) \in Nat

\* Where the walk over the datagram is.  The string is one shorter than the
\* bytes read of its name, and "size" is what is behind the name, four bytes too
\* much for each question that was passed over.
DnsInv ==
  /\ DnsTypeOK
  /\ Len(domain) < QName_Size
  /\ stage = "header" => consumed = 0 /\ passed = 0 /\ left = datagram
  /\ stage # "header" => datagram < HeaderSize \/ consumed <= datagram + 4 * passed
  /\ stage = "name" =>
       /\ left + begin = datagram + 4 * passed
       /\ consumed = IF domain = << >> THEN begin ELSE begin + Len(domain) + 1
  /\ stage = "question" =>
       left + consumed = datagram + 4 * passed /\ 4 <= left

LEMMA DnsInitially == DnsInit => DnsInv
BY DnsAssumption, EmptySeq DEF DnsInit, DnsInv, DnsTypeOK, HeaderSize

LEMMA RefusedKeepsInv ==
  ASSUME DnsInv, Refused
  PROVE  DnsInv'
BY DEF DnsInv, DnsTypeOK, Refused

LEMMA HeaderKeepsInv ==
  ASSUME DnsInv, NEW qdCount \in 0..MaxQuestions, NEW others \in 0..1,
         dns_decode_header(qdCount, others)
  PROVE  DnsInv'
<1> USE DnsAssumption
<1>1. CASE datagram < HeaderSize \/ others # 0
  BY <1>1, RefusedKeepsInv DEF dns_decode_header
<1>2. CASE ~(datagram < HeaderSize \/ others # 0)
  <2>1. /\ datagram' = datagram /\ passed' = passed /\ passed = 0
        /\ consumed' = 12 /\ left' = datagram - 12 /\ 12 <= datagram
        /\ begin' = 12 /\ domain' = << >> /\ stage' \in {"name", "refused"}
        /\ count' \in Nat
    BY <1>2 DEF dns_decode_header, NextName, HeaderSize, DnsInv, DnsTypeOK
  <2>2. domain' \in Seq(LabelByte) /\ Len(domain') = 0
    BY <2>1, EmptySeq
  <2>3. DnsTypeOK'
    BY <2>1, <2>2 DEF DnsInv, DnsTypeOK
  <2>4. 0 < QName_Size
    OBVIOUS
  <2> QED BY <2>1, <2>2, <2>3, <2>4 DEF DnsInv, DnsTypeOK
<1> QED BY <1>1, <1>2

\* The string grows by what is read of the name.
LEMMA LabelKeepsInv ==
  ASSUME DnsInv, NEW len \in LabelLength, DecodeLabel(len)
  PROVE  DnsInv'
<1> USE DnsAssumption
<1>1. CASE ~Fits(len)
  BY <1>1, RefusedKeepsInv DEF DecodeLabel
<1>2. CASE Fits(len)
  <2>1. PICK s \in [1..len -> LabelByte] : domain' = Dotted \o s
    BY <1>2 DEF DecodeLabel
  <2>2. /\ consumed' = consumed + 1 + len
        /\ UNCHANGED <<datagram, left, count, passed, begin, stage>>
        /\ stage = "name"
    BY <1>2 DEF DecodeLabel
  <2>3. /\ Dotted \in Seq(LabelByte)
        /\ Len(Dotted) = IF domain = << >> THEN 0 ELSE Len(domain) + 1
    BY EmptySeq, AppendProperties DEF Dotted, DnsInv, DnsTypeOK
  <2>4. s \in Seq(LabelByte) /\ Len(s) = len
    BY <2>1, ASeq
  <2>5. /\ domain' \in Seq(LabelByte) /\ Len(domain') = Len(Dotted) + len
    BY <2>1, <2>3, <2>4, ConcatProperties
  <2>6. domain' # << >>
    BY <2>3, <2>5, EmptySeq DEF DnsInv, DnsTypeOK
  <2>7. Len(Dotted) + len < QName_Size /\ Len(Dotted) + len < left
    BY <1>2 DEF Fits
  <2>8. DnsTypeOK'
    BY <2>2, <2>3, <2>5 DEF DnsInv, DnsTypeOK
  <2>9. consumed + len + 1 = begin + Len(domain') + 1
    BY <2>2, <2>3, <2>5 DEF DnsInv, DnsTypeOK
  <2>10. left + begin = datagram + 4 * passed /\ Len(domain') < QName_Size /\ Len(domain') < left
    BY <2>2, <2>5, <2>7 DEF DnsInv
  <2> QED BY <2>2, <2>6, <2>8, <2>9, <2>10 DEF DnsInv, DnsTypeOK
<1> QED BY <1>1, <1>2

\* There are four bytes behind the name.
LEMMA EndKeepsInv ==
  ASSUME DnsInv, DecodeEnd
  PROVE  DnsInv'
<1>1. CASE left < consumed + 1 - begin + 4
  BY <1>1, RefusedKeepsInv DEF DecodeEnd
<1>2. CASE ~(left < consumed + 1 - begin + 4)
  <2>1. /\ consumed' = consumed + 1 /\ left' = left - (consumed + 1 - begin)
        /\ stage = "name" /\ stage' = "question"
        /\ UNCHANGED <<datagram, count, passed, begin, domain, labels>>
    BY <1>2 DEF DecodeEnd
  <2>2. begin <= consumed
    BY <2>1 DEF DnsInv, DnsTypeOK
  <2> QED BY <1>2, <2>1, <2>2 DEF DnsInv, DnsTypeOK
<1> QED BY <1>1, <1>2

\* Which a question takes, and which "size" keeps.
LEMMA TypeKeepsInv ==
  ASSUME DnsInv, NEW aaaa \in BOOLEAN, DecodeType(aaaa)
  PROVE  DnsInv'
<1> USE DnsAssumption
<1>1. /\ consumed' = consumed + 4 /\ stage = "question"
      /\ UNCHANGED <<datagram, left, count>>
  BY DEF DecodeType
<1>2. CASE aaaa
  <2>1. stage' \in {"lookup", "refused"} /\ UNCHANGED <<passed, begin, domain, labels>>
    BY <1>2 DEF DecodeType
  <2> QED BY <1>1, <2>1 DEF DnsInv, DnsTypeOK
<1>3. CASE ~aaaa
  <2>1. /\ passed' = passed + 1 /\ begin' = consumed' /\ domain' = << >>
        /\ stage' \in {"name", "refused"}
    BY <1>3 DEF DecodeType, NextName
  <2>2. << >> \in Seq(LabelByte) /\ Len(<< >>) = 0
    BY EmptySeq
  <2> QED BY <1>1, <2>1, <2>2 DEF DnsInv, DnsTypeOK
<1> QED BY <1>2, <1>3

LEMMA DnsStepKeepsInv ==
  ASSUME DnsInv, [dns_decode_query]_dnsvars
  PROVE  DnsInv'
<1>1. CASE dns_decode_query
  BY <1>1, HeaderKeepsInv, LabelKeepsInv, EndKeepsInv, TypeKeepsInv DEF dns_decode_query
<1>2. CASE UNCHANGED dnsvars
  BY <1>2 DEF DnsInv, DnsTypeOK, dnsvars
<1> QED BY <1>1, <1>2

\* dns_decode_domain and dns_decode_query together keep the name in its buffer
\* and within the datagram, but for four bytes for each question passed over
\* (masala-dns.c:213), for a buffer of any size and datagrams of any length.
THEOREM DnsQueryIsRead == DnsSpec => []QueryIsRead
<1>1. ASSUME DnsInv, [dns_decode_query]_dnsvars PROVE DnsInv'
  BY <1>1, DnsStepKeepsInv
<1>2. DnsInv => QueryIsRead
  BY DEF DnsInv, QueryIsRead
<1> QED BY <1>1, <1>2, DnsInitially, PTL DEF DnsSpec

-----------------------------------------------------------------------------
(* The name of a query, as the response repeats it.                          *)

\* A sequence of numbers that increases from each to the next is increasing.
LEMMA StepsIncrease ==
  ASSUME NEW c \in Nat, NEW e \in [1..c -> Nat], \A k \in 1..c - 1 : e[k] < e[k + 1]
  PROVE  \A j, k \in 1..c : j < k => e[j] < e[k]
<1> SUFFICES ASSUME NEW j \in 1..c PROVE \A k \in 1..c : j < k => e[j] < e[k]
  OBVIOUS
<1> DEFINE S == {n \in Nat : j + 1 + n <= c => e[j] < e[j + 1 + n]}
<1>1. 0 \in S
  OBVIOUS
<1>2. ASSUME NEW n \in Nat, n \in S PROVE n + 1 \in S
  <2> SUFFICES ASSUME j + 1 + (n + 1) <= c PROVE e[j] < e[j + 1 + (n + 1)]
    OBVIOUS
  <2>1. PICK m \in 1..c - 1 : m = j + 1 + n /\ m + 1 = j + 1 + (n + 1)
    OBVIOUS
  <2>2. e[j] < e[m] /\ e[m] < e[m + 1]
    BY <1>2, <2>1
  <2>3. e[j] \in Nat /\ e[m] \in Nat /\ e[m + 1] \in Nat
    BY <2>1
  <2> QED BY <2>1, <2>2, <2>3
<1> HIDE DEF S
<1>3. Nat \subseteq S
  BY <1>1, <1>2, NatInductionOnSet
<1>4. ASSUME NEW k \in 1..c, j < k PROVE e[j] < e[k]
  <2>1. k - j - 1 \in S /\ j + 1 + (k - j - 1) = k
    BY <1>3, <1>4
  <2> QED BY <2>1 DEF S
<1> QED BY <1>4

\* d is the labels ls with dots between them; e says where each begins, and
\* where another one would.
Written(d, ls, e) ==
  /\ e \in [1..Len(ls) + 1 -> Nat]
  /\ e[1] = 1 /\ e[Len(ls) + 1] = Len(d) + 2
  /\ \A k \in 1..Len(ls) :
       /\ e[k + 1] = e[k] + Len(ls[k]) + 1
       /\ \A i \in 1..Len(ls[k]) : d[e[k] + i - 1] = ls[k][i]
       /\ k > 1 => d[e[k] - 1] = "."

\* Where the labels are in the string.
LEMMA WrittenIs ==
  ASSUME NEW d \in Seq(LabelByte), NEW ls \in Seq(Seq(LabelByte)), NEW e, Written(d, ls, e)
  PROVE  /\ Len(d) \in Nat /\ Len(ls) \in Nat
         /\ e \in [1..Len(ls) + 1 -> Nat]
         /\ \A k \in 1..Len(ls) : Len(ls[k]) \in Nat
         /\ \A j, k \in 1..Len(ls) + 1 : j < k => e[j] < e[k]
         /\ \A k \in 1..Len(ls) + 1 : e[k] \in 1..Len(d) + 2
<1>1. /\ Len(d) \in Nat /\ Len(ls) \in Nat
      /\ \A k \in 1..Len(ls) : ls[k] \in Seq(LabelByte)
  OBVIOUS
<1>2. \A k \in 1..Len(ls) : Len(ls[k]) \in Nat
  BY <1>1, LenProperties
<1>3. PICK c \in Nat : c = Len(ls) + 1 /\ c > 0 /\ c - 1 = Len(ls)
  BY <1>1
<1>4. e \in [1..c -> Nat] /\ e[1] = 1 /\ e[c] = Len(d) + 2
  BY <1>3 DEF Written
<1>5. \A k \in 1..c - 1 : e[k] < e[k + 1]
  <2> TAKE k \in 1..c - 1
  <2>1. e[k + 1] = e[k] + Len(ls[k]) + 1 /\ Len(ls[k]) \in Nat
    BY <1>2, <1>3 DEF Written
  <2>2. e[k] \in Nat
    BY <1>4
  <2> QED BY <2>1, <2>2
<1>6. \A j, k \in 1..c : j < k => e[j] < e[k]
  BY <1>3, <1>4, <1>5, StepsIncrease
<1>7. ASSUME NEW k \in 1..c PROVE e[k] \in 1..Len(d) + 2
  <2>1. (k = 1 \/ 1 < k) /\ (k = c \/ k < c) /\ 1 \in 1..c /\ c \in 1..c
    BY <1>3
  <2>2. e[1] <= e[k] /\ e[k] <= e[c] /\ e[k] \in Nat
    BY <1>4, <1>6, <2>1
  <2> QED BY <1>1, <1>4, <2>2
<1> QED BY <1>1, <1>2, <1>3, <1>4, <1>6, <1>7

\* The character at p is one of a label, or a dot between two,
Covered(d, ls, e, p) ==
  \/ \E k \in 1..Len(ls) : \E i \in 1..Len(ls[k]) : p = e[k] + i - 1 /\ d[p] = ls[k][i]
  \/ \E k \in 2..Len(ls) : p = e[k] - 1 /\ d[p] = "."

\* as each is.
LEMMA WrittenCovers ==
  ASSUME NEW d \in Seq(LabelByte), NEW ls \in Seq(Seq(LabelByte)), NEW e, Written(d, ls, e),
         ls # << >>, NEW p \in 1..Len(d)
  PROVE  Covered(d, ls, e, p)
<1> DEFINE T == {k \in 1..Len(ls) : e[k] <= p + 1}
<1>1. /\ Len(d) \in Nat /\ Len(ls) \in Nat /\ p \in Nat /\ p > 0
      /\ e \in [1..Len(ls) + 1 -> Nat]
      /\ \A k \in 1..Len(ls) : Len(ls[k]) \in Nat
  BY WrittenIs
<1>2. Len(ls) > 0 /\ 1 \in 1..Len(ls)
  BY <1>1, EmptySeq
<1>3. 1 \in T
  BY <1>1, <1>2 DEF Written
<1>4. T \in SUBSET (0..Len(ls))
  BY <1>1
<1>5. PICK k \in T : \A j \in T : j <= k
  BY <1>1, <1>3, <1>4, GreatestNat
<1>6. k \in 1..Len(ls) /\ e[k] <= p + 1 /\ e[k] \in Nat
  <2>1. k \in 1..Len(ls) /\ e[k] <= p + 1
    BY <1>5
  <2>2. k \in 1..Len(ls) + 1
    BY <1>1, <2>1
  <2> QED BY <1>1, <2>1, <2>2
<1> HIDE DEF T
<1>7. p + 1 < e[k + 1]
  <2>1. CASE k + 1 \in 1..Len(ls)
    <3>1. k + 1 \notin T
      BY <1>5, <1>6
    <3>2. k + 1 \in 1..Len(ls) + 1
      BY <1>1, <2>1
    <3>3. e[k + 1] \in Nat
      BY <1>1, <3>2
    <3> QED BY <1>1, <2>1, <3>1, <3>3 DEF T
  <2>2. CASE k = Len(ls)
    <3>1. e[k + 1] = Len(d) + 2
      BY <2>2 DEF Written
    <3> QED BY <1>1, <3>1
  <2> QED BY <1>1, <1>6, <2>1, <2>2
<1>8. /\ e[k + 1] = e[k] + Len(ls[k]) + 1 /\ Len(ls[k]) \in Nat
      /\ \A i \in 1..Len(ls[k]) : d[e[k] + i - 1] = ls[k][i]
      /\ k > 1 => d[e[k] - 1] = "."
      /\ e[1] = 1
  BY <1>1, <1>6 DEF Written
<1>9. CASE e[k] = p + 1
  <2>1. k > 1 /\ k \in 2..Len(ls)
    BY <1>1, <1>6, <1>8, <1>9
  <2>2. p = e[k] - 1
    BY <1>1, <1>9
  <2> QED BY <1>8, <2>1, <2>2 DEF Covered
<1>10. CASE e[k] # p + 1
  <2>1. PICK b \in Nat, n \in Nat : b = e[k] /\ n = Len(ls[k])
    BY <1>6, <1>8
  <2>2. b < p + 1 /\ p + 1 < b + n + 1
    BY <1>1, <1>6, <1>7, <1>8, <1>10, <2>1
  <2>3. PICK i \in 1..n : p = b + i - 1
    <3>1. p + 1 - b \in 1..n /\ p = b + (p + 1 - b) - 1
      BY <1>1, <2>2
    <3> QED BY <3>1
  <2> QED BY <1>6, <1>8, <2>1, <2>3 DEF Covered
<1> QED BY <1>9, <1>10

\* Labels without dots are found again: the beginnings are behind the dots.
LEMMA BeginningsAre ==
  ASSUME NEW d \in Seq(LabelByte), NEW ls \in Seq(Seq(LabelByte)), NEW e, Written(d, ls, e),
         ls # << >>, \A k \in 1..Len(ls) : \A i \in 1..Len(ls[k]) : ls[k][i] # "."
  PROVE  Enumerates(e, Len(ls) + 1, {1, Len(d) + 2} \cup {p + 1 : p \in Dots(d)}, Len(d) + 2)
<1> DEFINE begs == {1, Len(d) + 2} \cup {p + 1 : p \in Dots(d)}
           c == Len(ls) + 1
<1>1. /\ Len(d) \in Nat /\ DOMAIN d = 1..Len(d) /\ c \in Nat /\ Len(ls) \in Nat
      /\ e \in [1..c -> Nat]
      /\ \A j, k \in 1..c : j < k => e[j] < e[k]
      /\ \A k \in 1..c : e[k] \in 1..Len(d) + 2
  BY WrittenIs
<1>2. e[1] = 1 /\ e[c] = Len(d) + 2
  BY DEF Written
<1>3. ASSUME NEW k \in 1..c PROVE e[k] \in begs
  <2>1. CASE k = 1 \/ k = c
    BY <1>2, <2>1
  <2>2. CASE k # 1 /\ k # c
    <3>1. k \in 1..Len(ls) /\ k > 1 /\ 1 < k /\ k < c /\ 1 \in 1..c /\ c \in 1..c
      BY <1>1, <2>2
    <3>2. e[1] < e[k] /\ e[k] < e[c] /\ e[k] \in Nat
      BY <1>1, <3>1
    <3>3. e[k] - 1 \in 1..Len(d) /\ (e[k] - 1) + 1 = e[k]
      BY <1>1, <1>2, <3>2
    <3>4. d[e[k] - 1] = "."
      BY <3>1 DEF Written
    <3>5. e[k] - 1 \in Dots(d)
      BY <1>1, <3>3, <3>4 DEF Dots
    <3> QED BY <3>3, <3>5
  <2> QED BY <2>1, <2>2
<1>4. ASSUME NEW q \in begs PROVE \E k \in 1..c : e[k] = q
  <2>1. CASE q \in {1, Len(d) + 2}
    <3>1. 1 \in 1..c /\ c \in 1..c
      BY <1>1
    <3> QED BY <1>2, <2>1, <3>1
  <2>2. ASSUME NEW p \in Dots(d), q = p + 1 PROVE \E k \in 1..c : e[k] = q
    <3>1. p \in 1..Len(d) /\ d[p] = "."
      BY <1>1 DEF Dots
    <3>2. PICK k \in 2..Len(ls) : p = e[k] - 1
      <4>1. ~ \E k \in 1..Len(ls) : \E i \in 1..Len(ls[k]) :
                 p = e[k] + i - 1 /\ d[p] = ls[k][i]
        BY <3>1
      <4>2. Covered(d, ls, e, p)
        BY <3>1, WrittenCovers
      <4> QED BY <4>1, <4>2 DEF Covered
    <3>3. k \in 1..c
      BY <1>1
    <3>4. e[k] \in Nat
      BY <1>1, <3>3
    <3> QED BY <2>2, <3>1, <3>2, <3>3, <3>4
  <2> QED BY <2>1, <2>2
<1>5. begs \subseteq 1..Len(d) + 2
  <2>1. \A p \in Dots(d) : p \in 1..Len(d)
    BY <1>1 DEF Dots
  <2> QED BY <1>1, <2>1
<1>6. e \in [1..c -> begs]
  BY <1>1, <1>3
<1> HIDE DEF begs
<1>7. Enumerates(e, c, begs, Len(d) + 2)
  BY <1>1, <1>4, <1>5, <1>6 DEF Enumerates
<1> QED BY <1>7 DEF begs

\* The string goes back to the labels it was made of, if they have no dot and no
\* '\0' in them.
LEMMA CodesLabels ==
  ASSUME NEW d \in Seq(LabelByte), NEW ls \in Seq(Seq(LabelByte)), NEW e, Written(d, ls, e),
         ls # << >>, \A k \in 1..Len(ls) : \A i \in 1..Len(ls[k]) : ls[k][i] \in HostByte
  PROVE  dns_code_domain(d) = Append(ls, << >>)
<1>1. ~ Contains(d, Nul)
  <2> SUFFICES ASSUME NEW p \in 1..Len(d) PROVE d[p] # Nul
    BY DEF Contains
  <2>1. CASE d[p] = "."
    BY <2>1, DnsAssumption
  <2>2. ASSUME NEW k \in 1..Len(ls), NEW i \in 1..Len(ls[k]), d[p] = ls[k][i] PROVE d[p] # Nul
    <3>1. d[p] \in HostByte
      BY <2>2
    <3> QED BY <3>1, DnsAssumption
  <2>3. Covered(d, ls, e, p)
    BY WrittenCovers
  <2> QED BY <2>1, <2>2, <2>3 DEF Covered
<1> DEFINE begs == {1, Len(d) + 2} \cup {p + 1 : p \in Dots(d)}
           c == Len(ls) + 1
           beg(k) == CHOOSE p \in begs : Cardinality({q \in begs : q <= p}) = k
<1>2. /\ Len(d) \in Nat /\ DOMAIN d = 1..Len(d) /\ c \in Nat /\ Len(ls) \in Nat /\ c - 1 = Len(ls)
      /\ e \in [1..c -> Nat]
      /\ \A k \in 1..Len(ls) : Len(ls[k]) \in Nat
      /\ \A k \in 1..c : e[k] \in 1..Len(d) + 2
  BY WrittenIs
<1>3. CString(d) = d
  BY <1>1 DEF CString
<1>4. Enumerates(e, c, begs, Len(d) + 2)
  BY BeginningsAre, DnsAssumption
<1>5. Cardinality(begs) = c
  BY <1>4, EnumeratedSize
<1>6. ASSUME NEW k \in 1..c PROVE beg(k) = e[k]
  <2> HIDE DEF begs
  <2>1. e[k] \in begs /\ Rank(begs, e[k]) = k
    BY <1>4, RankIs, Increasing
  <2>2. ASSUME NEW p \in begs, Rank(begs, p) = k PROVE p = e[k]
    <3>1. PICK j \in 1..c : e[j] = p
      BY <1>4 DEF Enumerates
    <3>2. j = k
      BY <1>4, <2>2, <3>1, RankIs
    <3> QED BY <3>1, <3>2
  <2> QED BY <2>1, <2>2 DEF Rank
<1>7. ASSUME NEW k \in 1..Len(ls) PROVE SubSeq(d, beg(k), beg(k + 1) - 2) = ls[k]
  <2>1. k \in 1..c /\ k + 1 \in 1..c
    BY <1>2
  <2>2. beg(k) = e[k] /\ beg(k + 1) = e[k + 1]
    BY <1>6, <2>1
  <2> HIDE DEF beg
  <2>3. /\ e[k + 1] = e[k] + Len(ls[k]) + 1
        /\ \A i \in 1..Len(ls[k]) : d[e[k] + i - 1] = ls[k][i]
    BY DEF Written
  <2>4. PICK b \in Nat, n \in Nat : b = e[k] /\ n = Len(ls[k]) /\ 1 <= b /\ b + n + 1 <= Len(d) + 2
    BY <1>2, <2>1, <2>3
  <2>5. SubSeq(d, b, b + n - 1) = ls[k]
    <3>1. PICK sub : sub = SubSeq(d, b, b + n - 1)
      OBVIOUS
    <3>2. /\ sub \in Seq(LabelByte) /\ Len(sub) = n
          /\ \A i \in 1..n : sub[i] = d[b + i - 1]
      <4>1. b \in 1..Len(d) + 1 /\ b + n - 1 \in b - 1..Len(d)
        BY <1>2, <2>4
      <4>2. /\ SubSeq(d, b, b + n - 1) \in Seq(LabelByte)
            /\ Len(SubSeq(d, b, b + n - 1)) = (b + n - 1) - b + 1
            /\ \A i \in 1..(b + n - 1) - b + 1 : SubSeq(d, b, b + n - 1)[i] = d[b + i - 1]
        BY <4>1, SubSeqProperties
      <4>3. (b + n - 1) - b + 1 = n
        BY <2>4
      <4> QED BY <3>1, <4>2, <4>3
    <3>3. ls[k] \in Seq(LabelByte)
      OBVIOUS
    <3>4. \A i \in 1..n : sub[i] = ls[k][i]
      BY <2>3, <2>4, <3>2
    <3> QED BY <2>4, <3>1, <3>2, <3>3, <3>4, SeqEqual
  <2>6. e[k + 1] - 2 = b + n - 1
    <3>1. e[k + 1] = b + n + 1
      BY <2>3, <2>4
    <3>2. \A x, y \in Nat : (x + y + 1) - 2 = x + y - 1
      OBVIOUS
    <3>3. (b + n + 1) - 2 = b + n - 1
      BY <3>2
    <3> QED BY <3>1, <3>3
  <2> QED BY <2>2, <2>4, <2>5, <2>6
<1>8. Labels(d, begs) = ls
  <2>1. Labels(d, begs) = [k \in 1..c - 1 |-> SubSeq(d, beg(k), beg(k + 1) - 2)]
    <3> HIDE DEF begs
    <3> QED BY <1>5 DEF Labels
  <2> HIDE DEF begs, beg
  <2>2. ls = [k \in 1..Len(ls) |-> ls[k]]
    OBVIOUS
  <2> QED BY <1>2, <1>7, <2>1, <2>2
<1> QED BY <1>3, <1>8 DEF dns_code_domain

\* What the walk has of the name: the string is made of the labels that were read.
NamesInv ==
  stage \in {"name", "question", "lookup"} =>
    /\ labels \in Seq(Seq(LabelByte))
    /\ labels = << >> => domain = << >>
    /\ labels # << >> => domain # << >> /\ \E e : Written(domain, labels, e)

\* The first label is the string,
LEMMA FirstWritten ==
  ASSUME NEW s \in Seq(LabelByte)
  PROVE  Written(s, Append(<< >>, s), [k \in 1..2 |-> IF k = 1 THEN 1 ELSE Len(s) + 2])
<1> DEFINE ls == Append(<< >>, s)
           e == [k \in 1..2 |-> IF k = 1 THEN 1 ELSE Len(s) + 2]
<1>1. Len(ls) = 1 /\ ls[1] = s
  OBVIOUS
<1>2. Len(s) \in Nat
  OBVIOUS
<1>3. e[1] = 1 /\ e[2] = Len(s) + 2 /\ e \in [1..2 -> Nat]
  BY <1>2
<1> HIDE DEF ls, e
<1>4. ASSUME NEW k \in 1..1 PROVE /\ e[k + 1] = e[k] + Len(ls[k]) + 1
                                  /\ \A i \in 1..Len(ls[k]) : s[e[k] + i - 1] = ls[k][i]
  <2>1. k = 1 /\ k + 1 = 2
    OBVIOUS
  <2>2. e[k] = 1 /\ e[k + 1] = Len(s) + 2 /\ ls[k] = s
    BY <1>1, <1>3, <2>1
  <2> QED BY <1>2, <2>2
<1>5. Len(ls) + 1 = 2
  BY <1>1
<1>6. Written(s, ls, e)
  BY <1>1, <1>2, <1>3, <1>4, <1>5 DEF Written
<1> QED BY <1>6 DEF ls, e

\* and a label behind others begins behind a dot.
LEMMA NextWritten ==
  ASSUME NEW d \in Seq(LabelByte), NEW ls \in Seq(Seq(LabelByte)), NEW e, Written(d, ls, e),
         ls # << >>, NEW s \in Seq(LabelByte)
  PROVE  \E f : Written(Append(d, ".") \o s, Append(ls, s), f)
<1> DEFINE c == Len(ls) + 1
           D == Append(d, ".") \o s
           L == Append(ls, s)
           f == [k \in 1..c + 1 |-> IF k <= c THEN e[k] ELSE Len(D) + 2]
<1>1. /\ Len(d) \in Nat /\ Len(ls) \in Nat /\ c \in Nat /\ Len(s) \in Nat
      /\ e \in [1..c -> Nat]
      /\ \A k \in 1..Len(ls) : Len(ls[k]) \in Nat
      /\ \A k \in 1..c : e[k] \in 1..Len(d) + 2
  BY WrittenIs
<1>2. /\ e[1] = 1 /\ e[c] = Len(d) + 2
      /\ \A k \in 1..Len(ls) :
           /\ e[k + 1] = e[k] + Len(ls[k]) + 1
           /\ \A i \in 1..Len(ls[k]) : d[e[k] + i - 1] = ls[k][i]
           /\ k > 1 => d[e[k] - 1] = "."
  BY DEF Written
<1>3. /\ Len(D) = Len(d) + 1 + Len(s)
      /\ \A i \in 1..Len(d) : D[i] = d[i]
      /\ D[Len(d) + 1] = "."
      /\ \A i \in 1..Len(s) : D[Len(d) + 1 + i] = s[i]
  <2>1. "." \in LabelByte
    BY DnsAssumption
  <2>2. PICK a \in Seq(LabelByte) : a = Append(d, ".")
    BY <2>1, AppendProperties
  <2>3. /\ Len(a) = Len(d) + 1
        /\ \A i \in 1..Len(d) : a[i] = d[i]
        /\ a[Len(d) + 1] = "."
    BY <2>1, <2>2, AppendProperties
  <2>4. D = a \o s
    BY <2>2
  <2> HIDE DEF D
  <2>5. Len(D) = Len(a) + Len(s) /\ \A i \in 1..Len(a) + Len(s) :
          D[i] = IF i <= Len(a) THEN a[i] ELSE s[i - Len(a)]
    BY <2>4, ConcatProperties
  <2>6. Len(D) = Len(d) + 1 + Len(s)
    BY <1>1, <2>3, <2>5
  <2>7. ASSUME NEW i \in 1..Len(d) + 1 PROVE D[i] = a[i]
    BY <1>1, <2>3, <2>5
  <2>8. ASSUME NEW i \in 1..Len(s) PROVE D[Len(d) + 1 + i] = s[i]
    <3>1. PICK n \in Nat, m \in Nat : n = Len(d) /\ m = Len(s)
      BY <1>1
    <3>2. Len(a) = n + 1
      BY <2>3, <3>1
    <3>3. i \in 1..m
      BY <3>1
    <3>4. PICK j \in 1..(n + 1) + m : j = n + 1 + i
      BY <3>3
    <3>5. ~(j <= n + 1) /\ j - (n + 1) = i
      BY <3>3, <3>4
    <3>6. j \in 1..Len(a) + Len(s)
      BY <3>1, <3>2
    <3>7. D[j] = IF j <= Len(a) THEN a[j] ELSE s[j - Len(a)]
      BY <2>5, <3>6
    <3>8. D[j] = s[i]
      BY <3>2, <3>5, <3>7
    <3> QED BY <3>1, <3>4, <3>8
  <2>9. \A i \in 1..Len(d) : D[i] = d[i]
    BY <1>1, <2>3, <2>7
  <2>10. D[Len(d) + 1] = "."
    BY <1>1, <2>3, <2>7
  <2> QED BY <2>6, <2>8, <2>9, <2>10
<1>4. /\ Len(L) = c /\ L[c] = s /\ \A k \in 1..Len(ls) : L[k] = ls[k]
  BY AppendProperties
<1> HIDE DEF D, L
<1>5. Len(D) \in Nat
  BY <1>1, <1>3
<1>6. f \in [1..c + 1 -> Nat]
  BY <1>1, <1>5
<1>7. /\ \A k \in 1..c : f[k] = e[k]
      /\ f[c + 1] = Len(D) + 2
  <2>1. c + 1 \in 1..c + 1 /\ ~(c + 1 <= c) /\ \A k \in 1..c : k \in 1..c + 1 /\ k <= c
    BY <1>1
  <2> QED BY <2>1
<1> HIDE DEF f
<1>8. f[1] = 1
  <2>1. 1 \in 1..c
    BY <1>1
  <2> QED BY <1>2, <1>7, <2>1
<1>9. ASSUME NEW k \in 1..c
      PROVE  /\ f[k + 1] = f[k] + Len(L[k]) + 1
             /\ \A i \in 1..Len(L[k]) : D[f[k] + i - 1] = L[k][i]
             /\ k > 1 => D[f[k] - 1] = "."
  <2>1. CASE k \in 1..Len(ls)
    <3>1. k + 1 \in 1..c
      BY <1>1, <2>1
    <3>2. f[k] = e[k] /\ f[k + 1] = e[k + 1] /\ L[k] = ls[k]
      BY <1>4, <1>7, <2>1, <3>1
    <3>3. e[k + 1] = e[k] + Len(ls[k]) + 1 /\ e[k + 1] <= Len(d) + 2 /\ 1 <= e[k]
      BY <1>1, <1>2, <2>1, <3>1
    <3>4. PICK b \in Nat, n \in Nat, m \in Nat : b = e[k] /\ n = Len(ls[k]) /\ m = Len(d)
      BY <1>1, <2>1
    <3>5. b + n + 1 <= m + 2 /\ 1 <= b
      BY <3>3, <3>4
    <3>6. ASSUME NEW i \in 1..n PROVE D[b + i - 1] = ls[k][i]
      <4>1. b + i - 1 \in 1..m
        BY <3>5
      <4>2. D[b + i - 1] = d[b + i - 1]
        BY <1>3, <3>4, <4>1
      <4>3. d[b + i - 1] = ls[k][i]
        BY <1>2, <2>1, <3>4
      <4> QED BY <4>2, <4>3
    <3>7. ASSUME k > 1 PROVE D[b - 1] = "."
      <4>1. d[b - 1] = "."
        BY <1>2, <2>1, <3>4, <3>7
      <4>2. k \in 1..c /\ 1 \in 1..c /\ 1 < k
        BY <1>1, <3>7
      <4>3. e[1] < e[k]
        BY <4>2, WrittenIs
      <4>4. 1 < b
        BY <1>2, <3>4, <4>3
      <4>5. b - 1 \in 1..m
        BY <3>5, <4>4
      <4> QED BY <1>3, <3>4, <4>1, <4>5
    <3> QED BY <3>2, <3>3, <3>4, <3>6, <3>7
  <2>2. CASE k = c
    <3>1. f[k] = Len(d) + 2 /\ L[k] = s /\ f[k + 1] = Len(d) + 1 + Len(s) + 2
      BY <1>2, <1>3, <1>4, <1>7, <2>2
    <3>2. PICK n \in Nat, m \in Nat : n = Len(s) /\ m = Len(d)
      BY <1>1
    <3>3. m + 1 + n + 2 = (m + 2) + n + 1 /\ (m + 2) - 1 = m + 1
      BY <3>2
    <3>4. ASSUME NEW i \in 1..n PROVE D[(m + 2) + i - 1] = s[i]
      <4>1. (m + 2) + i - 1 = m + 1 + i
        OBVIOUS
      <4> QED BY <1>3, <3>2, <4>1
    <3> QED BY <1>3, <3>1, <3>2, <3>3, <3>4
  <2> QED BY <1>1, <2>1, <2>2
<1>10. Written(D, L, f)
  BY <1>4, <1>6, <1>7, <1>8, <1>9 DEF Written
<1> QED BY <1>10 DEF D, L

LEMMA LabelKeepsNames ==
  ASSUME domain \in Seq(LabelByte), NamesInv, NEW len \in LabelLength, DecodeLabel(len)
  PROVE  NamesInv'
<1> USE DnsAssumption
<1>1. CASE ~Fits(len)
  BY <1>1 DEF DecodeLabel, Refused, NamesInv
<1>2. CASE Fits(len)
  <2>1. PICK s \in [1..len -> LabelByte] : domain' = Dotted \o s /\ labels' = Append(labels, s)
    BY <1>2 DEF DecodeLabel
  <2>2. s \in Seq(LabelByte) /\ Len(s) = len /\ len > 0
    <3>1. len \in Nat /\ len > 0
      OBVIOUS
    <3> QED BY <2>1, <3>1, ASeq
  <2>3. labels \in Seq(Seq(LabelByte))
    BY DEF DecodeLabel, NamesInv
  <2>4. labels' \in Seq(Seq(LabelByte)) /\ labels' # << >>
    <3>1. labels' \in Seq(Seq(LabelByte)) /\ Len(labels') = Len(labels) + 1 /\ Len(labels) \in Nat
      BY <2>1, <2>2, <2>3, AppendProperties
    <3> QED BY <3>1, EmptySeq
  <2>5. CASE labels = << >>
    <3>1. domain = << >>
      BY <2>5 DEF DecodeLabel, NamesInv
    <3>2. domain' = s
      BY <2>1, <2>2, <3>1, EmptySeq DEF Dotted
    <3>3. \E e : Written(domain', labels', e)
      BY <2>1, <2>2, <2>5, <3>2, FirstWritten
    <3>4. domain' # << >>
      BY <2>2, <3>2, EmptySeq
    <3> QED BY <2>4, <3>3, <3>4 DEF NamesInv
  <2>6. CASE labels # << >>
    <3>1. domain # << >> /\ \E e : Written(domain, labels, e)
      BY <2>6 DEF DecodeLabel, NamesInv
    <3>2. PICK e : Written(domain, labels, e)
      BY <3>1
    <3>3. domain' = Append(domain, ".") \o s
      BY <2>1, <3>1 DEF Dotted
    <3>4. \E f : Written(domain', labels', f)
      BY <2>1, <2>2, <2>3, <2>6, <3>2, <3>3, NextWritten
    <3>5. domain' # << >>
      <4>1. Append(domain, ".") \in Seq(LabelByte) /\ Len(Append(domain, ".")) = Len(domain) + 1
            /\ Len(domain) \in Nat
        BY AppendProperties
      <4>2. Len(domain') = Len(domain) + 1 + len
        BY <2>2, <3>3, <4>1, ConcatProperties
      <4> QED BY <4>1, <4>2, EmptySeq
    <3> QED BY <2>4, <3>4, <3>5 DEF NamesInv
  <2> QED BY <2>5, <2>6
<1> QED BY <1>1, <1>2

\* The other steps leave the name alone or begin another one.
LEMMA OthersKeepNames ==
  ASSUME NamesInv,
         \/ \E qdCount \in 0..MaxQuestions, others \in 0..1 : dns_decode_header(qdCount, others)
         \/ DecodeEnd
         \/ \E aaaa \in BOOLEAN : DecodeType(aaaa)
         \/ UNCHANGED dnsvars
  PROVE  NamesInv'
<1>1. domain' = << >> /\ labels' = << >> => NamesInv'
  BY EmptySeq DEF NamesInv
<1>2. Refused => NamesInv'
  BY DEF Refused, NamesInv
<1>3. ASSUME stage \in {"name", "question", "lookup"}, UNCHANGED <<domain, labels>>
      PROVE  NamesInv'
  <2>1. Written(domain, labels, 0)' = Written(domain, labels, 0)
    BY <1>3
  <2> QED BY <1>3 DEF NamesInv, Written
<1>4. ASSUME NEW qdCount, NEW others, dns_decode_header(qdCount, others) PROVE NamesInv'
  BY <1>1, <1>2, <1>4 DEF dns_decode_header, NextName
<1>5. DecodeEnd => NamesInv'
  BY <1>2, <1>3 DEF DecodeEnd
<1>6. ASSUME NEW aaaa \in BOOLEAN, DecodeType(aaaa) PROVE NamesInv'
  BY <1>1, <1>3, <1>6 DEF DecodeType, NextName
<1>7. UNCHANGED dnsvars => NamesInv'
  BY DEF dnsvars, NamesInv, Written
<1> QED BY <1>4, <1>5, <1>6, <1>7

\* A query for the name of a host comes back, label by label: between the walk
\* over the datagram, which puts a dot in front of each label but the first
\* (masala-dns.c:216), and dns_code_domain (masala-dns.c:238), which goes from
\* one dot to the next, no label is lost and none is split, for labels of any
\* length and any number of them.
THEOREM DnsResponseEchoes == DnsSpec => []ResponseEchoes
<1> DEFINE IInv == DnsInv /\ NamesInv
<1>1. DnsInit => IInv
  BY DnsInitially, EmptySeq DEF DnsInit, NamesInv
<1>2. ASSUME IInv, [dns_decode_query]_dnsvars PROVE IInv'
  <2>1. DnsInv'
    BY <1>2, DnsStepKeepsInv
  <2>2. ASSUME NEW len \in LabelLength, DecodeLabel(len) PROVE NamesInv'
    BY <1>2, <2>2, LabelKeepsNames DEF DnsInv, DnsTypeOK
  <2>3. NamesInv'
    BY <1>2, <2>2, OthersKeepNames DEF dns_decode_query
  <2> QED BY <2>1, <2>3
<1>3. ASSUME IInv PROVE ResponseEchoes
  <2> SUFFICES ASSUME stage = "lookup", count = 1, labels # << >>,
                      \A l \in ToSet(labels) : ToSet(l) \subseteq HostByte
               PROVE  dns_code_domain(domain) = Append(labels, << >>)
    BY DEF ResponseEchoes, dns_code_response
  <2>1. domain \in Seq(LabelByte) /\ labels \in Seq(Seq(LabelByte))
    BY <1>3 DEF DnsInv, DnsTypeOK, NamesInv
  <2>2. PICK e : Written(domain, labels, e)
    BY <1>3 DEF NamesInv
  <2>3. ASSUME NEW k \in 1..Len(labels), NEW i \in 1..Len(labels[k]) PROVE labels[k][i] \in HostByte
    <3>1. labels[k] \in ToSet(labels) /\ labels[k] \in Seq(LabelByte)
      BY <2>1 DEF ToSet
    <3>2. labels[k][i] \in ToSet(labels[k])
      BY <3>1 DEF ToSet
    <3> QED BY <3>1, <3>2
  <2> QED BY <2>1, <2>2, <2>3, CodesLabels
<1> QED BY <1>1, <1>2, <1>3, PTL DEF DnsSpec
=============================================================================
