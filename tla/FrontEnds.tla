------------------------------ MODULE FrontEnds ------------------------------
(***************************************************************************)
(* The threads that answer local clients out of the database:              *)
(* masala-dns.c, masala-web.c, masala-nss.c and the two consoles of        *)
(* masala-cmd.c, next to the workers that change the database and end the  *)
(* lookups, and main, which frees everything at the end.                   *)
(*                                                                         *)
(* A front end takes the mutex for db_address and for lkp_put, but uses    *)
(* the pointer that db_address returns after it has released the mutex,    *)
(* and the consoles walk the list without it.  All but the console in the  *)
(* foreground are detached threads: main does not wait for them.           *)
(*                                                                         *)
(* A request of the dns and web threads lives in a piece of memory or a    *)
(* descriptor that passes from the thread to the callback of the lookup.   *)
(* Of the lookup only that is kept here: a set of waiting contexts; that   *)
(* each of them is called back once is what module Lookup shows.           *)
(***************************************************************************)
EXTENDS Database

CONSTANTS
  Block,       \* memory for a struct task of the dns thread
  Descriptor,  \* descriptors of the web thread's clients
  None,        \* NULL, and no descriptor
  Gone,        \* an item that has been freed
  Builds       \* the front ends that may run together: they are compile time
               \* options, and the console in the foreground a mode

Console == {"cmd", "console"}  \* cmd_remote_loop, cmd_console_loop
Loop == {"dns", "web", "nss"} \cup Console
Context == Block \cup Descriptor

ASSUME FrontEndsAssumption ==
  /\ {None, Gone} \cap (Context \cup Host) = {} /\ None # Gone
  /\ Block \cap Descriptor = {} /\ Builds \subseteq SUBSET Loop

VARIABLES
  status,   \* _main->status, or "freed" when main has freed the tables
  pc,       \* each front end's place in the code
  at,       \* the host it looks up; the values that its address has had since
            \* db_address returned the pointer to it, none once it is freed
  own,      \* "task" of dns_loop, "clientfd" of web_loop
  open,     \* contexts allocated or open
  waiting,  \* contexts of lookups under way
  walk,     \* cmd_print_database: the item it is at, the hosts printed
  steady,   \* history: hosts announced all along, from the one address
  late      \* history: requests taken up since the shutdown

tables == <<list, hash, db, now, told>>
requests == <<own, open, waiting>>
frontvars == <<tables, status, pc, at, requests, walk, steady, late>>

Online == status = "online"
Idle == [host |-> None, held |-> {}]
NoWalk == [item |-> None, printed |-> << >>, all |-> {}]

FrontInit ==
  /\ Init
  /\ status = "online"
  /\ \E started \in Builds :
       pc = [f \in Loop |-> IF f \in started THEN "start" ELSE "exit"]
  /\ at = [f \in Loop |-> Idle]
  /\ own = [f \in Loop |-> None] /\ open = {} /\ waiting = {}
  /\ walk = [f \in Console |-> NoWalk]
  /\ steady = {}
  /\ late = [f \in Loop |-> 0]

Goto(f, place) == pc' = [pc EXCEPT ![f] = place]
IdleAgain(f) == at' = [at EXCEPT ![f] = Idle]

-----------------------------------------------------------------------------
(* The sockets.  A front end that cannot bind its socket ends at once. *)

SetUp(f) == /\ pc[f] = "start"
            /\ \E place \in {"top", "exit"} : Goto(f, place)
            /\ UNCHANGED <<tables, status, at, requests, walk, steady, late>>

dns_socket == SetUp("dns")
web_socket == SetUp("web")
nss_socket == SetUp("nss")
cmd_socket == SetUp("cmd")

-----------------------------------------------------------------------------
(* The top of the loops *)

Proceed(f) == Goto(f, IF Online THEN "recv" ELSE "exit")
Drop(f) == /\ open' = open \ {own[f]}
           /\ own' = [own EXCEPT ![f] = None]
           /\ UNCHANGED waiting

\* Faulty: the loop does not look at the status.
dns_loop_ForEver ==
  /\ pc["dns"] = "top"
  /\ Drop("dns")
  /\ Goto("dns", "recv")
  /\ UNCHANGED <<tables, status, at, walk, steady, late>>

\* The dns thread frees what the last round has left, then reads the status.
dns_loop ==
  /\ pc["dns"] = "top"
  /\ Drop("dns")
  /\ Proceed("dns")
  /\ UNCHANGED <<tables, status, at, walk, steady, late>>

\* The web thread closes it afterwards, so that the last one stays open.
web_loop ==
  /\ pc["web"] = "top"
  /\ IF Online THEN Drop("web") ELSE UNCHANGED requests
  /\ Proceed("web")
  /\ UNCHANGED <<tables, status, at, walk, steady, late>>

PlainLoop(f) ==
  /\ pc[f] = "top"
  /\ Proceed(f)
  /\ UNCHANGED <<tables, status, at, requests, walk, steady, late>>

nss_loop == PlainLoop("nss")
cmd_remote_loop == PlainLoop("cmd")

\* main itself runs the console; a signal may end its select and its loop.
cmd_console_loop ==
  \/ PlainLoop("console")
  \/ /\ \/ pc["console"] = "start" /\ Goto("console", "top")
        \/ pc["console"] = "recv" /\ Goto("console", "exit")
     /\ UNCHANGED <<tables, status, at, requests, walk, steady, late>>

\* Nothing came for a second (SO_RCVTIMEO, select).
Timeout(f) ==
  /\ pc[f] = "recv"
  /\ Goto(f, "top")
  /\ UNCHANGED <<tables, status, at, requests, walk, steady, late>>

-----------------------------------------------------------------------------
(* Requests *)

TakeUp(f) == /\ pc[f] = "recv"
             /\ late' = IF Online THEN late ELSE [late EXCEPT ![f] = @ + 1]

\* A request that comes with the context c.
Obtain(f, c) == /\ c \notin open
                /\ own' = [own EXCEPT ![f] = c]
                /\ open' = open \cup ({c} \ {None})
                /\ UNCHANGED waiting

\* It is not understood, or names no host; what the thread has obtained stays
\* with it until the top of the loop.
Refuse(f, c) ==
  /\ TakeUp(f)
  /\ Obtain(f, c)
  /\ Goto(f, "top")
  /\ UNCHANGED <<tables, status, at, walk, steady>>

Look(f, place, h) == /\ Goto(f, place)
                     /\ at' = [at EXCEPT ![f] = [Idle EXCEPT !.host = h]]

Receive(f, c, h) ==
  /\ TakeUp(f)
  /\ Obtain(f, c)
  /\ Look(f, "ask", h)
  /\ UNCHANGED <<tables, status, walk, steady>>

Request(f, c) == Refuse(f, c) \/ \E h \in Host : Receive(f, c, h)

\* The task is allocated before the query is decoded.
dns_request == \E b \in Block : Request("dns", b)

\* The descriptor comes from accept.
web_request == \E d \in Descriptor : Request("web", d)

nss_request == Request("nss", None)

-----------------------------------------------------------------------------
(* Answers *)

Live(h) == now <= told[h].at + Life

\* db_address under the mutex.  Who does not find the host goes to "search",
\* but for the consoles.
Fetch(f) ==
  LET h == at[f].host
  IN  /\ pc[f] = "ask"
      /\ status # "freed"
      /\ IF h \in hash
         THEN /\ at' = [at EXCEPT ![f].held = {db_address(h)}]
              /\ steady' = IF Live(h) THEN steady \cup {f} ELSE steady
              /\ Goto(f, "answer")
         ELSE /\ UNCHANGED steady
              /\ IF f \in Console THEN Goto(f, "top") /\ IdleAgain(f)
                                  ELSE Goto(f, "search") /\ UNCHANGED at
      /\ UNCHANGED <<tables, status, requests, walk, late>>

\* What the client is sent: each half of the address as it was at some time
\* since the pointer was fetched, or whatever there is in freed memory.
Answers(f) == IF at[f].held = {} THEN (Addr \cup {None}) \X (Addr \cup {None})
                                 ELSE at[f].held \X at[f].held

\* The client is answered and the context freed.
Reply(f) ==
  /\ pc[f] = "answer"
  /\ Drop(f)
  /\ Goto(f, "top") /\ IdleAgain(f)
  /\ steady' = steady \ {f}
  /\ UNCHANGED <<tables, status, walk, late>>

\* lkp_put under the mutex
Search(f) ==
  /\ pc[f] = "search"
  /\ status # "freed"
  /\ waiting' = waiting \cup ({own[f]} \ {None})
  /\ Goto(f, "handed") /\ IdleAgain(f)
  /\ UNCHANGED <<tables, status, own, open, walk, steady, late>>

\* "task = NULL", "clientfd = 0": by now the callback may have been called.
Forget(f) ==
  /\ pc[f] = "handed"
  /\ own' = [own EXCEPT ![f] = None]
  /\ Goto(f, "top")
  /\ UNCHANGED <<tables, status, at, open, waiting, walk, steady, late>>

dns_lookup == Fetch("dns") \/ Search("dns") \/ Forget("dns")

\* Faulty: the web thread keeps the descriptor.
web_lookup_Keep ==
  \/ Fetch("web") \/ Search("web")
  \/ /\ pc["web"] = "handed"
     /\ Goto("web", "top")
     /\ UNCHANGED <<tables, status, at, requests, walk, steady, late>>

web_lookup == Fetch("web") \/ Search("web") \/ Forget("web")

\* Its lookups have no callback, and their results are lost.
nss_lookup == Fetch("nss") \/ Search("nss") \/ Forget("nss")

dns_reply == Reply("dns")
web_reply == Reply("web")
nss_reply == Reply("nss")

-----------------------------------------------------------------------------
(* The consoles *)

\* cmd_exec: "lookup" asks the database only, "search" starts a lookup, the
\* commands not named here touch nothing of this model.
Command(f) ==
  \/ Request(f, None)
  \/ \E h \in Host : /\ TakeUp(f)
                     /\ Look(f, "search", h)
                     /\ UNCHANGED <<tables, status, requests, walk, steady>>
  \/ Fetch(f) \/ Reply(f) \/ Search(f) \/ Forget(f)

cmd_shutdown(f) ==
  /\ TakeUp(f)
  /\ status # "freed"
  /\ status' = "shutdown"
  /\ Goto(f, "top")
  /\ UNCHANGED <<tables, at, requests, walk, steady>>

Items == {list[p] : p \in DOMAIN list}
Behind(h) == LET p == CHOOSE q \in DOMAIN list : list[q] = h
             IN  IF p = Len(list) THEN None ELSE list[p + 1]

\* cmd_print_database takes the first item of the list, without the mutex.
PrintFirst(f) ==
  /\ TakeUp(f)
  /\ status # "freed"
  /\ Goto(f, "walk")
  /\ walk' = [walk EXCEPT ![f] =
                [item |-> IF list = << >> THEN None ELSE Head(list),
                 printed |-> << >>, all |-> Items]]
  /\ UNCHANGED <<tables, status, at, requests, steady>>

\* It prints the item and goes on to the next.
PrintItem(f) ==
  /\ pc[f] = "walk"
  /\ status # "freed" /\ walk[f].item \in Host
  /\ walk' = [walk EXCEPT ![f].printed = Append(@, walk[f].item),
                         ![f].item = Behind(walk[f].item)]
  /\ UNCHANGED <<tables, status, pc, at, requests, steady, late>>

PrintEnd(f) ==
  /\ pc[f] = "walk" /\ walk[f].item = None
  /\ Goto(f, "top")
  /\ walk' = [walk EXCEPT ![f] = NoWalk]
  /\ UNCHANGED <<tables, status, at, requests, steady, late>>

cmd_print_database(f) == PrintFirst(f) \/ PrintItem(f) \/ PrintEnd(f)

\* What a thread does once it has used freed tables, or an item that has been
\* freed, is anybody's guess; it is not modelled further.
GetLost(f) ==
  /\ \/ pc[f] \in {"ask", "search"} /\ status = "freed"
     \/ pc[f] = "walk" /\ walk[f].item = Gone
     \/ pc[f] = "walk" /\ walk[f].item # None /\ status = "freed"
  /\ Goto(f, "lost") /\ IdleAgain(f)
  /\ walk' = [g \in Console |-> IF g = f THEN NoWalk ELSE walk[g]]
  /\ UNCHANGED <<tables, status, requests, steady, late>>

-----------------------------------------------------------------------------
(* Workers, clock and main *)

\* Faulty: a repeated announcement makes a new object and frees the old one.
Follow_Anew(h, a) ==
  /\ at' = [f \in Loop |-> IF at[f].host = h THEN [at[f] EXCEPT !.held = {}]
                                            ELSE at[f]]
  /\ steady' = {f \in steady : at[f].host = h => told[h].c_addr = a}

\* The object of host h has the new address a: through a pointer fetched before,
\* the old and the new one may be seen.
Follow(h, a) ==
  /\ at' = [f \in Loop |-> IF pc[f] = "answer" /\ at[f].host = h /\ at[f].held # {}
                           THEN [at[f] EXCEPT !.held = @ \cup {a}] ELSE at[f]]
  /\ steady' = {f \in steady : at[f].host = h => told[h].c_addr = a}

Announced(h, a) ==
  /\ status # "freed"
  /\ db_put(h, a)
  /\ Follow(h, a)
  /\ UNCHANGED <<status, pc, requests, walk, late>>

\* Pointers to the objects of the hosts hs, and to their items, dangle.
Free(hs) ==
  /\ at' = [f \in Loop |-> IF at[f].host \in hs THEN [at[f] EXCEPT !.held = {}]
                                                ELSE at[f]]
  /\ walk' = [f \in Console |-> [walk[f] EXCEPT !.all = @ \ hs,
                                              !.item = IF @ \in hs THEN Gone ELSE @]]

Expired ==
  /\ status # "freed"
  /\ db_expire
  /\ Free(hash \ hash')
  /\ UNCHANGED <<status, pc, requests, steady, late>>

Second ==
  /\ status # "freed"
  /\ Tick
  /\ steady' = {f \in steady : now < told[at[f].host].at + Life}
  /\ UNCHANGED <<status, pc, at, requests, walk, late>>

\* Faulty: without an address the client is left alone.
Callback_IfFound(c) ==
  /\ status # "freed"
  /\ c \in waiting
  /\ waiting' = waiting \ {c}
  /\ open' \in {open, open \ {c}}
  /\ UNCHANGED <<tables, status, pc, at, own, walk, steady, late>>

\* lkp_success and lkp_expire call dns_reply or web_reply, which free or close
\* the context with and without an address.
Callback(c) ==
  /\ status # "freed"
  /\ c \in waiting
  /\ waiting' = waiting \ {c}
  /\ open' = open \ {c}
  /\ UNCHANGED <<tables, status, pc, at, own, walk, steady, late>>

\* SIGINT or SIGALRM
Signal ==
  /\ Online
  /\ status' = "shutdown"
  /\ UNCHANGED <<tables, pc, at, requests, walk, steady, late>>

\* main has joined the workers, which have nothing in hand between two of the
\* steps above, and frees the tables without waiting for the other front ends.
MainFrees ==
  /\ status = "shutdown" /\ pc["console"] = "exit"
  /\ status' = "freed"
  /\ at' = [f \in Loop |-> [at[f] EXCEPT !.held = {}]]
  /\ steady' = {}
  /\ UNCHANGED <<tables, pc, requests, walk, late>>

-----------------------------------------------------------------------------
Dns == dns_socket \/ dns_loop \/ dns_request \/ dns_lookup \/ dns_reply
Web == web_socket \/ web_loop \/ web_request \/ web_lookup \/ web_reply
Nss == nss_socket \/ nss_loop \/ nss_request \/ nss_lookup \/ nss_reply
Cmd == \/ cmd_socket \/ cmd_remote_loop \/ cmd_console_loop
       \/ \E f \in Console : Command(f) \/ cmd_shutdown(f) \/ cmd_print_database(f)

Worker == \/ \E h \in Host, a \in Addr : Announced(h, a)
          \/ \E c \in Context : Callback(c)
          \/ Expired \/ Second

FrontNext == \/ Dns \/ Web \/ Nss \/ Cmd
             \/ \E f \in Loop : Timeout(f) \/ GetLost(f)
             \/ Worker \/ Signal \/ MainFrees

\* Threads run on: no call of a front end blocks for more than a second.  A
\* lookup ends, as module Lookup shows.
FrontFairness ==
  /\ WF_frontvars(Dns \/ Timeout("dns")) /\ WF_frontvars(Web \/ Timeout("web"))
  /\ \A c \in Context : WF_frontvars(Callback(c))

FrontSpec == FrontInit /\ [][FrontNext]_frontvars /\ FrontFairness

-----------------------------------------------------------------------------
\* While a host is announced again and again from one address, a client that
\* asks for it is sent this address, whole, though the pointer is used after
\* the mutex has been released: the object is neither freed nor written over
\* with something else in the meantime.  (If the host moves or falls silent,
\* it may be sent halves of two addresses, or what is in freed memory.)
LiveAnswersAreWhole ==
  \A f \in steady : pc[f] = "answer"
                    /\ Answers(f) = {<<told[at[f].host].c_addr, told[at[f].host].c_addr>>}

\* Each task and each descriptor has one owner, the loop or a lookup, that will
\* free or close it; so none is freed twice, by the loop and by the callback,
\* and none is used after that, when malloc or accept may have given it to
\* another client.
Holders(c) == {f \in Loop : own[f] = c /\ pc[f] # "handed"}
OneOwner ==
  \A c \in Context :
    IF c \in waiting THEN c \in open /\ Holders(c) = {}
                     ELSE Cardinality(Holders(c)) = IF c \in open THEN 1 ELSE 0

\* Every client is answered or given up in the end, and its context freed:
\* through a reply, an answer that comes later, a timeout, or the next round
\* of the loop.
ContextsAreFreed ==
  \A c \in Context : c \in open ~> (c \notin open \/ ~Online)

\* A front end that has read the status before a shutdown takes up one more
\* request at most: this is the one that may use tables main has freed.
LastRequest == \A f \in Loop : late[f] <= 1

\* "print_database", unless the item it is at is deleted: every host that is
\* in the database all the while is printed, and once.
WalkIsComplete ==
  \A f \in Console : pc[f] = "walk" /\ walk[f].item = None =>
    \A h \in walk[f].all :
      Cardinality({p \in DOMAIN walk[f].printed : walk[f].printed[p] = h}) = 1
=============================================================================
