-------------------------------- MODULE Udp --------------------------------
(***************************************************************************)
(* udp.c: the worker threads that wait for the one UDP socket, read its    *)
(* datagrams, hand them to p2p_parse and run the cron job; and the main    *)
(* thread that waits for them at the end.                                  *)
(*                                                                         *)
(* What a packet does to the tables is in modules P2p and Neighborhood;    *)
(* here it only matters which part of the way runs under the mutex.  epoll *)
(* and the socket are modelled as the code uses them: the socket is        *)
(* registered with EPOLLET | EPOLLIN | EPOLLONESHOT, so that it is         *)
(* reported to one thread and then not again until udp_rearm.              *)
(***************************************************************************)
EXTENDS Naturals, Sequences, FiniteSets

CONSTANTS Thread,     \* the workers: conf->cores of them
          Free,       \* nobody holds the mutex
          MaxPackets  \* bound: datagrams that arrive

ASSUME UdpAssumption ==
  IsFiniteSet(Thread) /\ Thread # {} /\ Free \notin Thread /\ MaxPackets \in Nat

VARIABLES
  status,   \* _main->status
  socket,   \* datagrams in the receive buffer
  arrived,  \* how many have arrived so far
  armed,    \* epoll watches the socket
  event,    \* epoll has an event to report
  pc, id,   \* each thread's place in the code, and its number
  next_id,  \* udp->id
  mutex,    \* p2p->mutex
  freed     \* main has freed the tables

threads == <<pc, id, next_id>>
epoll == <<armed, event>>
udpvars == <<status, socket, arrived, epoll, threads, mutex, freed>>

\* recvfrom tells zero bytes from more.
Datagram == {"empty", "packet"}

\* Places that need the mutex: there with the mutex or waiting for it.
Locked == {"number", "clock", "decode", "cron", "timed"}
Reading == {"recv", "clock", "put", "decode", "cron", "rearm"}
Place == Locked \cup Reading \cup {"wait", "exit"}
Online == status = "online"

UdpInit == /\ status = "online"
           /\ socket = << >> /\ arrived = 0
           /\ armed = TRUE /\ event = FALSE
           /\ pc = [t \in Thread |-> "number"] /\ id = [t \in Thread |-> 0]
           /\ next_id = 0
           /\ mutex = Free
           /\ freed = FALSE

Goto(t, place) == pc' = [pc EXCEPT ![t] = place]

-----------------------------------------------------------------------------
(* The world outside *)

Arrive(d) ==
  /\ arrived < MaxPackets
  /\ arrived' = arrived + 1
  /\ socket' = Append(socket, d)
  /\ event' = (event \/ armed)
  /\ UNCHANGED <<status, armed, threads, mutex, freed>>

\* SIGINT, SIGALRM, or the command "shutdown"
Shutdown == /\ Online
            /\ status' = "shutdown"
            /\ UNCHANGED <<socket, arrived, epoll, threads, mutex, freed>>

-----------------------------------------------------------------------------
(* The mutex *)

mutex_block(t) == /\ pc[t] \in Locked
                  /\ mutex = Free
                  /\ mutex' = t
                  /\ UNCHANGED <<status, socket, arrived, epoll, threads, freed>>

Unblock(t, place) == /\ mutex = t
                     /\ mutex' = Free
                     /\ Goto(t, place)

-----------------------------------------------------------------------------
(* A worker *)

\* Faulty: every thread gets a number but zero.
Number_FromOne(t) == /\ pc[t] = "number"
                   /\ Unblock(t, "wait")
                   /\ id' = [id EXCEPT ![t] = next_id + 1]
                   /\ next_id' = next_id + 1
                   /\ UNCHANGED <<status, socket, arrived, epoll, freed>>

\* udp_thread draws its number.
Number(t) == /\ pc[t] = "number"
             /\ Unblock(t, "wait")
             /\ id' = [id EXCEPT ![t] = next_id]
             /\ next_id' = next_id + 1
             /\ UNCHANGED <<status, socket, arrived, epoll, freed>>

\* Faulty: the socket stays armed.
Report_Level(t) ==
  /\ pc[t] = "wait"
  /\ event
  /\ event' = FALSE
  /\ Goto(t, IF Online THEN "recv" ELSE "exit")
  /\ UNCHANGED <<status, socket, arrived, armed, id, next_id, mutex, freed>>

\* epoll_wait reports the socket, once.
Report(t) ==
  /\ pc[t] = "wait"
  /\ event
  /\ event' = FALSE /\ armed' = FALSE
  /\ Goto(t, IF Online THEN "recv" ELSE "exit")
  /\ UNCHANGED <<status, socket, arrived, id, next_id, mutex, freed>>

\* Faulty: a thread that is idle does not notice the shutdown.
TimedWakeup_Idle(t) ==
  /\ pc[t] = "wait"
  /\ ~event
  /\ Online
  /\ id[t] = 0
  /\ Goto(t, "timed")
  /\ UNCHANGED <<status, socket, arrived, epoll, id, next_id, mutex, freed>>

\* Faulty: any thread that has waited for two seconds runs cron.
TimedWakeup_Anyone(t) ==
  /\ pc[t] = "wait"
  /\ ~event
  /\ IF Online THEN Goto(t, "timed") ELSE Goto(t, "exit")
  /\ UNCHANGED <<status, socket, arrived, epoll, id, next_id, mutex, freed>>

\* epoll_wait returns after two seconds without event: thread 0 runs cron.
TimedWakeup(t) ==
  /\ pc[t] = "wait"
  /\ ~event
  /\ IF Online THEN id[t] = 0 /\ Goto(t, "timed") ELSE Goto(t, "exit")
  /\ UNCHANGED <<status, socket, arrived, epoll, id, next_id, mutex, freed>>

TimedCron(t) == /\ pc[t] = "timed"
                /\ Unblock(t, "wait")
                /\ UNCHANGED <<status, socket, arrived, epoll, id, next_id, freed>>

\* Faulty: a datagram of zero bytes ends the worker's turn without udp_rearm.
udp_input_Gone(t) ==
  /\ pc[t] = "recv"
  /\ IF Online /\ socket # << >>
     THEN /\ socket' = Tail(socket)
          /\ Goto(t, IF Head(socket) = "empty" THEN "wait" ELSE "clock")
     ELSE Goto(t, "rearm") /\ UNCHANGED socket
  /\ UNCHANGED <<status, arrived, epoll, id, next_id, mutex, freed>>

\* udp_input reads datagrams until there are none (EAGAIN), or one of zero
\* bytes, or a shutdown.
udp_input(t) ==
  /\ pc[t] = "recv"
  /\ IF Online /\ socket # << >>
     THEN /\ socket' = Tail(socket)
          /\ Goto(t, IF Head(socket) = "empty" THEN "rearm" ELSE "clock")
     ELSE Goto(t, "rearm") /\ UNCHANGED socket
  /\ UNCHANGED <<status, arrived, epoll, id, next_id, mutex, freed>>

\* p2p_parse reads the clock; broken bencode goes no further.
ReadClock(t) == /\ pc[t] = "clock"
                /\ \E place \in {"put", "cron"} : Unblock(t, place)
                /\ UNCHANGED <<status, socket, arrived, epoll, id, next_id, freed>>

\* p2p_decode calls nbhd_put before it takes the mutex; a packet without query
\* goes no further.
nbhd_put(t) == /\ pc[t] = "put"
               /\ \E place \in {"decode", "cron"} : Goto(t, place)
               /\ UNCHANGED <<status, socket, arrived, epoll, id, next_id, mutex, freed>>

Handle(t) == /\ pc[t] = "decode"
             /\ Unblock(t, "cron")
             /\ UNCHANGED <<status, socket, arrived, epoll, id, next_id, freed>>

\* udp_cron after each datagram
udp_cron(t) == /\ pc[t] = "cron"
               /\ Unblock(t, "recv")
               /\ UNCHANGED <<status, socket, arrived, epoll, id, next_id, freed>>

\* EPOLL_CTL_MOD reports what has come in the meantime.
udp_rearm(t) == /\ pc[t] = "rearm"
                /\ armed' = TRUE
                /\ event' = (socket # << >>)
                /\ Goto(t, "wait")
                /\ UNCHANGED <<status, socket, arrived, id, next_id, mutex, freed>>

-----------------------------------------------------------------------------
(* The main thread *)

Exited(t) == pc[t] = "exit"

\* udp_stop joins every worker, then main frees the tables.
udp_stop == /\ ~freed
            /\ \A t \in Thread : Exited(t)
            /\ freed' = TRUE
            /\ UNCHANGED <<status, socket, arrived, epoll, threads, mutex>>

-----------------------------------------------------------------------------
Step(t) == \/ Number(t) \/ Report(t) \/ TimedWakeup(t) \/ TimedCron(t)
           \/ udp_input(t) \/ ReadClock(t) \/ nbhd_put(t) \/ Handle(t)
           \/ udp_cron(t) \/ udp_rearm(t)

UdpNext == \/ \E d \in Datagram : Arrive(d)
           \/ Shutdown
           \/ \E t \in Thread : mutex_block(t) \/ Step(t)
           \/ udp_stop

\* Threads run on.  A thread that waits for the mutex gets it in the end: the
\* others hold it for short times, and thread 0 waits for two seconds between
\* one timed cron and the next.
Fairness == /\ \A t \in Thread : WF_udpvars(Step(t)) /\ SF_udpvars(mutex_block(t))
            /\ WF_udpvars(udp_stop)

UdpSpec == UdpInit /\ [][UdpNext]_udpvars /\ Fairness

-----------------------------------------------------------------------------
UdpTypeOK ==
  /\ status \in {"online", "shutdown"}
  /\ socket \in Seq(Datagram) /\ arrived \in 0..MaxPackets
  /\ armed \in BOOLEAN /\ event \in BOOLEAN /\ freed \in BOOLEAN
  /\ pc \in [Thread -> Place] /\ id \in [Thread -> Nat] /\ next_id \in Nat
  /\ mutex \in Thread \cup {Free}

\* One thread at a time reads and handles datagrams, from recvfrom to
\* udp_rearm.  This, and not the mutex, is what keeps the nbhd_put of one
\* datagram, made without the mutex, apart from the handler of another one.
OneReader ==
  \A t, u \in Thread : pc[t] \in Reading /\ pc[u] \in Reading => t = u

\* While one worker is in the nbhd_put that runs without the mutex, the buckets
\* may change under its hands through the timed cron of thread 0 only: no other
\* worker that has the mutex then is at a packet or at a cron of its own.
PutMeetsTimedCronOnly ==
  \A t, u \in Thread : pc[t] = "put" /\ mutex = u =>
    t # u /\ (pc[u] = "number" \/ (pc[u] = "timed" /\ id[u] = 0))

\* The tables are freed when no worker is left that might use them.
FreedLast == freed => \A t \in Thread : Exited(t)

\* No datagram is left lying: neither one that comes between the last recvfrom
\* and udp_rearm, nor one behind a datagram of zero bytes.
SocketIsRead == (Online /\ socket # << >>) ~> (~Online \/ socket = << >>)

\* The expiry, the pings and the announcements go on, with or without traffic.
CronGoesOn ==
  Online ~> (~Online \/ \E t \in Thread : mutex = t /\ pc[t] \in {"cron", "timed"})

\* A shutdown ends in main's freeing the tables, wherever the workers are.
ShutdownEnds == ~Online ~> freed
=============================================================================
