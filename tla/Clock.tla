------------------------------- MODULE Clock -------------------------------
(***************************************************************************)
(* The clock masala works with, and the timer of its expiry pass.          *)
(*                                                                         *)
(* Deadlines are computed from p2p->time_now (time.c), which is read from  *)
(* the system only when a packet is parsed and when cron runs.  A thread   *)
(* of a front end that stores something uses the value it finds there.     *)
(***************************************************************************)
EXTENDS Naturals

CONSTANTS
  MaxLag,          \* seconds cron may be late: thread 0 waits CONF_EPOLL_WAIT
                   \* (2000 ms) for packets before it runs cron
  MinGap, MaxGap,  \* range of time_add_2_min_approx: 60 .. 179
  MaxClock         \* bound on the clock

ASSUME ClockAssumption ==
  /\ MaxLag \in Nat \ {0}
  /\ MinGap \in Nat /\ MaxGap \in Nat /\ MinGap <= MaxGap
  /\ MaxClock \in Nat

VARIABLES
  clock,       \* the system's clock, in seconds
  time_now,    \* p2p->time_now.tv_sec
  time_expire, \* p2p->time_expire: when the next expiry pass is due
  cron_at      \* when cron ran last

clocks == <<clock, time_now, time_expire, cron_at>>

\* p2p_init, at some time after the epoch.
ClockInit == clock = 1 /\ time_now = 1 /\ time_expire = 0 /\ cron_at = 1

Tick == /\ clock < MaxClock
        /\ clock < cron_at + MaxLag
        /\ clock' = clock + 1
        /\ UNCHANGED <<time_now, time_expire, cron_at>>

\* The first lines of p2p_parse, before the packet is looked at.
ReadClock == /\ time_now' = clock
             /\ UNCHANGED <<clock, time_expire, cron_at>>

\* p2p_cron: whether this run of cron is one that expires objects.
ExpiryIsDue == clock > time_expire

\* Faulty: cron does not read the clock.
Cron_NoClock ==
  /\ cron_at' = clock
  /\ \/ ExpiryIsDue /\ \E gap \in MinGap..MaxGap : time_expire' = clock + gap
     \/ ~ExpiryIsDue /\ UNCHANGED time_expire
  /\ UNCHANGED <<clock, time_now>>

\* p2p_cron's share in the clocks.
Cron ==
  /\ time_now' = clock
  /\ cron_at' = clock
  /\ \/ ExpiryIsDue /\ \E gap \in MinGap..MaxGap : time_expire' = clock + gap
     \/ ~ExpiryIsDue /\ UNCHANGED time_expire
  /\ UNCHANGED clock

ClockTypeOK == {clock, time_now, time_expire, cron_at} \subseteq Nat

\* What the other modules need to know of the clocks.  Until cron runs for the
\* first time time_expire is 0.
ClockInv ==
  /\ ClockTypeOK
  /\ 0 < cron_at /\ cron_at <= time_now /\ time_now <= clock
  /\ clock <= cron_at + MaxLag
  /\ time_expire = 0 => cron_at = 1
  /\ time_expire # 0 => cron_at <= time_expire
  /\ time_expire <= time_now + MaxGap
=============================================================================
