------------------------------ MODULE Resolver ------------------------------
(***************************************************************************)
(* What the front ends (DNS, web) rely on when they hand a request to the  *)
(* lookup: its callback is called, once, with an address or without one.   *)
(* Requests whose time is over are given up together, by one pass of cron. *)
(***************************************************************************)
CONSTANT Task   \* the requests of the front ends
VARIABLE state

Init == state = [t \in Task |-> "new"]

Move(ts, from, to) ==
  /\ \A t \in ts : state[t] \in from
  /\ state' = [t \in Task |-> IF t \in ts THEN to ELSE state[t]]

Ask(t)     == Move({t}, {"new"}, "waiting")
Find(t)    == Move({t}, {"new", "waiting"}, "found")
GiveUp(ts) == Move(ts, {"waiting"}, "timeout")

Next == \/ \E t \in Task : Ask(t) \/ Find(t)
        \/ \E ts \in SUBSET Task : GiveUp(ts)

\* A waiting request is answered.
Answer(t) == /\ state[t] = "waiting"
             /\ Find(t) \/ \E ts \in SUBSET Task : t \in ts /\ GiveUp(ts)

Fairness == \A t \in Task : WF_state(Answer(t))

Spec == Init /\ [][Next]_state /\ Fairness
=============================================================================
