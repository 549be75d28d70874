---------------------------- MODULE LookupProofs ----------------------------
(***************************************************************************)
(* What module Lookup promises, for any number of requests, lookups and    *)
(* nodes, any timing and any bounds.                                       *)
(***************************************************************************)
EXTENDS Lookup, TLAPS

(* The clocks.                                                            *)

\* The clocks start as p2p_init leaves them.
LEMMA ClockInitially == ClockInit => ClockInv
  BY ClockAssumption DEF ClockInit, ClockInv, ClockTypeOK

\* Time passes and packets read it without disturbing the invariant.
LEMMA ClockPasses ==
  ASSUME ClockInv, Tick \/ ReadClock \/ UNCHANGED clocks
  PROVE  ClockInv'
<1> USE ClockAssumption DEF ClockInv, ClockTypeOK
<1>1. CASE Tick
  BY <1>1 DEF Tick
<1>2. CASE ReadClock
  BY <1>2 DEF ReadClock
<1>3. CASE UNCHANGED clocks
  BY <1>3 DEF clocks
<1> QED BY <1>1, <1>2, <1>3

\* So does a run of cron, with or without an expiry pass; a pass puts the next
\* one at most MaxGap seconds ahead.
LEMMA ClockCron ==
  ASSUME ClockInv, Cron
  PROVE  /\ ClockInv'
         /\ clock' = clock
         /\ ExpiryIsDue => time_expire' \in clock .. clock + MaxGap
         /\ ~ExpiryIsDue => time_expire' = time_expire
<1> USE ClockAssumption DEF ClockInv, ClockTypeOK, Cron, ExpiryIsDue
<1>1. CASE ExpiryIsDue
  <2>1. PICK gap \in MinGap..MaxGap : time_expire' = clock + gap
    BY <1>1
  <2>2. gap \in Nat /\ gap <= MaxGap
    BY <2>1
  <2> QED BY <1>1, <2>1, <2>2
<1>2. CASE ~ExpiryIsDue
  BY <1>2
<1> QED BY <1>1, <1>2

\* A lookup under way: its callback is still to be called, what it has sent it
\* remembers, and its deadline comes from a clock that is MaxLag behind at
\* most, with an expiry pass at most MaxGap after it.
LiveLookup(l) ==
  /\ l \in DOMAIN born
  /\ lkp[l].ctx \in Task => calls[lkp[l].ctx] = << >>
  /\ \A n \in Node : sent[l][n] > 0 => n \in lkp[l].asked
  /\ 0 < born[l] /\ born[l] <= clock
  /\ lkp[l].time_find <= born[l] + Patience
  /\ born[l] + Patience <= lkp[l].time_find + MaxLag
  /\ time_expire <= lkp[l].time_find + MaxGap

\* No two lookups under way are for the same request.
OwnContext ==
  \A k, l \in hash : lkp[k].ctx = lkp[l].ctx /\ lkp[k].ctx \in Task => k = l

\* Nothing has been sent under an id that was not drawn yet.
NothingSentBefore ==
  \A l \in LkpId \ DOMAIN born : \A n \in Node : sent[l][n] = 0

IInv ==
  /\ TypeOK /\ ClockInv /\ Agreement
  /\ \A l \in hash : LiveLookup(l)
  /\ OwnContext /\ NothingSentBefore
  /\ CallbackOnce /\ AskOnce

-----------------------------------------------------------------------------
(* What the operators of Lookup do to the histories.                        *)

\* A callback adds one call to each task concerned and leaves the others.
LEMMA CalledOnce ==
  ASSUME calls \in [Task -> Seq(Answer)], NEW ts, NEW answer \in Answer,
         calls' = Called(ts, answer)
  PROVE  /\ calls' \in [Task -> Seq(Answer)]
         /\ \A t \in Task \ ts : calls'[t] = calls[t]
         /\ \A t \in Task \cap ts : calls[t] = << >> => calls'[t] = <<answer>>
<1>1. \A s \in Seq(Answer) : Append(s, answer) \in Seq(Answer)
  OBVIOUS
<1>2. Append(<< >>, answer) = <<answer>>
  OBVIOUS
<1>3. \A t \in Task : calls'[t] = IF t \in ts THEN Append(calls[t], answer) ELSE calls[t]
  BY DEF Called
<1>4. calls' \in [Task -> Seq(Answer)]
  BY <1>1 DEF Called
<1> QED BY <1>2, <1>3, <1>4

\* Sending to a set of nodes counts one message for each of them.
LEMMA SentOnce ==
  ASSUME sent \in [LkpId -> [Node -> Nat]], NEW l \in LkpId, NEW ns,
         sent' = SentTo(l, ns)
  PROVE  /\ sent' \in [LkpId -> [Node -> Nat]]
         /\ \A k \in LkpId : k # l => sent'[k] = sent[k]
         /\ \A n \in Node : n \notin ns => sent'[l][n] = sent[l][n]
         /\ \A n \in Node : n \in ns => sent'[l][n] = sent[l][n] + 1
  BY DEF SentTo

LEMMA IInvInitially == Init => IInv
<1> SUFFICES ASSUME Init PROVE IInv
  OBVIOUS
<1>1. ClockInv
  BY ClockInitially DEF Init
<1>2. TypeOK /\ Agreement
  BY <1>1 DEF Init, TypeOK, ClockInv, Agreement, InStep, Nothing
<1>3. OwnContext /\ NothingSentBefore /\ CallbackOnce /\ AskOnce
  BY LookupAssumption
  DEF Init, OwnContext, NothingSentBefore, CallbackOnce, AskOnce, Waiting
<1> QED BY <1>1, <1>2, <1>3 DEF IInv, Init

-----------------------------------------------------------------------------
LEMMA AnswerKeepsIInv ==
  ASSUME IInv, NEW t \in Task, AnswerFromDatabase(t)
  PROVE  IInv'
<1> USE LookupAssumption
<1>1. /\ UNCHANGED <<clock, time_now, time_expire, cron_at, list, hash, lkp, sent, born>>
      /\ calls' = Called({t}, "found") /\ t \notin Waiting /\ calls[t] = << >>
  BY DEF AnswerFromDatabase, clocks, tables, New
<1>2. /\ calls' \in [Task -> Seq(Answer)] /\ calls'[t] = <<"found">>
      /\ \A u \in Task \ {t} : calls'[u] = calls[u]
  BY <1>1, CalledOnce DEF IInv, TypeOK, Answer
<1>3. TypeOK' /\ ClockInv' /\ Agreement' /\ OwnContext' /\ NothingSentBefore' /\ AskOnce'
  BY <1>1, <1>2
  DEF IInv, TypeOK, ClockInv, ClockTypeOK, Agreement, InStep, OwnContext,
      NothingSentBefore, AskOnce
<1>4. \A l \in hash' : LiveLookup(l)'
  BY <1>1, <1>2 DEF IInv, LiveLookup, Waiting
<1>5. CallbackOnce'
  <2>1. Len(calls'[t]) <= 1
    BY <1>2
  <2> QED BY <1>1, <1>2, <2>1 DEF IInv, CallbackOnce, Waiting
<1> QED BY <1>3, <1>4, <1>5 DEF IInv

\* A new lookup, for a new request or for no request at all.
LEMMA PutKeepsIInv ==
  ASSUME IInv, NEW ctx, NEW l \in LkpId, NEW ns \in SUBSET Others,
         ctx = NoTask \/ (ctx \in Task /\ New(ctx)),
         lkp_put(ctx, l, ns)
  PROVE  IInv'
<1> USE ClockAssumption, LookupAssumption
<1> DEFINE new == [ctx |-> ctx, asked |-> ns, time_find |-> time_now + Patience]
<1>1. /\ UNCHANGED <<clock, time_now, time_expire, cron_at, calls>>
      /\ l \notin DOMAIN born /\ l \notin hash
      /\ list' = list \cup {l} /\ hash' = hash \cup {l}
      /\ lkp' = With(lkp, l, new) /\ born' = With(born, l, clock)
      /\ sent' = SentTo(l, ns)
  BY DEF lkp_put, clocks, IInv, LiveLookup
<1>2. ClockInv /\ ClockInv' /\ ClockTypeOK /\ ClockTypeOK'
  BY <1>1, ClockPasses DEF IInv, ClockInv, clocks
<1>3. /\ sent' \in [LkpId -> [Node -> Nat]]
      /\ \A k \in LkpId : k # l => sent'[k] = sent[k]
      /\ \A n \in Node : n \notin ns => sent'[l][n] = sent[l][n]
      /\ \A n \in Node : n \in ns => sent'[l][n] = sent[l][n] + 1
      /\ \A n \in Node : sent[l][n] = 0
      /\ Me \notin ns
  BY <1>1, SentOnce DEF IInv, TypeOK, NothingSentBefore, Others
<1>4. new \in [ctx : Task \cup {NoTask}, asked : SUBSET Node, time_find : Nat]
  BY <1>2 DEF ClockTypeOK, Others
<1>5. /\ lkp'[l] = new /\ born'[l] = clock
      /\ \A k \in hash : k # l /\ lkp'[k] = lkp[k]
      /\ \A k \in DOMAIN born : k # l /\ born'[k] = born[k]
      /\ DOMAIN born' = DOMAIN born \cup {l}
  BY <1>1 DEF With, IInv, Agreement, InStep
<1>6. TypeOK'
  BY <1>1, <1>2, <1>3, <1>4 DEF IInv, TypeOK, With, ClockTypeOK
<1>7. Agreement'
  BY <1>1 DEF IInv, Agreement, InStep, With
<1>8. \A k \in hash' : LiveLookup(k)'
  <2> TAKE k \in hash'
  <2>1. CASE k = l
    <3>1. lkp'[l].ctx \in Task => calls'[lkp'[l].ctx] = << >>
      BY <1>1, <1>5 DEF New
    <3>2. \A n \in Node : sent'[l][n] > 0 => n \in lkp'[l].asked
      BY <1>3, <1>5
    <3>3. /\ 0 < born'[l] /\ born'[l] <= clock'
          /\ lkp'[l].time_find <= born'[l] + Patience
          /\ born'[l] + Patience <= lkp'[l].time_find + MaxLag
          /\ time_expire' <= lkp'[l].time_find + MaxGap
      BY <1>1, <1>2, <1>5 DEF ClockInv, ClockTypeOK
    <3> QED BY <1>5, <2>1, <3>1, <3>2, <3>3 DEF LiveLookup
  <2>2. CASE k # l
    <3>1. k \in hash /\ LiveLookup(k) /\ k \in LkpId
      BY <1>1, <2>2 DEF IInv, TypeOK
    <3> QED BY <1>1, <1>3, <1>5, <2>2, <3>1 DEF LiveLookup
  <2> QED BY <2>1, <2>2
<1>9. OwnContext'
  BY <1>1, <1>5 DEF IInv, OwnContext, New, Waiting
<1>10. NothingSentBefore' /\ AskOnce'
  <2>1. NothingSentBefore'
    BY <1>3, <1>5 DEF IInv, NothingSentBefore
  <2>2. sent'[l][Me] = 0 /\ \A n \in Node : sent'[l][n] <= 1
    BY <1>3
  <2>3. AskOnce'
    BY <1>3, <2>2 DEF IInv, AskOnce
  <2> QED BY <2>1, <2>3
<1>11. CallbackOnce'
  BY <1>1, <1>5 DEF IInv, CallbackOnce, Waiting, New
<1> QED BY <1>2, <1>6, <1>7, <1>8, <1>9, <1>10, <1>11 DEF IInv

LEMMA ResolveKeepsIInv ==
  ASSUME IInv, NEW l \in LkpId, NEW ns \in SUBSET Node, lkp_resolve(l, ns)
  PROVE  IInv'
<1> USE LookupAssumption
<1> DEFINE asking == ns \ (lkp[l].asked \cup {Me})
<1>1. /\ UNCHANGED <<clock, time_now, time_expire, cron_at, list, hash, calls, born>>
      /\ l \in hash /\ LiveLookup(l)
      /\ lkp' = [lkp EXCEPT ![l].asked = @ \cup ns]
      /\ sent' = SentTo(l, asking)
  BY DEF lkp_resolve, clocks, IInv
<1>2. /\ sent' \in [LkpId -> [Node -> Nat]]
      /\ \A k \in LkpId : k # l => sent'[k] = sent[k]
      /\ \A n \in Node : n \notin asking => sent'[l][n] = sent[l][n]
      /\ \A n \in Node : n \in asking => sent'[l][n] = sent[l][n] + 1
  BY <1>1, SentOnce DEF IInv, TypeOK
<1>3. \A n \in asking : n \in Node /\ sent[l][n] = 0 /\ n # Me
  BY <1>1 DEF LiveLookup, IInv, TypeOK
<1>4. lkp[l] \in [ctx : Task \cup {NoTask}, asked : SUBSET Node, time_find : Nat]
  BY <1>1 DEF IInv, TypeOK, Agreement, InStep
<1>5. /\ DOMAIN lkp' = DOMAIN lkp
      /\ lkp'[l] = [lkp[l] EXCEPT !.asked = @ \cup ns]
      /\ \A k \in DOMAIN lkp : k # l => lkp'[k] = lkp[k]
      /\ \A k \in DOMAIN lkp : lkp'[k].ctx = lkp[k].ctx /\ lkp'[k].time_find = lkp[k].time_find
      /\ lkp'[l].asked = lkp[l].asked \cup ns
  BY <1>1, <1>4 DEF IInv, Agreement, InStep, TypeOK
<1>6. TypeOK'
  <2>1. lkp' \in [DOMAIN lkp' -> [ctx : Task \cup {NoTask}, asked : SUBSET Node,
                                  time_find : Nat]]
    BY <1>1, <1>4, <1>5 DEF IInv, TypeOK
  <2> QED BY <1>1, <1>2, <2>1 DEF IInv, TypeOK, ClockTypeOK
<1>7. ClockInv' /\ Agreement'
  BY <1>1, <1>5 DEF IInv, ClockInv, ClockTypeOK, Agreement, InStep
<1>8. \A k \in hash' : LiveLookup(k)'
  <2> TAKE k \in hash'
  <2>1. LiveLookup(k) /\ k \in DOMAIN lkp /\ k \in LkpId
    BY <1>1 DEF IInv, Agreement, InStep, TypeOK
  <2>2. CASE k = l
    BY <1>1, <1>2, <1>5, <2>1, <2>2 DEF LiveLookup
  <2>3. CASE k # l
    BY <1>1, <1>2, <1>5, <2>1, <2>3 DEF LiveLookup
  <2> QED BY <2>2, <2>3
<1>9. OwnContext' /\ CallbackOnce'
  BY <1>1, <1>5 DEF IInv, OwnContext, CallbackOnce, Waiting, Agreement, InStep
<1>10. NothingSentBefore' /\ AskOnce'
  <2>1. NothingSentBefore'
    <3>1. l \in DOMAIN born /\ born' = born
      BY <1>1 DEF LiveLookup
    <3>2. \A k \in LkpId \ DOMAIN born : sent'[k] = sent[k]
      BY <1>2, <3>1
    <3> QED BY <3>1, <3>2 DEF IInv, NothingSentBefore
  <2>2. sent'[l][Me] = 0 /\ \A n \in Node : sent'[l][n] <= 1
    BY <1>2, <1>3 DEF IInv, AskOnce
  <2>3. AskOnce'
    BY <1>2, <2>2 DEF IInv, AskOnce
  <2> QED BY <2>1, <2>3
<1> QED BY <1>6, <1>7, <1>8, <1>9, <1>10 DEF IInv

-----------------------------------------------------------------------------
\* Common to both ends of a lookup: some of those under way are deleted and
\* the callbacks of just these are called.
LEMMA EndKeepsIInv ==
  ASSUME IInv, NEW ls \in SUBSET hash, NEW answer \in Answer,
         lkp_del(ls), calls' = Called({lkp[l].ctx : l \in ls}, answer),
         UNCHANGED <<sent, born>>, ClockInv', clock' = clock,
         \A l \in hash \ ls : time_expire' <= lkp[l].time_find + MaxGap
  PROVE  IInv'
<1> USE LookupAssumption
<1> DEFINE ts == {lkp[l].ctx : l \in ls}
<1>1. /\ hash' = hash \ ls /\ list' = hash' /\ DOMAIN lkp' = hash'
      /\ \A l \in hash' : lkp'[l] = lkp[l]
  BY DEF lkp_del, Without, IInv, Agreement, InStep
<1>2. /\ calls' \in [Task -> Seq(Answer)]
      /\ \A t \in Task \ ts : calls'[t] = calls[t]
      /\ \A t \in Task \cap ts : calls[t] = << >> => calls'[t] = <<answer>>
  BY CalledOnce DEF IInv, TypeOK
<1>3. \A t \in Task \cap ts : calls'[t] = <<answer>>
  BY <1>2 DEF IInv, LiveLookup
<1>4. \A l \in hash' : lkp[l].ctx \in Task => lkp[l].ctx \notin ts
  BY <1>1 DEF IInv, OwnContext
<1>5. TypeOK'
  BY <1>1, <1>2 DEF IInv, TypeOK, lkp_del, Without, ClockInv, Agreement, InStep
<1>6. Agreement' /\ OwnContext' /\ NothingSentBefore' /\ AskOnce'
  BY <1>1 DEF IInv, Agreement, InStep, OwnContext, NothingSentBefore, AskOnce
<1>7. \A l \in hash' : LiveLookup(l)'
  BY <1>1, <1>2, <1>4 DEF IInv, LiveLookup
<1>8. CallbackOnce'
  <2>1. \A t \in Task : Len(calls'[t]) <= 1
    <3> SUFFICES ASSUME NEW t \in Task PROVE Len(calls'[t]) <= 1
      OBVIOUS
    <3>1. CASE t \in ts
      <4>1. calls'[t] = <<answer>>
        BY <1>3, <3>1
      <4>2. Len(<<answer>>) = 1
        OBVIOUS
      <4>3. Len(calls'[t]) = 1
        BY <4>1, <4>2, Zenon
      <4>4. 1 <= 1
        OBVIOUS
      <4> QED BY <4>3, <4>4, Zenon
    <3>2. CASE t \notin ts
      BY <1>2, <3>2 DEF IInv, CallbackOnce
    <3> QED BY <3>1, <3>2
  <2>2. \A t \in Waiting' \cap Task : calls'[t] = << >>
    BY <1>1, <1>2, <1>4 DEF IInv, CallbackOnce, Waiting
  <2> QED BY <2>1, <2>2 DEF CallbackOnce
<1> QED BY <1>5, <1>6, <1>7, <1>8 DEF IInv

LEMMA SuccessKeepsIInv ==
  ASSUME IInv, NEW l \in LkpId, lkp_success(l)
  PROVE  IInv'
<1>1. /\ l \in hash /\ lkp_del({l}) /\ UNCHANGED <<sent, born>>
      /\ UNCHANGED <<clock, time_now, time_expire, cron_at>>
      /\ calls' = Called({lkp[k].ctx : k \in {l}}, "found")
  BY DEF lkp_success, clocks
<1>2. ClockInv'
  BY <1>1 DEF IInv, ClockInv, ClockTypeOK
<1> QED BY <1>1, <1>2, EndKeepsIInv DEF IInv, LiveLookup, Answer

LEMMA ExpireKeepsIInv ==
  ASSUME IInv, lkp_expire
  PROVE  IInv'
<1> USE ClockAssumption, LookupAssumption
<1>1. /\ ClockInv' /\ ClockTypeOK' /\ clock' = clock
      /\ ExpiryIsDue => time_expire' \in clock .. clock + MaxGap
      /\ ~ExpiryIsDue => time_expire' = time_expire
      /\ ClockInv /\ ClockTypeOK
  BY ClockCron DEF IInv, lkp_expire, ClockInv
<1>2. CASE ExpiryIsDue
  <2>1. /\ lkp_del(Overdue) /\ UNCHANGED <<sent, born>>
        /\ calls' = Called({lkp[l].ctx : l \in Overdue}, "timeout")
        /\ Overdue \in SUBSET hash
    BY <1>2 DEF lkp_expire, Overdue, IInv, Agreement, InStep
  <2>2. \A l \in hash \ Overdue : time_expire' <= lkp[l].time_find + MaxGap
    <3> TAKE l \in hash \ Overdue
    <3>1. lkp[l].time_find \in Nat /\ ~(clock > lkp[l].time_find)
      BY DEF IInv, TypeOK, Agreement, InStep, Overdue
    <3> QED BY <1>1, <1>2, <3>1 DEF ClockTypeOK
  <2> QED BY <1>1, <2>1, <2>2, EndKeepsIInv DEF Answer
<1>3. CASE ~ExpiryIsDue
  <2>1. UNCHANGED <<calls, list, hash, lkp, sent, born>>
    BY <1>3 DEF lkp_expire, tables
  <2> QED
    BY <1>1, <1>3, <2>1
    DEF IInv, TypeOK, Agreement, InStep, LiveLookup, OwnContext, NothingSentBefore,
        CallbackOnce, AskOnce, Waiting
<1> QED BY <1>2, <1>3

LEMMA PassKeepsIInv ==
  ASSUME IInv, Pass \/ UNCHANGED vars
  PROVE  IInv'
<1>1. /\ UNCHANGED <<list, hash, lkp, calls, sent, born>>
      /\ Tick \/ ReadClock \/ UNCHANGED clocks
  BY DEF Pass, vars, tables, history
<1>2. ClockInv' /\ ClockTypeOK' /\ ClockInv /\ ClockTypeOK
  BY <1>1, ClockPasses DEF IInv, ClockInv
<1>3. clock' >= clock /\ time_expire' = time_expire /\ clock \in Nat /\ clock' \in Nat
  BY <1>1, <1>2 DEF Tick, ReadClock, clocks, ClockTypeOK
<1>4. \A l \in hash' : LiveLookup(l)'
  <2> TAKE l \in hash'
  <2>1. LiveLookup(l) /\ born[l] \in Nat
    BY <1>1 DEF IInv, LiveLookup, TypeOK
  <2> QED BY <1>1, <1>3, <2>1 DEF LiveLookup
<1> QED
  BY <1>1, <1>2, <1>4
  DEF IInv, TypeOK, Agreement, InStep, OwnContext, NothingSentBefore,
      CallbackOnce, AskOnce, Waiting

LEMMA IInvInductive == Spec => []IInv
<1>1. IInv /\ [Next]_vars => IInv'
  <2> SUFFICES ASSUME IInv, [Next]_vars PROVE IInv'
    OBVIOUS
  <2>1. ASSUME NEW t \in Task, AnswerFromDatabase(t) PROVE IInv'
    BY <2>1, AnswerKeepsIInv
  <2>2. ASSUME NEW t \in Task, NEW l \in LkpId, Ask(t, l) PROVE IInv'
    BY <2>2, PutKeepsIInv DEF Ask, FirstNodes
  <2>3. ASSUME NEW l \in LkpId, AskSilently(l) PROVE IInv'
    BY <2>3, PutKeepsIInv DEF AskSilently, FirstNodes
  <2>4. ASSUME NEW l \in LkpId, lkp_success(l) PROVE IInv'
    BY <2>4, SuccessKeepsIInv
  <2>5. ASSUME NEW l \in LkpId, NEW ns \in SUBSET Node, lkp_resolve(l, ns) PROVE IInv'
    BY <2>5, ResolveKeepsIInv
  <2>6. CASE lkp_expire
    BY <2>6, ExpireKeepsIInv
  <2>7. CASE Pass \/ UNCHANGED vars
    BY <2>7, PassKeepsIInv
  <2> QED BY <2>1, <2>2, <2>3, <2>4, <2>5, <2>6, <2>7 DEF Next
<1> QED BY IInvInitially, <1>1, PTL DEF Spec

-----------------------------------------------------------------------------
\* The state of the lookups is always well formed.
THEOREM LookupTypeCorrect == Spec => []TypeOK
<1>1. IInv => TypeOK  BY DEF IInv
<1> QED BY <1>1, IInvInductive, PTL

\* lkp_put, lkp_del and lkp_expire keep list, hash and lookups in step.
THEOREM LookupAgreement == Spec => []Agreement
<1>1. IInv => Agreement  BY DEF IInv
<1> QED BY <1>1, IInvInductive, PTL

\* The callback of a request, which frees its context, is never called twice
\* (lkp_success, lkp_expire).
THEOREM LookupCallbackOnce == Spec => []CallbackOnce
<1>1. IInv => CallbackOnce  BY DEF IInv
<1> QED BY <1>1, IInvInductive, PTL

\* No node is asked twice by one lookup, and the own node never (lkp_resolve).
THEOREM LookupAskOnce == Spec => []AskOnce
<1>1. IInv => AskOnce  BY DEF IInv
<1> QED BY <1>1, IInvInductive, PTL

\* The times of a lookup, in numbers.
LEMMA LookupTimes ==
  ASSUME IInv, NEW l \in hash
  PROVE  /\ {clock, cron_at, time_expire, born[l], lkp[l].time_find} \subseteq Nat
         /\ clock <= cron_at + MaxLag
         /\ time_expire # 0 => cron_at <= time_expire
         /\ time_expire = 0 => cron_at = 1
         /\ born[l] > 0
         /\ lkp[l].time_find <= born[l] + Patience
         /\ born[l] + Patience <= lkp[l].time_find + MaxLag
         /\ time_expire <= lkp[l].time_find + MaxGap
<1>1. LiveLookup(l) /\ ClockInv
  BY DEF IInv
<1>2. {clock, cron_at, time_expire} \subseteq Nat
  BY <1>1 DEF ClockInv, ClockTypeOK
<1>3. l \in DOMAIN lkp /\ l \in DOMAIN born
  BY <1>1 DEF IInv, LiveLookup, Agreement, InStep
<1>4. born[l] \in Nat /\ lkp[l].time_find \in Nat
  BY <1>3 DEF IInv, TypeOK
<1>5. clock <= cron_at + MaxLag
      /\ (time_expire # 0 => cron_at <= time_expire) /\ (time_expire = 0 => cron_at = 1)
  BY <1>1 DEF ClockInv
<1>6. /\ lkp[l].time_find <= born[l] + Patience
      /\ born[l] + Patience <= lkp[l].time_find + MaxLag
      /\ time_expire <= lkp[l].time_find + MaxGap
  BY <1>1 DEF LiveLookup
<1>7. born[l] > 0
  BY <1>1, <1>4 DEF LiveLookup
<1> QED BY <1>2, <1>4, <1>5, <1>6, <1>7

\* A lookup is over after a bounded time (lkp_expire, run by cron).
THEOREM LookupTimely == Spec => []Timely
<1>1. IInv => Timely
  <2> SUFFICES ASSUME IInv, NEW l \in hash
               PROVE  clock <= born[l] + Patience + MaxGap + MaxLag
    BY DEF Timely
  <2> QED BY LookupTimes, ClockAssumption, LookupAssumption
<1> QED BY <1>1, IInvInductive, PTL

-----------------------------------------------------------------------------
(* What a step may do to the histories of the callbacks.                    *)

\* Only the expiry pass reports a timeout, and only of a lookup whose time, as
\* the clock of its beginning counts it, is over.
THEOREM LookupNoEarlyTimeout == Spec => NoEarlyTimeout
<1>1. IInv /\ [Next]_vars =>
        [\A t \in Task : TimedOut(t) =>
           \A l \in hash : lkp[l].ctx = t => clock + MaxLag > born[l] + Patience]_vars
  <2> SUFFICES ASSUME IInv, [Next]_vars, NEW t \in Task, TimedOut(t),
                      NEW l \in hash, lkp[l].ctx = t
               PROVE  clock + MaxLag > born[l] + Patience
    OBVIOUS
  <2>1. calls[t] = << >> /\ calls'[t] # calls[t] /\ calls'[t][Len(calls'[t])] = "timeout"
    BY DEF IInv, LiveLookup, TimedOut
  <2>2. ASSUME NEW ts, calls' = Called(ts, "found") PROVE FALSE
    <3>1. calls'[t] = <<"found">>
      BY <2>1, <2>2, CalledOnce DEF IInv, TypeOK, Answer
    <3> QED BY <2>1, <3>1
  <2>3. lkp_expire
    BY <2>1, <2>2
    DEF Next, AnswerFromDatabase, Ask, AskSilently, lkp_put, lkp_success, lkp_resolve,
        Pass, history, vars
  <2>4. calls' = Called({lkp[k].ctx : k \in Overdue}, "timeout")
    BY <2>1, <2>3 DEF lkp_expire
  <2>5. l \in Overdue
    <3>1. PICK k \in Overdue : lkp[k].ctx = t
      BY <2>1, <2>4 DEF Called
    <3> QED BY <3>1 DEF IInv, OwnContext, Overdue, Agreement, InStep
  <2>6. clock > lkp[l].time_find
    BY <2>5 DEF Overdue
  <2> QED BY <2>6, LookupTimes, LookupAssumption, ClockAssumption
<1> QED BY <1>1, IInvInductive, PTL DEF NoEarlyTimeout, Spec

-----------------------------------------------------------------------------
(* Refinement: each step is one of Resolver, or none.                       *)

LEMMA PutAddsContext ==
  ASSUME IInv, NEW ctx, NEW l \in LkpId, NEW ns, lkp_put(ctx, l, ns)
  PROVE  UNCHANGED calls /\ Waiting' = Waiting \cup {ctx}
<1>1. /\ UNCHANGED calls /\ l \notin hash /\ hash' = hash \cup {l}
      /\ lkp' = With(lkp, l, [ctx |-> ctx, asked |-> ns, time_find |-> time_now + Patience])
  BY DEF lkp_put, IInv, LiveLookup
<1>2. lkp'[l].ctx = ctx /\ \A k \in hash : lkp'[k].ctx = lkp[k].ctx
  BY <1>1 DEF With, IInv, Agreement, InStep
<1> QED BY <1>1, <1>2 DEF Waiting

\* Steps that call no callback of a task but may begin lookups.
LEMMA StatusUnlessCalled ==
  ASSUME IInv, UNCHANGED calls,
         NEW ts \in SUBSET Task, Waiting' \cap Task = (Waiting \cap Task) \cup ts,
         \A t \in ts : New(t)
  PROVE  /\ \A t \in ts : Status[t] = "new"
         /\ Status' = [t \in Task |-> IF t \in ts THEN "waiting" ELSE Status[t]]
  BY DEF Status, New

\* Steps that end lookups.
LEMMA StatusWhenEnded ==
  ASSUME IInv, NEW ls \in SUBSET hash, NEW answer \in Answer,
         lkp_del(ls), calls' = Called({lkp[l].ctx : l \in ls}, answer)
  PROVE  LET ts == {lkp[l].ctx : l \in ls} \cap Task
         IN  /\ \A t \in ts : Status[t] = "waiting"
             /\ Status' = [t \in Task |-> IF t \in ts THEN answer ELSE Status[t]]
<1> DEFINE ts == {lkp[l].ctx : l \in ls} \cap Task
<1>1. /\ \A t \in Task \ ts : calls'[t] = calls[t]
      /\ \A t \in ts : calls[t] = << >> => calls'[t] = <<answer>>
  <2>1. calls \in [Task -> Seq(Answer)]
    BY DEF IInv, TypeOK
  <2> DEFINE all == {lkp[l].ctx : l \in ls}
  <2>2. /\ \A t \in Task \ all : calls'[t] = calls[t]
        /\ \A t \in Task \cap all : calls[t] = << >> => calls'[t] = <<answer>>
    BY <2>1, CalledOnce
  <2> QED BY <2>2
<1>2. \A t \in ts : calls[t] = << >> /\ t \in Waiting
  BY DEF IInv, LiveLookup, Waiting
<1>3. \A t \in Task \ ts : t \in Waiting' <=> t \in Waiting
  BY DEF lkp_del, Without, Waiting, IInv, Agreement, InStep
<1>4. \A t \in ts : calls'[t] # << >> /\ calls'[t][1] = answer
  BY <1>1, <1>2
<1>5. \A t \in ts : Status[t] = "waiting"
  BY <1>2 DEF Status
<1>6. \A t \in Task : Status'[t] = IF t \in ts THEN answer ELSE Status[t]
  BY <1>1, <1>3, <1>4 DEF Status
<1>7. Status' = [t \in Task |-> IF t \in ts THEN answer ELSE Status[t]]
  BY <1>6 DEF Status
<1> QED BY <1>5, <1>7

LEMMA StepIsPromised == IInv /\ [Next]_vars => [Promise!Next]_Status
<1> SUFFICES ASSUME IInv, [Next]_vars PROVE Promise!Next \/ UNCHANGED Status
  OBVIOUS
<1> USE LookupAssumption
<1>1. ASSUME NEW t \in Task, AnswerFromDatabase(t) PROVE Promise!Find(t)
  <2>1. calls[t] = << >> /\ t \notin Waiting /\ Waiting' = Waiting
    BY <1>1 DEF AnswerFromDatabase, New, tables, Waiting
  <2>2. /\ calls'[t] = <<"found">>
        /\ \A u \in Task \ {t} : calls'[u] = calls[u]
    <3>1. calls \in [Task -> Seq(Answer)] /\ "found" \in Answer /\ calls' = Called({t}, "found")
      BY <1>1 DEF IInv, TypeOK, Answer, AnswerFromDatabase
    <3>2. /\ \A u \in Task \ {t} : calls'[u] = calls[u]
          /\ \A u \in Task \cap {t} : calls[u] = << >> => calls'[u] = <<"found">>
      BY <3>1, CalledOnce
    <3>3. t \in Task \cap {t}
      OBVIOUS
    <3> QED BY <2>1, <3>2, <3>3
  <2>4. calls'[t] # << >> /\ calls'[t][1] = "found"
    BY <2>2
  <2>5. \A u \in Task : Status'[u] = IF u \in {t} THEN "found" ELSE Status[u]
    BY <2>1, <2>2, <2>4 DEF Status
  <2>3. Status' = [u \in Task |-> IF u \in {t} THEN "found" ELSE Status[u]]
    BY <2>5 DEF Status
  <2> QED BY <1>1, <2>1, <2>3 DEF Promise!Find, Promise!Move, Status
<1>2. ASSUME NEW t \in Task, NEW l \in LkpId, Ask(t, l) PROVE Promise!Ask(t)
  <2>1. UNCHANGED calls /\ New(t) /\ Waiting' = Waiting \cup {t}
    BY <1>2, PutAddsContext DEF Ask, FirstNodes
  <2>2. Waiting' \cap Task = (Waiting \cap Task) \cup {t}
    BY <2>1
  <2> DEFINE ts == {t}
  <2>4. ts \in SUBSET Task /\ \A u \in ts : New(u)
    BY <2>1
  <2>5. Waiting' \cap Task = (Waiting \cap Task) \cup ts
    BY <2>2
  <2>6. /\ \A u \in ts : Status[u] = "new"
        /\ Status' = [u \in Task |-> IF u \in ts THEN "waiting" ELSE Status[u]]
    <3> HIDE DEF ts
    <3> QED BY <2>1, <2>4, <2>5, StatusUnlessCalled
  <2>3. /\ Status[t] = "new"
        /\ Status' = [u \in Task |-> IF u \in {t} THEN "waiting" ELSE Status[u]]
    BY <2>6
  <2> QED BY <2>3 DEF Promise!Ask, Promise!Move
<1>3. ASSUME NEW l \in LkpId, AskSilently(l) PROVE UNCHANGED Status
  <2>1. UNCHANGED calls /\ Waiting' = Waiting \cup {NoTask}
    BY <1>3, PutAddsContext DEF AskSilently, FirstNodes
  <2> QED BY <2>1 DEF Status
<1>4. ASSUME NEW l \in LkpId, lkp_success(l) PROVE Promise!Next \/ UNCHANGED Status
  <2> DEFINE ts == {lkp[k].ctx : k \in {l}} \cap Task
  <2>1. /\ \A t \in ts : Status[t] = "waiting"
        /\ Status' = [t \in Task |-> IF t \in ts THEN "found" ELSE Status[t]]
    BY <1>4, StatusWhenEnded DEF lkp_success, Answer
  <2>2. CASE lkp[l].ctx \in Task
    <3>1. ts = {lkp[l].ctx}
      BY <2>2
    <3>2. Promise!Find(lkp[l].ctx)
      BY <2>1, <3>1 DEF Promise!Find, Promise!Move
    <3> QED BY <2>2, <3>2 DEF Promise!Next
  <2>3. CASE lkp[l].ctx \notin Task
    <3>1. ts = {}
      BY <2>3
    <3> QED BY <2>1, <3>1 DEF Status
  <2> QED BY <2>2, <2>3
<1>5. ASSUME NEW l \in LkpId, NEW ns \in SUBSET Node, lkp_resolve(l, ns)
      PROVE  UNCHANGED Status
  <2>1. UNCHANGED <<calls, hash>> /\ \A k \in hash : lkp'[k].ctx = lkp[k].ctx
    BY <1>5 DEF lkp_resolve, IInv, TypeOK, Agreement, InStep
  <2>2. Waiting' = Waiting
    BY <2>1 DEF Waiting
  <2> QED BY <2>1, <2>2 DEF Status
<1>6. CASE lkp_expire
  <2>1. CASE ~ExpiryIsDue
    <3>1. UNCHANGED <<calls, hash, lkp>>
      BY <1>6, <2>1 DEF lkp_expire, tables
    <3> QED BY <3>1 DEF Status, Waiting
  <2>2. CASE ExpiryIsDue
    <3> DEFINE ts == {lkp[l].ctx : l \in Overdue} \cap Task
    <3>1. /\ \A t \in ts : Status[t] = "waiting"
          /\ Status' = [t \in Task |-> IF t \in ts THEN "timeout" ELSE Status[t]]
      <4>1. Overdue \in SUBSET hash
        BY DEF Overdue, IInv, Agreement, InStep
      <4> QED BY <1>6, <2>2, <4>1, StatusWhenEnded DEF lkp_expire, Answer
    <3>2. Promise!GiveUp(ts)
      BY <3>1 DEF Promise!GiveUp, Promise!Move
    <3>3. ts \in SUBSET Task
      OBVIOUS
    <3> QED BY <3>2, <3>3 DEF Promise!Next
  <2> QED BY <2>1, <2>2
<1>7. CASE Pass \/ UNCHANGED vars
  BY <1>7 DEF Pass, vars, tables, history, Status, Waiting
<1> QED BY <1>1, <1>2, <1>3, <1>4, <1>5, <1>6, <1>7 DEF Next, Promise!Next

\* The lookups take no step that Resolver does not allow: a request is found or
\* given up once, from where it stood (lkp_success, lkp_expire, dns_lookup,
\* web_lookup).
THEOREM LookupImplementsResolver == Spec => Promise!Init /\ [][Promise!Next]_Status
<1>1. Init => Promise!Init
  BY DEF Init, Promise!Init, Status, Waiting
<1> QED BY <1>1, StepIsPromised, IInvInductive, PTL DEF Spec
=============================================================================
