---------------------------- MODULE CacheProofs ----------------------------
(***************************************************************************)
(* What modules Cache and Announce promise: the session keys by            *)
(* themselves, for any set of keys, any lifetimes and any bounds; and the  *)
(* announcements, whose requests need a key each, for any nodes and any    *)
(* times that satisfy AnnounceAssumption.                                  *)
(***************************************************************************)
EXTENDS Cache, Announce, FiniteSetTheorems, TLAPS

(* The clocks.                                                            *)

\* The clocks start as p2p_init leaves them.
LEMMA ClockInitially == ClockInit => ClockInv
  BY ClockAssumption DEF ClockInit, ClockInv, ClockTypeOK

\* Time passes and packets read it without disturbing the invariant.
LEMMA ClockPasses ==
  ASSUME ClockInv, Tick \/ ReadClock \/ UNCHANGED clocks
  PROVE  ClockInv'
<1> USE ClockAssumption DEF ClockInv, ClockTypeOK
<1>1. CASE Tick
  BY <1>1 DEF Tick
<1>2. CASE ReadClock
  BY <1>2 DEF ReadClock
<1>3. CASE UNCHANGED clocks
  BY <1>3 DEF clocks
<1> QED BY <1>1, <1>2, <1>3

\* So does a run of cron, with or without an expiry pass; a pass puts the next
\* one at most MaxGap seconds ahead.
LEMMA ClockCron ==
  ASSUME ClockInv, Cron
  PROVE  /\ ClockInv'
         /\ clock' = clock
         /\ ExpiryIsDue => time_expire' \in clock .. clock + MaxGap
         /\ ~ExpiryIsDue => time_expire' = time_expire
<1> USE ClockAssumption DEF ClockInv, ClockTypeOK, Cron, ExpiryIsDue
<1>1. CASE ExpiryIsDue
  <2>1. PICK gap \in MinGap..MaxGap : time_expire' = clock + gap
    BY <1>1
  <2>2. gap \in Nat /\ gap <= MaxGap
    BY <2>1
  <2> QED BY <1>1, <2>1, <2>2
<1>2. CASE ~ExpiryIsDue
  BY <1>2
<1> QED BY <1>1, <1>2

(* The session keys.                                                         *)

\* The keys that are found are the ones last issued, unused if unicast, with a
\* deadline computed from a clock that is MaxLag behind at most, and the next
\* expiry pass is at most MaxGap after that deadline.
LiveKey(id) ==
  /\ id \in DOMAIN issued
  /\ sk[id].type = issued[id].type
  /\ issued[id].type = "SEND_UNICAST" => issued[id].uses = 0
  /\ 0 < issued[id].at /\ issued[id].at <= clock
  /\ sk[id].time <= issued[id].at + KeyLife
  /\ issued[id].at + KeyLife <= sk[id].time + MaxLag
  /\ time_expire <= sk[id].time + MaxGap

CacheIInv ==
  /\ TypeOK /\ ClockInv /\ Agreement
  /\ \A id \in hash : LiveKey(id)
  /\ OneReplyPerRequest
  /\ PromptReplyIsAccepted

LEMMA CacheInitially == Init => CacheIInv
  BY ClockInitially
  DEF Init, CacheIInv, TypeOK, ClockInv, Agreement, InStep, OneReplyPerRequest,
      PromptReplyIsAccepted, Nothing

LEMMA PutKeepsIInv ==
  ASSUME CacheIInv, NEW id \in SessionId, NEW type \in Type, cache_put(id, type)
  PROVE  CacheIInv'
<1> USE ClockAssumption, CacheAssumption
<1> DEFINE key == [type |-> type, time |-> time_now + KeyLife]
           issue == [type |-> type, at |-> clock, uses |-> 0]
<1>1. /\ UNCHANGED <<clock, time_now, time_expire, cron_at>>
      /\ ClockInv /\ ClockInv' /\ ClockTypeOK'
  BY ClockPasses DEF CacheIInv, cache_put, clocks, ClockInv
<1>2. /\ id \notin hash /\ hash' = hash \cup {id} /\ list' = list \cup {id}
      /\ sk' = With(sk, id, key) /\ issued' = With(issued, id, issue)
  BY DEF cache_put
<1>3. key \in [type : Type, time : Nat] /\ issue \in [type : Type, at : Nat, uses : Nat]
  BY <1>1 DEF ClockInv, ClockTypeOK
<1>4. TypeOK'
  BY <1>1, <1>2, <1>3 DEF CacheIInv, TypeOK, With
<1>5. Agreement'
  BY <1>2 DEF CacheIInv, Agreement, InStep, With
<1>6. /\ sk'[id] = key /\ issued'[id] = issue
      /\ \A i \in hash : i # id /\ sk'[i] = sk[i]
      /\ \A i \in DOMAIN issued : i # id => issued'[i] = issued[i]
      /\ DOMAIN issued' = DOMAIN issued \cup {id}
  BY <1>2 DEF With, CacheIInv, Agreement, InStep
<1>7. \A i \in hash' : LiveKey(i)'
  <2> TAKE i \in hash'
  <2>1. CASE i = id
    BY <1>1, <1>6, <2>1 DEF LiveKey, ClockInv, ClockTypeOK
  <2>2. CASE i # id
    BY <1>1, <1>2, <1>6, <2>2 DEF LiveKey, CacheIInv
  <2> QED BY <2>1, <2>2
<1>8. OneReplyPerRequest'
  BY <1>6 DEF OneReplyPerRequest, CacheIInv
<1>9. PromptReplyIsAccepted'
  BY <1>1, <1>2, <1>6 DEF PromptReplyIsAccepted, CacheIInv
<1> QED BY <1>1, <1>4, <1>5, <1>7, <1>8, <1>9 DEF CacheIInv

LEMMA ValidateKeepsIInv ==
  ASSUME CacheIInv, NEW id \in SessionId, cache_validate(id)
  PROVE  CacheIInv'
<1> USE ClockAssumption, CacheAssumption
<1>1. /\ UNCHANGED <<clock, time_now, time_expire, cron_at>>
      /\ ClockInv /\ ClockInv' /\ ClockTypeOK'
  BY ClockPasses DEF CacheIInv, cache_validate, clocks, ClockInv
<1>2. /\ id \in hash /\ LiveKey(id)
      /\ issued' = [issued EXCEPT ![id].uses = @ + 1]
  BY DEF cache_validate, CacheIInv
<1>3. /\ DOMAIN issued' = DOMAIN issued
      /\ issued'[id] = [issued[id] EXCEPT !.uses = @ + 1]
      /\ issued[id] \in [type : Type, at : Nat, uses : Nat]
      /\ \A i \in DOMAIN issued : i # id => issued'[i] = issued[i]
  BY <1>2 DEF LiveKey, CacheIInv, TypeOK
<1>4. \A i \in DOMAIN issued : /\ issued'[i].type = issued[i].type
                               /\ issued'[i].at = issued[i].at
                               /\ issued'[i].uses \in Nat
                               /\ i # id => issued'[i].uses = issued[i].uses
                               /\ i = id => issued'[i].uses = issued[i].uses + 1
  BY <1>3 DEF CacheIInv, TypeOK
<1>5. issued' \in [DOMAIN issued' -> [type : Type, at : Nat, uses : Nat]]
  BY <1>2, <1>3 DEF CacheIInv, TypeOK
<1>6. CASE sk[id].type = "SEND_UNICAST"
  <2>1. /\ hash' = hash \ {id} /\ list' = hash' /\ DOMAIN sk' = hash'
        /\ \A i \in hash' : sk'[i] = sk[i]
    BY <1>2, <1>6 DEF cache_validate, cache_del, Without, CacheIInv, Agreement, InStep
  <2>2. TypeOK'
    BY <1>1, <1>5, <2>1 DEF CacheIInv, TypeOK, cache_validate, cache_del, Without, Agreement, InStep
  <2>3. Agreement'
    BY <2>1 DEF Agreement, InStep
  <2>4. \A i \in hash' : LiveKey(i)'
    BY <1>1, <1>3, <2>1 DEF LiveKey, CacheIInv
  <2>5. OneReplyPerRequest'
    BY <1>2, <1>3, <1>4, <1>6 DEF OneReplyPerRequest, CacheIInv, LiveKey
  <2>6. PromptReplyIsAccepted'
    BY <1>1, <1>2, <1>3, <1>4, <1>6, <2>1 DEF PromptReplyIsAccepted, CacheIInv, LiveKey, TypeOK
  <2> QED BY <1>1, <2>2, <2>3, <2>4, <2>5, <2>6 DEF CacheIInv
<1>7. CASE sk[id].type # "SEND_UNICAST"
  <2>1. UNCHANGED <<list, hash, sk>>
    BY <1>7 DEF cache_validate
  <2>2. TypeOK'
    BY <1>1, <1>5, <2>1 DEF CacheIInv, TypeOK
  <2>3. \A i \in hash' : LiveKey(i)'
    BY <1>1, <1>2, <1>3, <1>4, <1>7, <2>1 DEF LiveKey, CacheIInv
  <2>4. OneReplyPerRequest'
    BY <1>2, <1>3, <1>4, <1>7 DEF OneReplyPerRequest, CacheIInv, LiveKey
  <2>5. PromptReplyIsAccepted'
    BY <1>1, <1>2, <1>3, <1>4, <1>7, <2>1 DEF PromptReplyIsAccepted, CacheIInv, LiveKey, TypeOK
  <2> QED BY <1>1, <2>1, <2>2, <2>3, <2>4, <2>5 DEF CacheIInv, Agreement
<1> QED BY <1>6, <1>7

LEMMA ExpireKeepsIInv ==
  ASSUME CacheIInv, cache_expire
  PROVE  CacheIInv'
<1> USE ClockAssumption, CacheAssumption
<1>1. /\ ClockInv' /\ ClockTypeOK' /\ clock' = clock
      /\ ExpiryIsDue => time_expire' \in clock .. clock + MaxGap
      /\ ~ExpiryIsDue => time_expire' = time_expire
      /\ ClockInv /\ ClockTypeOK
  BY ClockCron DEF CacheIInv, cache_expire, ClockInv
<1>2. issued' = issued
  BY DEF cache_expire
<1>3. CASE ExpiryIsDue
  <2>1. /\ hash' = hash \ Expired /\ list' = hash' /\ DOMAIN sk' = hash'
        /\ \A i \in hash' : sk'[i] = sk[i]
        /\ sk' = Without(sk, Expired \cap hash)
    BY <1>3 DEF cache_expire, cache_del, Without, CacheIInv, Agreement, InStep, Expired
  <2>2. TypeOK'
    BY <1>1, <1>2, <2>1 DEF CacheIInv, TypeOK, Without
  <2>3. Agreement'
    BY <2>1 DEF Agreement, InStep
  <2>4. \A i \in hash' : LiveKey(i)'
    <3> TAKE i \in hash'
    <3>1. i \in hash /\ i \notin Expired /\ sk'[i] = sk[i] /\ LiveKey(i)
      BY <2>1 DEF CacheIInv
    <3>2. ~(clock > sk[i].time)
      BY <3>1 DEF Expired, CacheIInv, Agreement, InStep
    <3>3. sk[i].time \in Nat /\ time_expire' \in Nat
      BY <1>1, <3>1 DEF CacheIInv, TypeOK, Agreement, InStep, ClockTypeOK
    <3>4. time_expire' <= sk[i].time + MaxGap
      BY <1>1, <1>3, <3>2, <3>3 DEF ClockTypeOK
    <3> QED BY <1>1, <1>2, <3>1, <3>4 DEF LiveKey
  <2>5. OneReplyPerRequest'
    BY <1>2 DEF OneReplyPerRequest, CacheIInv
  <2>6. PromptReplyIsAccepted'
    <3> SUFFICES ASSUME NEW i \in DOMAIN issued,
                        issued[i].type = "SEND_MULTICAST" \/ issued[i].uses = 0,
                        clock + MaxLag <= issued[i].at + KeyLife
                 PROVE  i \in hash'
      BY <1>1, <1>2 DEF PromptReplyIsAccepted
    <3>1. i \in hash /\ LiveKey(i)
      BY DEF CacheIInv, PromptReplyIsAccepted
    <3>2. sk[i].time \in Nat /\ issued[i].at \in Nat
      BY <3>1 DEF CacheIInv, TypeOK, Agreement, InStep
    <3>3. i \notin Expired
      BY <1>1, <3>1, <3>2 DEF Expired, LiveKey, ClockTypeOK
    <3> QED BY <2>1, <3>1, <3>3
  <2> QED BY <1>1, <2>2, <2>3, <2>4, <2>5, <2>6 DEF CacheIInv
<1>4. CASE ~ExpiryIsDue
  <2>1. UNCHANGED <<list, hash, sk>>
    BY <1>4 DEF cache_expire
  <2> QED
    BY <1>1, <1>2, <1>4, <2>1
    DEF CacheIInv, TypeOK, Agreement, InStep, LiveKey, OneReplyPerRequest, PromptReplyIsAccepted
<1> QED BY <1>3, <1>4

\* Time alone only grows: the deadlines of PromptReplyIsAccepted get nearer.
LEMMA PassKeepsIInv ==
  ASSUME CacheIInv, Pass \/ UNCHANGED vars
  PROVE  CacheIInv'
<1> USE ClockAssumption, CacheAssumption
<1>1. /\ UNCHANGED <<list, hash, sk, issued>>
      /\ Tick \/ ReadClock \/ UNCHANGED clocks
  BY DEF Pass, vars
<1>2. ClockInv' /\ ClockTypeOK' /\ ClockInv /\ ClockTypeOK
  BY <1>1, ClockPasses DEF CacheIInv, ClockInv
<1>3. clock' >= clock /\ time_expire' = time_expire /\ clock \in Nat /\ clock' \in Nat
  BY <1>1, <1>2 DEF Tick, ReadClock, clocks, ClockTypeOK
<1>4. TypeOK' /\ Agreement' /\ OneReplyPerRequest'
  BY <1>1, <1>2 DEF CacheIInv, TypeOK, Agreement, InStep, OneReplyPerRequest
<1>5. \A i \in hash' : LiveKey(i)'
  <2> TAKE i \in hash'
  <2>1. LiveKey(i) /\ issued[i].at \in Nat
    BY <1>1 DEF CacheIInv, LiveKey, TypeOK
  <2> QED BY <1>1, <1>3, <2>1 DEF LiveKey
<1>6. PromptReplyIsAccepted'
  <2> SUFFICES ASSUME NEW i \in DOMAIN issued,
                      issued[i].type = "SEND_MULTICAST" \/ issued[i].uses = 0,
                      clock' + MaxLag <= issued[i].at + KeyLife
               PROVE  i \in hash
    BY <1>1 DEF PromptReplyIsAccepted
  <2>1. issued[i].at \in Nat
    BY DEF CacheIInv, TypeOK
  <2>2. clock + MaxLag <= issued[i].at + KeyLife
    BY <1>3, <2>1
  <2> QED BY <2>2 DEF CacheIInv, PromptReplyIsAccepted
<1> QED BY <1>2, <1>4, <1>5, <1>6 DEF CacheIInv

LEMMA CacheAlways == Spec => []CacheIInv
<1>1. CacheIInv /\ [Next]_vars => CacheIInv'
  <2> SUFFICES ASSUME CacheIInv, [Next]_vars PROVE CacheIInv'
    OBVIOUS
  <2>1. CASE Request
    BY <2>1, PutKeepsIInv DEF Request
  <2>2. CASE Reply
    BY <2>2, ValidateKeepsIInv DEF Reply
  <2>3. CASE cache_expire
    BY <2>3, ExpireKeepsIInv
  <2>4. CASE Pass \/ UNCHANGED vars
    BY <2>4, PassKeepsIInv
  <2> QED BY <2>1, <2>2, <2>3, <2>4 DEF Next
<1> QED BY CacheInitially, <1>1, PTL DEF Spec

-----------------------------------------------------------------------------
\* The state of the session cache is always well formed.
THEOREM CacheTypeCorrect == Spec => []TypeOK
<1>1. CacheIInv => TypeOK  BY DEF CacheIInv
<1> QED BY <1>1, CacheAlways, PTL

\* cache_put, cache_del and cache_expire keep list, hash and keys in step.
THEOREM CacheAgreement == Spec => []Agreement
<1>1. CacheIInv => Agreement  BY DEF CacheIInv
<1> QED BY <1>1, CacheAlways, PTL

\* Copies of a reply to a unicast request are never acted upon (cache_validate).
THEOREM CacheOneReply == Spec => []OneReplyPerRequest
<1>1. CacheIInv => OneReplyPerRequest  BY DEF CacheIInv
<1> QED BY <1>1, CacheAlways, PTL

\* A reply that comes in time is not dropped (cache_expire takes no key early).
THEOREM CachePromptReply == Spec => []PromptReplyIsAccepted
<1>1. CacheIInv => PromptReplyIsAccepted  BY DEF CacheIInv
<1> QED BY <1>1, CacheAlways, PTL

\* A key is usable for a bounded time (cache_expire, run by cron).
THEOREM CacheKeysDoNotLinger == Spec => []KeysDoNotLinger
<1>1. CacheIInv => KeysDoNotLinger
  <2> SUFFICES ASSUME CacheIInv, NEW id \in hash
               PROVE  clock <= issued[id].at + KeyLife + MaxGap + MaxLag
    BY DEF KeysDoNotLinger
  <2>1. /\ LiveKey(id) /\ ClockInv /\ ClockTypeOK
        /\ issued[id].at \in Nat /\ sk[id].time \in Nat
    BY DEF CacheIInv, LiveKey, TypeOK, Agreement, InStep
  <2> QED BY <2>1, ClockAssumption, CacheAssumption DEF LiveKey, ClockInv, ClockTypeOK
<1> QED BY <1>1, CacheAlways, PTL

-----------------------------------------------------------------------------
(* The announcements.                                                        *)

RequestMade == (1..made) \X Node

AnnounceTypeOK ==
  /\ time_announce \in Nat /\ made \in Nat /\ idle \in BOOLEAN
  /\ DOMAIN announce \subseteq {made}
  /\ \A l \in DOMAIN announce : announce[l].time_find \in Nat
  /\ DOMAIN requests \subseteq RequestMade
  /\ \A n \in DOMAIN db : db[n] \in Nat
  /\ \A n \in DOMAIN missed : missed[n] \in 0..Many

\* Whom an announcement was sent to it remembers.
Remembered ==
  /\ again = {}
  /\ \A r \in sent : \E l \in DOMAIN announce : \E n \in announce[l].asked :
                       r = <<l, n>> /\ n # Me

\* The expiry pass that deletes an announcement comes before the next one.
InTurn ==
  \A l \in DOMAIN announce :
    /\ time_expire <= announce[l].time_find + MaxGap
    /\ announce[l].time_find + MaxGap <= time_announce

\* Cron is in time with its announcements, unless it is idle.
InTime ==
  /\ time_announce <= clock + MaxAnnounceGap
  /\ IF idle THEN time_announce < clock
             ELSE cron_at <= time_announce \/ made = 0
  /\ made = 0 => DOMAIN missed = {}

\* What is left of the fifteen minutes of node n's entry.
Lasting(n) ==
  LET k == missed[n]
  IN  /\ k = 0 => /\ n \in DOMAIN db
                  /\ time_announce + EntryLife <= db[n] + MaxAnnounceGap
      /\ k = 1 => /\ n \in DOMAIN db
                  /\ time_announce + EntryLife <= db[n] + 2 * MaxAnnounceGap + MaxLag
      /\ k = 2 /\ OnItsWay =>
           /\ n \in DOMAIN db
           /\ \A l \in DOMAIN announce : announce[l].time_find + Delay <= db[n] + FindLife

Entries == ~idle => \A n \in DOMAIN missed : Lasting(n)

AnnounceIInv ==
  /\ ClockInv /\ AnnounceTypeOK
  /\ Remembered /\ InTurn /\ InTime /\ Entries

-----------------------------------------------------------------------------
LEMMA AnnounceInitially == AnnounceInit => AnnounceIInv
<1> SUFFICES ASSUME AnnounceInit PROVE AnnounceIInv
  OBVIOUS
<1>1. ClockInv
  BY ClockInitially DEF AnnounceInit
<1>2. /\ time_announce = 0 /\ made = 0 /\ idle = FALSE /\ clock = 1
      /\ DOMAIN announce = {} /\ DOMAIN requests = {} /\ DOMAIN db = {}
      /\ DOMAIN missed = {} /\ sent = {} /\ again = {}
  BY DEF AnnounceInit, ClockInit, Nothing
<1>3. MaxAnnounceGap \in Nat
  BY AnnounceAssumption
<1>4. AnnounceTypeOK
  BY <1>2 DEF AnnounceTypeOK
<1>5. Remembered /\ InTurn /\ Entries
  BY <1>2 DEF Remembered, InTurn, Entries
<1>6. InTime
  BY <1>2, <1>3 DEF InTime
<1> QED
  BY <1>1, <1>4, <1>5, <1>6 DEF AnnounceIInv

\* While an entry lasts it is not expired.
LEMMA LastingIsFresh ==
  ASSUME AnnounceIInv, ~idle, NEW n \in DOMAIN missed,
         missed[n] < 2 \/ (missed[n] = 2 /\ OnItsWay)
  PROVE  n \in DOMAIN db /\ clock <= db[n]
<1> USE ClockAssumption, AnnounceAssumption
<1>1. /\ clock \in Nat /\ cron_at \in Nat /\ time_announce \in Nat
      /\ clock <= cron_at + MaxLag /\ cron_at <= time_announce
      /\ missed[n] \in 0..Many
  BY DEF AnnounceIInv, ClockInv, ClockTypeOK, AnnounceTypeOK, InTime
<1>2. Lasting(n) /\ (n \in DOMAIN db => db[n] \in Nat)
  BY DEF AnnounceIInv, Entries, AnnounceTypeOK
<1>3. CASE missed[n] = 0
  BY <1>1, <1>2, <1>3 DEF Lasting
<1>4. CASE missed[n] = 1
  BY <1>1, <1>2, <1>4 DEF Lasting
<1>5. CASE missed[n] = 2 /\ OnItsWay
  <2>1. PICK l \in DOMAIN announce : clock + FindLife <= announce[l].time_find + Delay
    BY <1>5 DEF OnItsWay
  <2>2. /\ announce[l].time_find \in Nat /\ n \in DOMAIN db
        /\ announce[l].time_find + Delay <= db[n] + FindLife
    BY <1>2, <1>5 DEF AnnounceIInv, AnnounceTypeOK, Lasting
  <2> QED BY <1>1, <1>2, <2>1, <2>2
<1> QED BY <1>1, <1>3, <1>4, <1>5 DEF Many

-----------------------------------------------------------------------------
\* A new announcement meets no other one.
LEMMA NewAnnouncement ==
  ASSUME AnnounceIInv, AnnounceCron,
         NEW live, live = IF ExpiryIsDue THEN announce_expire ELSE announce,
         clock > time_announce
  PROVE  DOMAIN live = {}
<1> USE ClockAssumption, AnnounceAssumption
<1>1. SUFFICES ASSUME NEW l \in DOMAIN announce
               PROVE  ExpiryIsDue /\ clock > announce[l].time_find
  BY DEF announce_expire, Without, ExpiryIsDue
<1>2. /\ clock \in Nat /\ time_expire \in Nat /\ time_announce \in Nat
      /\ announce[l].time_find \in Nat
      /\ time_expire <= announce[l].time_find + MaxGap
      /\ announce[l].time_find + MaxGap <= time_announce
  BY DEF AnnounceIInv, ClockInv, ClockTypeOK, AnnounceTypeOK, InTurn
<1> QED BY <1>2 DEF ExpiryIsDue

LEMMA CronKeepsIInv ==
  ASSUME AnnounceIInv, AnnounceCron
  PROVE  AnnounceIInv'
<1> USE ClockAssumption, AnnounceAssumption
<1> DEFINE live == IF ExpiryIsDue THEN announce_expire ELSE announce
           reqs == IF ExpiryIsDue THEN cache_expire_keys ELSE requests
<1>1. /\ ClockInv /\ ClockInv' /\ clock' = clock /\ cron_at' = clock
      /\ ExpiryIsDue => time_expire' \in clock .. clock + MaxGap
      /\ ~ExpiryIsDue => time_expire' = time_expire
      /\ {clock, time_now, time_expire, cron_at, time_expire'} \subseteq Nat
      /\ time_expire <= clock + MaxGap /\ 0 < cron_at /\ cron_at <= clock
      /\ clock <= cron_at + MaxLag
  <2>1. Cron
    BY DEF AnnounceCron
  <2>2. ClockInv /\ ClockInv'
    BY <2>1, ClockCron DEF AnnounceIInv
  <2> QED BY <2>1, <2>2, ClockCron DEF ClockInv, ClockTypeOK, Cron
<1>2. /\ DOMAIN live \subseteq DOMAIN announce
      /\ \A l \in DOMAIN live : /\ live[l] = announce[l]
                                /\ ExpiryIsDue => clock <= live[l].time_find
      /\ DOMAIN reqs \subseteq DOMAIN requests
  <2>1. /\ time_announce \in Nat
        /\ \A l \in DOMAIN announce : announce[l].time_find \in Nat
    BY DEF AnnounceIInv, AnnounceTypeOK
  <2> QED BY <1>1, <2>1 DEF announce_expire, cache_expire_keys, Without
<1>3. db' = db
  BY DEF AnnounceCron
<1>4. CASE clock > time_announce /\ announce_put(live, reqs)
  <2>1. DOMAIN live = {}
    BY <1>4, NewAnnouncement
  <2>2. PICK first \in SUBSET (Node \ {Me}), gap \in MinAnnounceGap..MaxAnnounceGap :
          /\ made' = made + 1
          /\ announce' = With(live, made', [asked |-> first, time_find |-> clock + FindLife])
          /\ send_announce(made', first, reqs)
          /\ time_announce' = clock + gap
          /\ idle' = FALSE
          /\ missed' = MissedOneMore
    BY <1>4 DEF announce_put
  <2>3. /\ DOMAIN announce' = {made'}
        /\ announce'[made'] = [asked |-> first, time_find |-> clock + FindLife]
        /\ made' = made + 1 /\ made \in Nat /\ made' \in Nat
    BY <2>1, <2>2 DEF With, AnnounceIInv, AnnounceTypeOK
  <2>4. gap \in Nat /\ MinAnnounceGap <= gap /\ gap <= MaxAnnounceGap
    OBVIOUS
  <2>5. /\ DOMAIN missed' = DOMAIN missed
        /\ \A n \in DOMAIN missed :
             /\ missed[n] \in 0..Many
             /\ missed'[n] = IF idle \/ missed[n] = Many THEN Many ELSE missed[n] + 1
    BY <2>2 DEF MissedOneMore, AnnounceIInv, AnnounceTypeOK
  <2>6. AnnounceTypeOK'
    <3>1. DOMAIN requests' = DOMAIN reqs \cup {<<made', n>> : n \in first}
      BY <2>2 DEF send_announce, Requests
    <3>2. DOMAIN requests' \subseteq (1..made') \X Node
      BY <3>1, <2>3, <1>2 DEF AnnounceIInv, AnnounceTypeOK, RequestMade
    <3>3. \A n \in DOMAIN missed' : missed'[n] \in 0..Many
      BY <2>5 DEF Many
    <3>4. /\ time_announce' \in Nat /\ idle' \in BOOLEAN
          /\ announce'[made'].time_find \in Nat
      <4>1. clock \in Nat /\ clock + gap \in Nat /\ clock + FindLife \in Nat
        BY <1>1, <2>4
      <4>2. announce'[made'].time_find = clock + FindLife
        BY <2>3
      <4>3. time_announce' = clock + gap /\ idle' = FALSE
        BY <2>2
      <4> QED BY <4>1, <4>2, <4>3
    <3>5. \A n \in DOMAIN db' : db'[n] \in Nat
      BY <1>3 DEF AnnounceIInv, AnnounceTypeOK
    <3> QED BY <2>3, <3>2, <3>3, <3>4, <3>5 DEF AnnounceTypeOK, RequestMade
  <2>7. Remembered'
    <3>1. \A r \in sent : r[1] # made'
      BY <2>3 DEF AnnounceIInv, Remembered, AnnounceTypeOK
    <3>2. /\ sent' = {r \in sent : r[1] \in DOMAIN announce'} \cup {<<made', n>> : n \in first}
          /\ again' = again \cup (sent \cap {<<made', n>> : n \in first})
      BY <2>2 DEF send_announce, Requests
    <3>3. sent' = {<<made', n>> : n \in first} /\ again' = {}
      BY <3>1, <3>2, <2>3 DEF AnnounceIInv, Remembered
    <3> QED BY <2>3, <3>3 DEF Remembered
  <2>8. InTurn'
    BY <1>1, <2>2, <2>3, <2>4 DEF InTurn
  <2>9. InTime'
    <3>1. ~idle' /\ made' # 0
      BY <2>2, <2>3
    <3>2. /\ time_announce' = clock + gap /\ clock' = clock /\ cron_at' = clock
          /\ clock \in Nat
      BY <1>1, <2>2
    <3> QED BY <2>4, <3>1, <3>2 DEF InTime
  <2>10. Entries'
    <3> SUFFICES ASSUME NEW n \in DOMAIN missed PROVE Lasting(n)'
      BY <2>5 DEF Entries
    <3>1. CASE idle \/ missed[n] \in 2..Many
      BY <2>5, <3>1 DEF Lasting, Many
    <3>2. CASE ~idle /\ missed[n] \in 0..1
      <4>1. Lasting(n) /\ made # 0 /\ cron_at <= time_announce /\ time_announce \in Nat
        BY <3>2 DEF AnnounceIInv, Entries, InTime, AnnounceTypeOK
      <4>2. n \in DOMAIN db /\ db[n] \in Nat
        BY <4>1, <3>2 DEF Lasting, AnnounceIInv, AnnounceTypeOK
      <4>3. clock <= time_announce + MaxLag /\ time_announce' <= clock + MaxAnnounceGap
        BY <1>1, <4>1, <2>2, <2>4
      <4>4. CASE missed[n] = 0
        <5>1. missed'[n] = 1
          BY <2>5, <3>2, <4>4 DEF Many
        <5>2. time_announce + EntryLife <= db[n] + MaxAnnounceGap
          BY <4>1, <4>4 DEF Lasting
        <5>3. time_announce' + EntryLife <= db[n] + 2 * MaxAnnounceGap + MaxLag
          BY <1>1, <2>2, <2>4, <4>1, <4>2, <4>3, <5>2
        <5> QED BY <1>3, <4>2, <5>1, <5>3 DEF Lasting
      <4>5. CASE missed[n] = 1
        <5>1. missed'[n] = 2
          BY <2>5, <3>2, <4>5 DEF Many
        <5>2. time_announce + EntryLife <= db[n] + 2 * MaxAnnounceGap + MaxLag
          BY <4>1, <4>5 DEF Lasting
        <5>3. clock + FindLife + Delay <= db[n] + FindLife
          BY <1>1, <4>1, <4>2, <4>3, <5>2
        <5> QED BY <1>3, <2>3, <4>2, <5>1, <5>3 DEF Lasting
      <4> QED BY <3>2, <4>4, <4>5
    <3> QED BY <2>5, <3>1, <3>2 DEF Many
  <2> QED BY <1>1, <2>6, <2>7, <2>8, <2>9, <2>10 DEF AnnounceIInv
<1>5. CASE /\ announce' = live /\ requests' = reqs
           /\ sent' = {r \in sent : r[1] \in DOMAIN live}
           /\ idle' = (clock > time_announce)
           /\ UNCHANGED <<time_announce, made, again, missed>>
  <2>1. AnnounceTypeOK'
    BY <1>2, <1>3, <1>5 DEF AnnounceTypeOK, RequestMade, AnnounceIInv
  <2>2. Remembered'
    BY <1>2, <1>5 DEF Remembered, AnnounceIInv
  <2>3. InTurn'
    <3> SUFFICES ASSUME NEW l \in DOMAIN live
                 PROVE  /\ time_expire' <= live[l].time_find + MaxGap
                        /\ live[l].time_find + MaxGap <= time_announce
      BY <1>5 DEF InTurn
    <3>1. /\ live[l] = announce[l] /\ live[l].time_find \in Nat
          /\ ExpiryIsDue => clock <= live[l].time_find
          /\ time_expire <= live[l].time_find + MaxGap
          /\ live[l].time_find + MaxGap <= time_announce
      BY <1>2 DEF AnnounceIInv, InTurn, AnnounceTypeOK
    <3> QED BY <1>1, <3>1
  <2>4. InTime'
    <3>1. /\ clock' = clock /\ cron_at' = clock /\ clock \in Nat
          /\ time_announce' = time_announce /\ time_announce \in Nat
          /\ made' = made /\ missed' = missed
          /\ idle' <=> clock > time_announce
      BY <1>1, <1>5 DEF AnnounceIInv, AnnounceTypeOK
    <3>2. time_announce <= clock + MaxAnnounceGap /\ (made = 0 => DOMAIN missed = {})
      BY DEF AnnounceIInv, InTime
    <3> QED BY <3>1, <3>2 DEF InTime
  <2>5. Entries'
    <3> SUFFICES ASSUME ~idle', NEW n \in DOMAIN missed PROVE Lasting(n)'
      BY <1>5 DEF Entries
    <3>1. ~idle /\ Lasting(n)
      BY <1>1, <1>5 DEF AnnounceIInv, Entries, InTime, AnnounceTypeOK
    <3>2. OnItsWay' => OnItsWay
      BY <1>1, <1>2, <1>5 DEF OnItsWay
    <3> QED BY <1>2, <1>3, <1>5, <3>1, <3>2 DEF Lasting
  <2> QED BY <1>1, <2>1, <2>2, <2>3, <2>4, <2>5 DEF AnnounceIInv
<1> QED BY <1>4, <1>5 DEF AnnounceCron

-----------------------------------------------------------------------------
\* A request that arrives begins the fifteen minutes anew.
LEMMA ArriveKeepsIInv ==
  ASSUME AnnounceIInv, NEW l \in 1..made, NEW n \in Node, Arrive(l, n)
  PROVE  AnnounceIInv'
<1> USE ClockAssumption, AnnounceAssumption
<1>1. /\ db' = With(db, n, clock + EntryLife)
      /\ missed' = With(missed, n, 0)
      /\ UNCHANGED <<clock, time_now, time_expire, cron_at>>
      /\ UNCHANGED <<time_announce, made, announce, idle, sent, again>>
      /\ DOMAIN requests' = DOMAIN requests
  BY DEF Arrive, clocks
<1>2. /\ clock \in Nat /\ time_announce \in Nat /\ made # 0
      /\ time_announce <= clock + MaxAnnounceGap
  BY DEF AnnounceIInv, AnnounceTypeOK, InTime, ClockInv, ClockTypeOK
<1>3. /\ DOMAIN db' = DOMAIN db \cup {n} /\ DOMAIN missed' = DOMAIN missed \cup {n}
      /\ \A m \in DOMAIN db' : db'[m] = IF m = n THEN clock + EntryLife ELSE db[m]
      /\ \A m \in DOMAIN missed' : missed'[m] = IF m = n THEN 0 ELSE missed[m]
  BY <1>1 DEF With
<1>4. ClockInv'
  BY <1>1, ClockPasses DEF AnnounceIInv, clocks
<1>5. AnnounceTypeOK'
  <2>1. clock + EntryLife \in Nat /\ 0 \in 0..Many
    BY <1>2 DEF Many
  <2> QED BY <1>1, <1>3, <2>1 DEF AnnounceIInv, AnnounceTypeOK, RequestMade
<1>6. Remembered' /\ InTurn'
  BY <1>1 DEF AnnounceIInv, Remembered, InTurn
<1>7. InTime'
  BY <1>1, <1>2 DEF AnnounceIInv, InTime
<1>8. Entries'
  <2> SUFFICES ASSUME ~idle, NEW m \in DOMAIN missed' PROVE Lasting(m)'
    BY <1>1 DEF Entries
  <2>1. CASE m = n
    BY <1>1, <1>2, <1>3, <2>1 DEF Lasting
  <2>2. CASE m # n
    <3>1. Lasting(m)
      BY <1>3, <2>2 DEF AnnounceIInv, Entries
    <3>2. OnItsWay' <=> OnItsWay
      BY <1>1 DEF OnItsWay
    <3> QED BY <1>1, <1>3, <2>2, <3>1, <3>2 DEF Lasting
  <2> QED BY <2>1, <2>2
<1> QED BY <1>4, <1>5, <1>6, <1>7, <1>8 DEF AnnounceIInv

\* A reply makes requests to nodes not asked before, and changes no time.
LEMMA ReplyKeepsIInv ==
  ASSUME AnnounceIInv, NEW l \in 1..made, NEW n \in Node, p2p_node_announce(l, n)
  PROVE  AnnounceIInv'
<1> USE ClockAssumption, AnnounceAssumption
<1> DEFINE reqs == Without(requests, {<<l, n>>})
<1>1. /\ UNCHANGED <<clock, time_expire, cron_at>>
      /\ UNCHANGED <<time_announce, made, idle, db, missed>>
  BY DEF p2p_node_announce, ReadClock
<1>2. ClockInv'
  BY ClockPasses DEF AnnounceIInv, p2p_node_announce
<1>3. DOMAIN reqs \subseteq RequestMade
  BY DEF AnnounceIInv, AnnounceTypeOK, Without
<1>4. /\ DOMAIN announce' = DOMAIN announce
      /\ \A k \in DOMAIN announce : announce'[k].time_find = announce[k].time_find
      /\ DOMAIN requests' \subseteq RequestMade
      /\ Remembered'
  <2>1. CASE requests' = reqs /\ UNCHANGED <<announce, sent, again>>
    BY <1>3, <2>1 DEF AnnounceIInv, Remembered
  <2>2. CASE l \notin DOMAIN announce
    BY <1>3, <2>1, <2>2 DEF p2p_node_announce, announce_resolve
  <2>3. CASE /\ l \in DOMAIN announce
             /\ \E named \in SUBSET Node : announce_resolve(l, {n} \cup named, reqs)
    <3>1. PICK named \in SUBSET Node : announce_resolve(l, {n} \cup named, reqs)
      BY <2>3
    <3> DEFINE ns == {n} \cup named
               new == ns \ (announce[l].asked \cup {Me})
    <3>2. /\ announce' = [announce EXCEPT ![l].asked = @ \cup ns]
          /\ send_announce(l, new, reqs)
      BY <2>3, <3>1 DEF announce_resolve
    <3>3. /\ DOMAIN announce' = DOMAIN announce
          /\ \A k \in DOMAIN announce : announce'[k].time_find = announce[k].time_find
          /\ \A k \in DOMAIN announce : announce[k].asked \subseteq announce'[k].asked
          /\ ns \subseteq announce'[l].asked
      <4>1. DOMAIN announce' = DOMAIN announce
        BY <3>2
      <4> SUFFICES ASSUME NEW k \in DOMAIN announce
                   PROVE  /\ announce'[k].time_find = announce[k].time_find
                          /\ announce[k].asked \subseteq announce'[k].asked
                          /\ k = l => ns \subseteq announce'[k].asked
        BY <4>1, <2>3
      <4>2. announce'[k] = IF k = l THEN [announce[l] EXCEPT !.asked = @ \cup ns]
                                    ELSE announce[k]
        BY <3>2
      <4> QED BY <4>2
    <3>4. DOMAIN requests' \subseteq RequestMade
      <4>1. DOMAIN requests' = DOMAIN reqs \cup Requests(l, new)
        BY <3>2 DEF send_announce
      <4>2. Requests(l, new) \subseteq RequestMade
        BY DEF Requests, RequestMade
      <4> QED BY <1>3, <4>1, <4>2
    <3>5. sent \cap Requests(l, new) = {}
      BY DEF AnnounceIInv, Remembered, Requests
    <3>6. Remembered'
      BY <2>3, <3>2, <3>3, <3>5 DEF AnnounceIInv, Remembered, send_announce, Requests
    <3> QED BY <3>3, <3>4, <3>6
  <2> QED BY <2>1, <2>2, <2>3 DEF p2p_node_announce
<1>5. AnnounceTypeOK'
  BY <1>1, <1>4 DEF AnnounceIInv, AnnounceTypeOK, RequestMade
<1>6. InTurn' /\ InTime'
  BY <1>1, <1>4 DEF AnnounceIInv, InTurn, InTime
<1>7. Entries'
  <2>1. OnItsWay' <=> OnItsWay
    BY <1>1, <1>4 DEF OnItsWay
  <2> QED BY <1>1, <1>4, <2>1 DEF AnnounceIInv, Entries, Lasting
<1> QED BY <1>2, <1>4, <1>5, <1>6, <1>7 DEF AnnounceIInv

\* Only entries whose time is over are deleted.
LEMMA ForgetKeepsIInv ==
  ASSUME AnnounceIInv, NEW n \in Node, Forget(n)
  PROVE  AnnounceIInv'
<1>1. /\ n \in DOMAIN db /\ clock > db[n] /\ db' = Without(db, {n})
      /\ UNCHANGED <<clock, time_now, time_expire, cron_at>>
      /\ UNCHANGED <<time_announce, made, announce, requests, idle, sent, again, missed>>
  BY DEF Forget, clocks
<1>2. /\ DOMAIN db' = DOMAIN db \ {n}
      /\ \A m \in DOMAIN db' : db'[m] = db[m]
  BY <1>1 DEF Without
<1>3. ClockInv'
  BY <1>1, ClockPasses DEF AnnounceIInv, clocks
<1>4. AnnounceTypeOK' /\ Remembered' /\ InTurn' /\ InTime'
  <2>1. AnnounceTypeOK'
    BY <1>1, <1>2 DEF AnnounceIInv, AnnounceTypeOK, RequestMade
  <2>2. Remembered' /\ InTurn'
    BY <1>1 DEF AnnounceIInv, Remembered, InTurn
  <2>3. InTime'
    BY <1>1 DEF AnnounceIInv, InTime
  <2> QED BY <2>1, <2>2, <2>3
<1>5. Entries'
  <2> SUFFICES ASSUME ~idle, NEW m \in DOMAIN missed PROVE Lasting(m)'
    BY <1>1 DEF Entries
  <2>1. Lasting(m)
    BY DEF AnnounceIInv, Entries
  <2>2. OnItsWay' <=> OnItsWay
    BY <1>1 DEF OnItsWay
  <2>3. CASE missed[m] < 2 \/ (missed[m] = 2 /\ OnItsWay)
    <3>1. m # n
      <4> SUFFICES ASSUME m = n PROVE FALSE
        OBVIOUS
      <4>1. clock <= db[n] /\ clock \in Nat /\ db[n] \in Nat
        BY <1>1, <2>3, LastingIsFresh DEF AnnounceIInv, ClockInv, ClockTypeOK, AnnounceTypeOK
      <4> QED BY <1>1, <4>1
    <3> QED BY <1>1, <1>2, <2>1, <2>2, <3>1 DEF Lasting
  <2>4. CASE ~(missed[m] < 2 \/ (missed[m] = 2 /\ OnItsWay))
    BY <1>1, <2>2, <2>4 DEF Lasting
  <2> QED BY <2>3, <2>4
<1> QED BY <1>3, <1>4, <1>5 DEF AnnounceIInv

LEMMA WaitKeepsIInv ==
  ASSUME AnnounceIInv, Wait
  PROVE  AnnounceIInv'
<1> USE ClockAssumption, AnnounceAssumption
<1>1. /\ clock' = clock + 1 /\ UNCHANGED <<time_now, time_expire, cron_at>>
      /\ UNCHANGED <<time_announce, made, announce, requests, idle, db, sent, again, missed>>
  BY DEF Wait, Tick
<1>2. ClockInv'
  BY ClockPasses DEF AnnounceIInv, Wait
<1>3. AnnounceTypeOK' /\ Remembered' /\ InTurn'
  BY <1>1 DEF AnnounceIInv, AnnounceTypeOK, RequestMade, Remembered, InTurn
<1>4. clock \in Nat /\ time_announce \in Nat
  BY DEF AnnounceIInv, ClockInv, ClockTypeOK, AnnounceTypeOK
<1>5. InTime'
  BY <1>1, <1>4 DEF AnnounceIInv, InTime
<1>6. Entries'
  <2>1. OnItsWay' => OnItsWay
    BY <1>1, <1>4 DEF OnItsWay, AnnounceIInv, AnnounceTypeOK
  <2> QED BY <1>1, <2>1 DEF AnnounceIInv, Entries, Lasting
<1> QED BY <1>2, <1>3, <1>5, <1>6 DEF AnnounceIInv

LEMMA AnnounceNextKeepsIInv == AnnounceIInv /\ [AnnounceNext]_announcevars => AnnounceIInv'
<1> SUFFICES ASSUME AnnounceIInv, [AnnounceNext]_announcevars PROVE AnnounceIInv'
  OBVIOUS
<1>1. CASE UNCHANGED announcevars
  <2>1. ClockInv'
    BY <1>1, ClockPasses DEF AnnounceIInv, announcevars
  <2>2. UNCHANGED <<clock, time_now, time_expire, cron_at>>
    BY <1>1 DEF announcevars, clocks
  <2> QED BY <1>1, <2>1, <2>2
          DEF announcevars, AnnounceIInv, AnnounceTypeOK, RequestMade, Remembered, InTurn, InTime,
              Entries, Lasting, OnItsWay
<1>2. CASE AnnounceCron
  BY <1>2, CronKeepsIInv
<1>3. CASE Wait
  BY <1>3, WaitKeepsIInv
<1>4. CASE \E l \in 1..made, n \in Node : Arrive(l, n) \/ p2p_node_announce(l, n)
  BY <1>4, ArriveKeepsIInv, ReplyKeepsIInv
<1>5. CASE \E n \in Node : Forget(n)
  BY <1>5, ForgetKeepsIInv
<1> QED BY <1>1, <1>2, <1>3, <1>4, <1>5 DEF AnnounceNext

LEMMA AnnounceAlways == AnnounceSpec => []AnnounceIInv
<1>1. AnnounceInit => AnnounceIInv
  BY AnnounceInitially
<1>2. AnnounceIInv /\ [AnnounceNext]_announcevars => AnnounceIInv'
  BY AnnounceNextKeepsIInv
<1> QED BY <1>1, <1>2, PTL DEF AnnounceSpec

-----------------------------------------------------------------------------
\* announce_resolve sends an announcement to no node twice, nor to the node
\* itself, whatever the replies name (announce.c:148).
THEOREM AnnounceOnce == AnnounceSpec => []AnnouncedOnce
<1>1. AnnounceIInv => AnnouncedOnce
  BY DEF AnnounceIInv, Remembered, AnnouncedOnce
<1> QED BY <1>1, AnnounceAlways, PTL

\* When p2p_announce_myself starts an announcement the last one is deleted.
THEOREM AnnounceOneAtATime == AnnounceSpec => []OneAnnouncement
<1>1. AnnounceIInv => OneAnnouncement
  <2> SUFFICES ASSUME AnnounceIInv PROVE OneAnnouncement
    OBVIOUS
  <2>1. DOMAIN announce = {} \/ DOMAIN announce = {made}
    BY DEF AnnounceIInv, AnnounceTypeOK
  <2>2. CASE DOMAIN announce = {}
    BY <2>2, FS_EmptySet DEF OneAnnouncement
  <2>3. CASE DOMAIN announce = {made}
    <3>1. Cardinality(DOMAIN announce) = 1
      BY <2>3, FS_Singleton
    <3> QED BY <3>1 DEF OneAnnouncement
  <2> QED BY <2>1, <2>2, <2>3
<1> QED BY <1>1, AnnounceAlways, PTL

\* Fifteen minutes (db_put) outlast one lost announcement (p2p_cron).
THEOREM AnnounceStaysKnown == AnnounceSpec => []StaysKnown
<1>1. AnnounceIInv => StaysKnown
  BY LastingIsFresh DEF StaysKnown
<1> QED BY <1>1, AnnounceAlways, PTL
=============================================================================
