------------------------------- MODULE Cache -------------------------------
(***************************************************************************)
(* cache.c: the session keys of the requests a node has sent.  A reply is  *)
(* only acted upon if its key is found.  The key of a request to one node  *)
(* is used up by the first reply, the key of a multicast ping stays until  *)
(* it expires.  The network may repeat, delay and forge replies: any key   *)
(* may arrive at any time.                                                 *)
(*                                                                         *)
(* The passes over the list follow the items to the end (module List), so  *)
(* that the order of the list does not matter here.                        *)
(***************************************************************************)
EXTENDS Clock, Tables

CONSTANTS SessionId,   \* keys rand_urandom may draw, repeatedly
          KeyLife,     \* TIME_1_MINUTE
          MaxUses      \* bound: replies to one request

ASSUME CacheAssumption == KeyLife \in Nat /\ MaxUses \in Nat

VARIABLES
  list, hash,   \* the session ids of the items on the list, and in the hash
  sk,           \* struct obj_key: session id -> [type, time]
  issued        \* history: session id -> its last issue, [type, at, uses]

vars == <<clocks, list, hash, sk, issued>>

Type == {"SEND_UNICAST", "SEND_MULTICAST"}

Init == /\ ClockInit
        /\ list = {} /\ hash = {}
        /\ sk = Nothing
        /\ issued = Nothing

\* Called with every request that is sent.
cache_put(id, type) ==
  /\ id \notin hash
  /\ list' = list \cup {id}
  /\ hash' = hash \cup {id}
  /\ sk' = With(sk, id, [type |-> type, time |-> time_now + KeyLife])
  /\ issued' = With(issued, id, [type |-> type, at |-> clock, uses |-> 0])
  /\ UNCHANGED clocks

\* cache_del, of a set of keys
cache_del(ids) ==
  /\ hash' = hash \ ids
  /\ list' = list \ (ids \cap hash)
  /\ sk' = Without(sk, ids \cap hash)

\* Faulty: the types are mixed up.
cache_validate_Swapped(id) ==
  /\ id \in hash
  /\ IF sk[id].type = "SEND_MULTICAST"
     THEN cache_del({id})
     ELSE UNCHANGED <<list, hash, sk>>
  /\ issued' = [issued EXCEPT ![id].uses = @ + 1]
  /\ UNCHANGED clocks

\* A reply with a key that is not found is dropped: nothing changes.
cache_validate(id) ==
  /\ id \in hash
  /\ IF sk[id].type = "SEND_UNICAST"
     THEN cache_del({id})
     ELSE UNCHANGED <<list, hash, sk>>
  /\ issued' = [issued EXCEPT ![id].uses = @ + 1]
  /\ UNCHANGED clocks

\* Faulty: the second of the deadline is over already.
Expired_Early == {id \in list : clock >= sk[id].time}

\* Faulty: only the keys of single nodes expire.
Expired_UnicastOnly ==
  {id \in list : sk[id].type = "SEND_UNICAST" /\ clock > sk[id].time}

Expired == {id \in list : clock > sk[id].time}

cache_expire ==
  /\ Cron
  /\ IF ExpiryIsDue THEN cache_del(Expired) ELSE UNCHANGED <<list, hash, sk>>
  /\ UNCHANGED issued

Pass == (Tick \/ ReadClock) /\ UNCHANGED <<list, hash, sk, issued>>

Request == \E id \in SessionId, type \in Type : cache_put(id, type)

Reply == \E id \in SessionId : /\ id \in hash => issued[id].uses < MaxUses
                               /\ cache_validate(id)

Next == Request \/ Reply \/ cache_expire \/ Pass

Spec == Init /\ [][Next]_vars

-----------------------------------------------------------------------------
TypeOK ==
  /\ ClockTypeOK
  /\ list \subseteq SessionId /\ hash \subseteq SessionId
  /\ sk \in [DOMAIN sk -> [type : Type, time : Nat]]
  /\ issued \in [DOMAIN issued -> [type : Type, at : Nat, uses : Nat]]

\* List, hash and keys stay in step.  A key left in the list after its use
\* would make the next cache_expire look at freed memory; one left in the hash
\* would accept a second reply.
Agreement == InStep(list, hash, sk)

\* "Unicast: Delete session id" (cache.c:138): one request, one reply that is
\* acted upon, however often and late the network delivers copies of it.
OneReplyPerRequest ==
  \A id \in DOMAIN issued :
    issued[id].type = "SEND_UNICAST" => issued[id].uses <= 1

\* A reply that is no slower than KeyLife, less what the clock may be behind
\* when the key is issued, finds its key: no expiry and no other reply takes it.
PromptReplyIsAccepted ==
  \A id \in DOMAIN issued :
    (/\ issued[id].type = "SEND_MULTICAST" \/ issued[id].uses = 0
     /\ clock + MaxLag <= issued[id].at + KeyLife)
    => id \in hash

\* A key can be used for KeyLife seconds and until the expiry pass that comes
\* next: never longer, although cache_validate does not look at the time.
KeysDoNotLinger ==
  \A id \in hash : clock <= issued[id].at + KeyLife + MaxGap + MaxLag
=============================================================================
