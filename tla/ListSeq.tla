------------------------------ MODULE ListSeq ------------------------------
(***************************************************************************)
(* What list.c promises its callers: a LIST is a sequence of payloads to   *)
(* which they append, insert after an item, and from which they delete.    *)
(* call is the last operation: what was called, at which position of the   *)
(* sequence, and with which payload.                                       *)
(***************************************************************************)
EXTENDS Naturals, Sequences

CONSTANT Payload
VARIABLES items, call

Remove(s, k) == SubSeq(s, 1, k - 1) \o SubSeq(s, k + 1, Len(s))
After(s, k, v) == SubSeq(s, 1, k) \o <<v>> \o SubSeq(s, k + 1, Len(s))

Put(v)    == items' = Append(items, v) /\ call' = <<"put", Len(items), v>>
Ins(k, v) == items' = After(items, k, v) /\ call' = <<"ins", k, v>>
Del(k)    == items' = Remove(items, k) /\ call' = <<"del", k>>

Init == items = << >> /\ call = << >>
Next == \/ \E v \in Payload : Put(v)
        \/ \E k \in DOMAIN items, v \in Payload : Ins(k, v)
        \/ \E k \in DOMAIN items : Del(k)
Spec == Init /\ [][Next]_<<items, call>>
=============================================================================
