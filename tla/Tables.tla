------------------------------- MODULE Tables -------------------------------
(***************************************************************************)
(* The shape of masala's tables: objects, each on a list and, by its id,   *)
(* in a hash whose values are the items of the list.  Both are told of     *)
(* every insertion and deletion separately.                                *)
(***************************************************************************)

With(f, x, v) == [y \in DOMAIN f \cup {x} |-> IF y = x THEN v ELSE f[y]]
Without(f, S) == [y \in DOMAIN f \ S |-> f[y]]
Nothing == [x \in {} |-> {}]

\* The items on the list, the ids the hash finds and the objects that are
\* allocated are the same.
InStep(list, hash, objects) == list = hash /\ hash = DOMAIN objects
=============================================================================
