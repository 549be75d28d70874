------------------------------- MODULE Sweeps -------------------------------
(***************************************************************************)
(* What one pass over a list deletes.  masala writes this pass in two      *)
(* ways, both of which fetch the successor of an item before the item is   *)
(* deleted:                                                                *)
(*                                                                         *)
(*   while( item ) ...                     cache, lookup, announce         *)
(*   for( j=0; j<list->counter; j++ ) ...  database, neighborhood          *)
(*                                                                         *)
(* The second loop compares j with a counter that every deletion lowers,   *)
(* so it ends before it has seen the whole list.  SeenByCount says which   *)
(* positions it reaches.  Module List runs both loops step by step on the  *)
(* linked cells and checks them against these operators.                   *)
(***************************************************************************)
EXTENDS Naturals, Sequences, FiniteSets

\* Positions of s that hold an element of bad.
BadAt(s, bad) == {p \in DOMAIN s : s[p] \in bad}

\* The counted loop reaches position p iff p - 1, the value of j there, is
\* below the length less the deletions made on the way.
SeenByCount(s, bad) ==
  {p \in DOMAIN s : p + Cardinality({q \in BadAt(s, bad) : q < p}) <= Len(s)}

\* The list with only the positions of K left, in their old order: the item at
\* the i-th smallest position of K becomes the i-th.
Rank(K, p) == Cardinality({q \in K : q <= p})
Keep(s, K) ==
  IF K = DOMAIN s THEN s
  ELSE [i \in 1..Cardinality(K) |-> s[CHOOSE p \in K : Rank(K, p) = i]]

\* Positions the counted loop deletes, and the list it leaves.
SweptAt(s, bad) == BadAt(s, bad) \cap SeenByCount(s, bad)
CountedSweep(s, bad) == Keep(s, DOMAIN s \ SweptAt(s, bad))
=============================================================================
