------------------------------- MODULE MCList -------------------------------
(* Lists of four cells at most.  Tables of four objects, three of whose ids  *)
(* share a bucket of the hash.                                               *)
EXTENDS HashTable
CONSTANTS i1, i2, i3, i4, o1, o2, o3, o4, x1, x2, x3, x4
MCItem == {i1, i2, i3, i4}
MCPayload == {o1, o2, o3, o4}
MCId == {x1, x2, x3, x4}
MCindex == [id \in MCId |-> IF id = x4 THEN 1 ELSE 0]
Symmetry == Permutations(MCItem) \cup Permutations({o1, o2, o3, o4})
=============================================================================
