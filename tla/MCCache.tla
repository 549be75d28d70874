------------------------------- MODULE MCCache -------------------------------
(* Two session keys, each drawn again and again, over sixteen seconds; and   *)
(* the announcements of a node that knows two others.  They share the clock  *)
(* and are checked one at a time.                                            *)
EXTENDS Cache, Announce, TLC
VARIABLE table
CONSTANTS me, n1, n2
MCNode == {me, n1, n2}
Symmetry == Permutations(SessionId) \cup Permutations({n1, n2})

TableInit == Init /\ AnnounceInit /\ table \in {"cache", "announce"}
TableNext ==
  /\ \/ /\ table = "cache" /\ Next
        /\ UNCHANGED <<time_announce, made, announce, requests, idle, db, sent,
                       again, missed>>
     \/ /\ table = "announce" /\ AnnounceNext
        /\ UNCHANGED <<list, hash, sk, issued>>
  /\ UNCHANGED table
TableSpec == TableInit /\ [][TableNext]_<<vars, announcevars, table>>
=============================================================================
