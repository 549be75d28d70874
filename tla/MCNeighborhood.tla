--------------------------- MODULE MCNeighborhood ---------------------------
(* Ids of four bits; a bucket is split when it has more than one node, so   *)
(* that three neighbours reach the bucket lists of every depth.             *)
EXTENDS Neighborhood

\* Own ids below and above the first split point, 8, each with neighbours that
\* share long and short prefixes with it; the last one hears of its own id.
Own == {2, 7, 9, 14}
Lower == {2, 7}
Upper == {9, 14}
Peers(ids) == [me \in ids |-> IF me < 8 THEN {0, 3, 12} ELSE {1, 9, 15}]
OwnPeers == Peers(Own)
LowerPeers == Peers(Lower)
UpperPeers == Peers(Upper)
=============================================================================
