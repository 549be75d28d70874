------------------------------ MODULE MCLookup ------------------------------
(* Two requests and two lookups over nine seconds, one other node to ask.    *)
EXTENDS Lookup
=============================================================================
