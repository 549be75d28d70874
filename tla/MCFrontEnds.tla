---------------------------- MODULE MCFrontEnds ----------------------------
(* Two hosts: an expiry pass may delete one and miss one.  Two tasks or      *)
(* descriptors: one lookup may end while the next request is in hand.        *)
EXTENDS FrontEnds
CONSTANTS h1, h2, b1, b2, d1, d2
MCHost == {h1, h2}
MCBlock == {b1, b2}
MCDescriptor == {d1, d2}
\* The front ends share nothing but the tables, so that one at a time shows
\* what may happen to each of them.
MCBuilds == {{f} : f \in Loop}
=============================================================================
