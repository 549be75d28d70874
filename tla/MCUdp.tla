-------------------------------- MODULE MCUdp --------------------------------
(* Three workers and three datagrams, each of them empty or not.             *)
EXTENDS Udp
CONSTANTS t1, t2, t3
ThreeThreads == {t1, t2, t3}
=============================================================================
