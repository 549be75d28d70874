----------------------------- MODULE MCFormats -----------------------------
(* Packets of nine bytes at most, strings of two, integers up to 12, and     *)
(* values that are nested twice; and DNS queries of two questions with names *)
(* of up to five characters.  A packet is the one or the other.              *)
EXTENDS Bencode, Dns
VARIABLE format

MCByte == {"d", "l", "i", "e", ":", "-", "0", "1", "2", "x"}
MCPayload == {"e", "1"}

Strings == {<<"s", s>> : s \in {<<"e">>, <<"1", "e">>}}
Leaves  == Strings \union {<<"i", n>> : n \in {-12, -1, 0, 2, 10, 12}}
Nested(ts) == ts \union {<<"l", s>> : s \in BoundedSeq(ts, 2)}
                 \union {<<"d", s>> : s \in BoundedSeq(Strings \X ts, 1)}
Few    == Strings \union {<<"i", -12>>}
MCTree == Nested(Leaves) \union Nested(Nested(Few))
                         \union {<<"d", s>> : s \in BoundedSeq(Strings \X Few, 2)}

MCLabelByte == HostByte \cup {".", Nul}

FormatsInit == /\ Init /\ DnsInit
               /\ \/ format = "bencode" /\ datagram = 0
                  \/ format = "dns" /\ size = 1
FormatsNext ==
  /\ \/ format = "bencode" /\ Next /\ UNCHANGED dnsvars
     \/ format = "dns" /\ dns_decode_query /\ UNCHANGED vars
  /\ UNCHANGED format
FormatsSpec == FormatsInit /\ [][FormatsNext]_<<vars, dnsvars, format>>
=============================================================================
