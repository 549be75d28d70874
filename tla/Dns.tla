-------------------------------- MODULE Dns --------------------------------
(***************************************************************************)
(* The DNS format in masala-dns.c: how dns_decode_query walks over a       *)
(* datagram, and the response that dns_code_response makes of it.          *)
(*                                                                         *)
(* A byte is chosen when the walk reads it.  The buffer is longer than the *)
(* datagram and keeps older ones behind it, so that a byte read there may  *)
(* be anything too.  On the wire a domain is a sequence of labels, the     *)
(* empty one at its end; in the program it is a string with dots.          *)
(***************************************************************************)
EXTENDS Naturals, Sequences, FiniteSets, SequencesExt

CONSTANTS
  HostByte,      \* letters and digits, "-" and "_"
  LabelByte,     \* what labels may hold: those, ".", Nul and others
  Nul,           \* '\0'
  LabelLength,   \* lengths a label may state
  QName_Size,    \* size of qName_buffer, 256
  MaxQuestions,  \* bound: questions in a query
  MaxDatagram    \* bound: bytes behind the header

ASSUME DnsAssumption ==
  /\ HostByte \cup {".", Nul} \subseteq LabelByte
  /\ "." \notin HostByte /\ Nul \notin HostByte \cup {"."}
  /\ {MaxQuestions, MaxDatagram} \subseteq Nat
  /\ LabelLength \cup {QName_Size} \subseteq Nat \ {0}

VARIABLES
  datagram,  \* bytes received
  consumed,  \* bytes read of them, and behind them
  left,      \* "size": bytes left according to dns_decode_query
  count,     \* qdCount of the query
  passed,    \* questions that ask for something else than an address
  begin,     \* "beg": where the name that is read begins
  domain,    \* qName_buffer up to i
  labels,    \* history: the labels of this name
  stage      \* what is read next, or what became of the query

dnsvars == <<datagram, consumed, left, count, passed, begin, domain, labels, stage>>

HeaderSize == 12

DnsInit == /\ datagram \in 0..(HeaderSize + MaxDatagram)
           /\ consumed = 0 /\ left = datagram /\ begin = 0
           /\ count = 0 /\ passed = 0
           /\ domain = << >> /\ labels = << >>
           /\ stage = "header"

Refused == /\ stage' = "refused"
           /\ UNCHANGED <<datagram, consumed, left, count, passed, begin, domain, labels>>

\* The name behind this place, if there are questions left.
NextName(questions) == /\ begin' = consumed' /\ domain' = << >> /\ labels' = << >>
                       /\ stage' = IF questions > 0 THEN "name" ELSE "refused"

\* others: answers and records, which a query has none of.
dns_decode_header(qdCount, others) ==
  /\ stage = "header"
  /\ IF datagram < HeaderSize \/ others # 0
     THEN Refused
     ELSE /\ consumed' = HeaderSize
          /\ left' = left - HeaderSize
          /\ count' = qdCount
          /\ NextName(qdCount)
          /\ UNCHANGED <<datagram, passed>>

Dotted == IF domain = << >> THEN domain ELSE Append(domain, ".")

\* Faulty: the dot is not counted.
Fits_NoDot(len) == Len(domain) + len < QName_Size /\ Len(domain) + len < left

Fits(len) == Len(Dotted) + len < QName_Size /\ Len(Dotted) + len < left

\* One label of dns_decode_domain
DecodeLabel(len) ==
  /\ stage = "name"
  /\ IF Fits(len)
     THEN \E s \in [1..len -> LabelByte] :
            /\ domain' = Dotted \o s
            /\ labels' = Append(labels, s)
            /\ consumed' = consumed + 1 + len
            /\ UNCHANGED <<datagram, left, count, passed, begin, stage>>
     ELSE Refused

\* Its last byte.  Behind the name there have to be four bytes.
DecodeEnd ==
  LET rc == consumed + 1 - begin
  IN  /\ stage = "name"
      /\ IF left < rc + 4
         THEN Refused
         ELSE /\ consumed' = consumed + 1
              /\ left' = left - rc
              /\ stage' = "question"
              /\ UNCHANGED <<datagram, count, passed, begin, domain, labels>>

\* A C string ends at the first Nul.
CString(s) == IF Contains(s, Nul) THEN SubSeq(s, 1, SelectInSeq(s, LAMBDA c : c = Nul) - 1)
                                  ELSE s

str_isValidHostname(s) == ToSet(s) \subseteq HostByte \cup {"."}

\* Type and class.  They are not taken off "size".
DecodeType(aaaa) ==
  /\ stage = "question"
  /\ consumed' = consumed + 4
  /\ IF aaaa
     THEN /\ stage' = IF str_isValidHostname(CString(domain)) THEN "lookup" ELSE "refused"
          /\ UNCHANGED <<passed, begin, domain, labels>>
     ELSE /\ passed' = passed + 1
          /\ NextName(count - passed')
  /\ UNCHANGED <<datagram, left, count>>

dns_decode_query ==
  \/ \E qdCount \in 0..MaxQuestions, others \in 0..1 : dns_decode_header(qdCount, others)
  \/ \E len \in LabelLength : DecodeLabel(len)
  \/ DecodeEnd
  \/ \E aaaa \in BOOLEAN : DecodeType(aaaa)

DnsSpec == DnsInit /\ [][dns_decode_query]_dnsvars

-----------------------------------------------------------------------------
(* The response *)

\* The labels of a string whose first characters are begs, in this order; the
\* last of begs is where another label would begin.
Labels(c, begs) ==
  LET beg(k) == CHOOSE p \in begs : Cardinality({q \in begs : q <= p}) = k
  IN  [k \in 1..Cardinality(begs) - 1 |-> SubSeq(c, beg(k), beg(k + 1) - 2)]

Dots(c) == {p \in DOMAIN c : c[p] = "."}

\* Faulty: what is behind the last dot is left out.
dns_code_domain_ToLastDot(s) ==
  LET c == CString(s)
  IN  Append(Labels(c, {1} \cup {p + 1 : p \in Dots(c)}), << >>)

\* strchr finds one dot after the other; a label ends in front of it, and the
\* next one begins behind it.  The last label ends with the string.
dns_code_domain(s) ==
  LET c == CString(s)
  IN  Append(Labels(c, {1, Len(c) + 2} \cup {p + 1 : p \in Dots(c)}), << >>)

\* dns_reply and dns_code_response: the count is the one of the query, one
\* question and one answer follow.
dns_code_response ==
  [qdCount |-> count, question |-> dns_code_domain(domain),
   anCount |-> 1,     answer   |-> dns_code_domain(domain)]

-----------------------------------------------------------------------------
\* dns_decode_domain compares the length of the string, dots included, with a
\* size that does not move, and dns_decode_query the bytes of the name
\* afterwards: together they keep the string and its '\0' within qName_buffer,
\* and what is read of a question within the datagram.  (Each question passed
\* over moves this limit by four bytes, since its type and class are not taken
\* off "size".)
QueryIsRead ==
  /\ Len(domain) < QName_Size
  /\ stage # "header" => datagram < HeaderSize \/ consumed <= datagram + 4 * passed

\* A resolver that asks one question, for a name of a host, is sent a response
\* that repeats this question and answers it, label by label, although the
\* name was a string in between.  (A label with a dot in it, or the root, comes
\* back as another name.)
ResponseEchoes ==
  (/\ stage = "lookup" /\ count = 1 /\ labels # << >>
   /\ \A l \in ToSet(labels) : ToSet(l) \subseteq HostByte)
  => LET onWire == Append(labels, << >>)
     IN  dns_code_response = [qdCount |-> 1, question |-> onWire,
                              anCount |-> 1, answer   |-> onWire]
=============================================================================
