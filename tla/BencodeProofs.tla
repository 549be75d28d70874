---------------------------- MODULE BencodeProofs ----------------------------
(***************************************************************************)
(* The bencode functions, for values of any depth, packets of any length   *)
(* and any limits: three theorems, and one invariant for each, that builds *)
(* on the one before.                                                      *)
(*                                                                         *)
(* BencodeIInv: a packet is a row of tokens, the beginning or the end of a *)
(* list or dictionary, a string, a number. heads holds where ben_validate  *)
(* has come to between them (HeadsOK), the current token is read in part   *)
(* (Running), and ben_dec is between two of them, with a value under       *)
(* construction for each call that ben_validate was in (Decoding): so it   *)
(* stays in the packet.                                                    *)
(*                                                                         *)
(* BufferOK: marks holds the steps of ben_enc_size. What it has counted up *)
(* to one of them, less the ends of what is open, is where ben_enc_rec     *)
(* writes what the step stands for (Place): so it fills the buffer.        *)
(*                                                                         *)
(* ReceivedOK and DecodedOK: what is written at each mark is one token     *)
(* (MarkToken), and there is one way to read it (TokenOnce). ben_validate  *)
(* is therefore at the same marks, and what ben_dec has under construction *)
(* is what ben_enc_rec had been through there (Values): so the value is    *)
(* understood.                                                             *)
(***************************************************************************)
EXTENDS Bencode, SweepsProofs

(***************************************************************************)
(* Bytes and stacks.                                                       *)
(***************************************************************************)

\* The characters that have a meaning, and all there may be in a packet.
Mark  == {":", "-", "d", "l", "i", "e"}
Octet == Byte \cup Payload \cup Digit \cup Mark

\* A digit is not one of the other characters of the format.
LEMMA DigitIs == /\ Digit \cap Mark = {}
                 /\ Digit = {"0", "1", "2", "3", "4", "5", "6", "7", "8", "9"}
<1>1. DOMAIN Digits = 1..10
  BY DEF Digits
<1>2. Digit = {Digits[k] : k \in 1..10}
  BY <1>1 DEF Digit, ToSet
<1>3. \A k \in 1..10 : k = 1 \/ k = 2 \/ k = 3 \/ k = 4 \/ k = 5 \/ k = 6
                       \/ k = 7 \/ k = 8 \/ k = 9 \/ k = 10
  OBVIOUS
<1>4. Digit = {"0", "1", "2", "3", "4", "5", "6", "7", "8", "9"}
  BY <1>2, <1>3 DEF Digits
<1> QED BY <1>4 DEF Mark

\* A push, and what it leaves alone.
LEMMA Pushed ==
  ASSUME NEW S, NEW s \in Seq(S), NEW x \in S
  PROVE  /\ Append(s, x) \in Seq(S) /\ Append(s, x) # << >>
         /\ Len(Append(s, x)) = Len(s) + 1 /\ Len(s) \in Nat
         /\ \A i \in 1..Len(s) : Append(s, x)[i] = s[i]
         /\ Append(s, x)[Len(s) + 1] = x
         /\ Last(Append(s, x)) = x /\ Front(Append(s, x)) = s
<1>1. /\ Append(s, x) \in Seq(S) /\ Append(s, x) # << >>
      /\ Len(Append(s, x)) = Len(s) + 1 /\ Len(s) \in Nat
      /\ \A i \in 1..Len(s) : Append(s, x)[i] = s[i]
      /\ Append(s, x)[Len(s) + 1] = x
  BY AppendProperties, LenProperties
<1>2. Last(Append(s, x)) = x
  BY <1>1 DEF Last
<1>3. Front(Append(s, x)) = SubSeq(Append(s, x), 1, Len(s))
  BY <1>1 DEF Front
<1>4. \A i \in 1..Len(s) : Append(s, x)[i] \in S
  BY <1>1, ElementOfSeq
<1>5. /\ SubSeq(Append(s, x), 1, Len(s)) \in Seq(S)
      /\ Len(SubSeq(Append(s, x), 1, Len(s))) = Len(s)
      /\ \A i \in 1..Len(s) : SubSeq(Append(s, x), 1, Len(s))[i] = Append(s, x)[i]
  <2>1. /\ SubSeq(Append(s, x), 1, Len(s)) \in Seq(S)
        /\ Len(SubSeq(Append(s, x), 1, Len(s))) = IF 1 <= Len(s) THEN Len(s) - 1 + 1 ELSE 0
        /\ \A i \in 1..(Len(s) - 1 + 1) : SubSeq(Append(s, x), 1, Len(s))[i] = Append(s, x)[1 + i - 1]
    BY <1>1, <1>4, SubSeqProperties
  <2> QED BY <1>1, <2>1
<1>6. SubSeq(Append(s, x), 1, Len(s)) = s
  BY <1>1, <1>5, SeqEqual
<1> QED BY <1>1, <1>2, <1>3, <1>6

\* A pop.
LEMMA Popped ==
  ASSUME NEW S, NEW s \in Seq(S), s # << >>
  PROVE  /\ Front(s) \in Seq(S) /\ Last(s) \in S
         /\ Len(s) \in Nat \ {0} /\ Len(Front(s)) = Len(s) - 1
         /\ Len(Front(s)) = 0 <=> Front(s) = << >>
         /\ \A i \in 1..(Len(s) - 1) : Front(s)[i] = s[i]
<1>1. Len(s) \in Nat \ {0} /\ \A i \in 1..Len(s) : s[i] \in S
  BY EmptySeq, LenProperties, ElementOfSeq
<1>2. /\ SubSeq(s, 1, Len(s) - 1) \in Seq(S)
      /\ Len(SubSeq(s, 1, Len(s) - 1)) = IF 1 <= Len(s) - 1 THEN Len(s) - 1 - 1 + 1 ELSE 0
      /\ \A i \in 1..(Len(s) - 1 - 1 + 1) : SubSeq(s, 1, Len(s) - 1)[i] = s[1 + i - 1]
  <2>1. \A i \in 1..(Len(s) - 1) : s[i] \in S
    BY <1>1
  <2> QED BY <1>1, <2>1, SubSeqProperties
<1>3. Front(s) = SubSeq(s, 1, Len(s) - 1)
  BY DEF Front
<1>4. Len(Front(s)) = 0 <=> Front(s) = << >>
  BY <1>2, <1>3, EmptySeq
<1>5. Last(s) \in S
  BY <1>1 DEF Last
<1>6. Len(Front(s)) = Len(s) - 1
  <2>1. CASE Len(s) = 1
    BY <2>1, <1>2, <1>3
  <2>2. CASE Len(s) # 1
    <3>1. Len(s) \in Nat /\ Len(s) # 0
      BY <1>1
    <3>2. \A x \in Nat : x # 0 /\ x # 1 => 1 <= x - 1
      OBVIOUS
    <3>3. 1 <= Len(s) - 1
      BY <2>2, <3>1, <3>2
    <3>4. Len(Front(s)) = Len(s) - 1 - 1 + 1
      BY <3>3, <1>2, <1>3
    <3> QED BY <3>4, <1>1
  <2> QED BY <2>1, <2>2
<1>7. \A i \in 1..(Len(s) - 1) : Front(s)[i] = s[i]
  <2>1. \A i \in 1..(Len(s) - 1) : i \in 1..(Len(s) - 1 - 1 + 1) /\ 1 + i - 1 = i
    BY <1>1
  <2> QED BY <1>2, <1>3, <2>1
<1> QED BY <1>1, <1>2, <1>3, <1>4, <1>5, <1>6, <1>7

\* The top of a stack replaced.
LEMMA Replaced ==
  ASSUME NEW S, NEW s \in Seq(S), s # << >>, NEW x \in S
  PROVE  /\ Append(Front(s), x) \in Seq(S) /\ Append(Front(s), x) # << >>
         /\ Len(Append(Front(s), x)) = Len(s)
         /\ \A i \in 1..(Len(s) - 1) : Append(Front(s), x)[i] = s[i]
         /\ Append(Front(s), x)[Len(s)] = x
         /\ Last(Append(Front(s), x)) = x /\ Front(Append(Front(s), x)) = Front(s)
<1>1. /\ Front(s) \in Seq(S) /\ Len(s) \in Nat \ {0} /\ Len(Front(s)) = Len(s) - 1
      /\ \A i \in 1..(Len(s) - 1) : Front(s)[i] = s[i]
  BY Popped
<1>2. /\ Append(Front(s), x) \in Seq(S) /\ Append(Front(s), x) # << >>
      /\ Len(Append(Front(s), x)) = Len(Front(s)) + 1
      /\ \A i \in 1..Len(Front(s)) : Append(Front(s), x)[i] = Front(s)[i]
      /\ Append(Front(s), x)[Len(Front(s)) + 1] = x
      /\ Last(Append(Front(s), x)) = x /\ Front(Append(Front(s), x)) = Front(s)
  BY <1>1, Pushed
<1> QED BY <1>1, <1>2

\* c begins with the bytes of b.
Extends(b, c) == Len(b) <= Len(c) /\ \A i \in 1..Len(b) : c[i] = b[i]

\* What is behind other bytes stays what it is.
LEMMA SameSub ==
  ASSUME NEW S, NEW b \in Seq(S), NEW c \in Seq(S), Extends(b, c),
         NEW m \in Nat \ {0}, NEW n \in Nat, n <= Len(b)
  PROVE  SubSeq(c, m, n) = SubSeq(b, m, n)
<1> DEFINE B == SubSeq(b, m, n)
           C == SubSeq(c, m, n)
<1>1. Len(b) \in Nat /\ Len(c) \in Nat
  BY LenProperties
<1>2. \A i \in m..n : i \in 1..Len(b) /\ i \in 1..Len(c)
  BY <1>1 DEF Extends
<1>3. \A i \in m..n : b[i] \in S /\ c[i] \in S /\ c[i] = b[i]
  BY <1>2, ElementOfSeq DEF Extends
<1>4. /\ B \in Seq(S) /\ Len(B) = IF m <= n THEN n - m + 1 ELSE 0
      /\ \A i \in 1..(n - m + 1) : B[i] = b[m + i - 1]
  BY <1>3, SubSeqProperties
<1>5. /\ C \in Seq(S) /\ Len(C) = IF m <= n THEN n - m + 1 ELSE 0
      /\ \A i \in 1..(n - m + 1) : C[i] = c[m + i - 1]
  BY <1>3, SubSeqProperties
<1>6. \A i \in 1..Len(B) : C[i] = B[i]
  <2>1. SUFFICES ASSUME NEW i \in 1..Len(B) PROVE C[i] = B[i]
    OBVIOUS
  <2>2. i \in 1..(n - m + 1) /\ m + i - 1 \in m..n
    BY <1>4
  <2> QED BY <1>3, <1>4, <1>5, <2>2
<1> HIDE DEF B, C
<1>7. B = C
  BY <1>4, <1>5, <1>6, SeqEqual
<1> QED BY <1>7 DEF B, C

\* A part of a sequence.
LEMMA SliceIs ==
  ASSUME NEW S, NEW b \in Seq(S), NEW m \in Nat \ {0}, NEW n \in Nat, n <= Len(b), m <= n + 1
  PROVE  /\ SubSeq(b, m, n) \in Seq(S) /\ Len(SubSeq(b, m, n)) = n + 1 - m
         /\ \A i \in 1..(n + 1 - m) : SubSeq(b, m, n)[i] = b[m + i - 1]
<1>1. Len(b) \in Nat
  BY LenProperties
<1>2. \A i \in m..n : b[i] \in S
  BY <1>1, ElementOfSeq
<1>3. /\ SubSeq(b, m, n) \in Seq(S)
      /\ Len(SubSeq(b, m, n)) = IF m <= n THEN n - m + 1 ELSE 0
      /\ \A i \in 1..(n - m + 1) : SubSeq(b, m, n)[i] = b[m + i - 1]
  BY <1>2, SubSeqProperties
<1> QED BY <1>3

\* What is put behind something.
LEMMA Joined ==
  ASSUME NEW S, NEW s \in Seq(S), NEW t \in Seq(S)
  PROVE  /\ s \o t \in Seq(S) /\ Len(s \o t) = Len(s) + Len(t) /\ Len(s) \in Nat /\ Len(t) \in Nat
         /\ \A i \in 1..Len(s) : (s \o t)[i] = s[i]
         /\ \A i \in 1..Len(t) : (s \o t)[Len(s) + i] = t[i]
<1> DEFINE c == s \o t
<1>1. Len(s) \in Nat /\ Len(t) \in Nat
  BY LenProperties
<1>2. /\ c \in Seq(S) /\ Len(c) = Len(s) + Len(t)
      /\ \A i \in 1..(Len(s) + Len(t)) : c[i] = IF i <= Len(s) THEN s[i] ELSE t[i - Len(s)]
  BY ConcatProperties
<1> HIDE DEF c
<1>3. \A i \in 1..Len(s) : c[i] = s[i]
  BY <1>1, <1>2
<1>4. ASSUME NEW i \in 1..Len(t) PROVE c[Len(s) + i] = t[i]
  <2>1. PICK x \in Nat, y \in Nat : x = Len(s) /\ y = Len(t)
    BY <1>1
  <2>2. x + i \in 1..(x + y) /\ ~(x + i <= x) /\ x + i - x = i
    BY <2>1
  <2> QED BY <1>2, <2>1, <2>2
<1> QED BY <1>1, <1>2, <1>3, <1>4 DEF c

\* So many elements behind a place.
LEMMA SliceAt ==
  ASSUME NEW S, NEW b \in Seq(S), NEW a \in Nat, NEW n \in Nat, a + n <= Len(b)
  PROVE  /\ SubSeq(b, a + 1, a + n) \in Seq(S) /\ Len(SubSeq(b, a + 1, a + n)) = n
         /\ \A i \in 1..n : SubSeq(b, a + 1, a + n)[i] = b[a + i]
<1> DEFINE t == SubSeq(b, a + 1, a + n)
<1>1. PICK lo \in Nat \ {0}, hi \in Nat : lo = a + 1 /\ hi = a + n
  <2>1. a + 1 \in Nat \ {0} /\ a + n \in Nat
    OBVIOUS
  <2> QED BY <2>1
<1>2. hi <= Len(b) /\ lo <= hi + 1 /\ hi + 1 - lo = n
  <2>1. hi <= Len(b)
    BY <1>1
  <2>2. \A x, y \in Nat : x + 1 <= x + y + 1 /\ x + y + 1 - (x + 1) = y
    OBVIOUS
  <2> QED BY <2>1, <2>2, <1>1
<1>3. /\ t \in Seq(S) /\ Len(t) = hi + 1 - lo
      /\ \A i \in 1..(hi + 1 - lo) : t[i] = b[lo + i - 1]
  BY <1>1, <1>2, SliceIs
<1> HIDE DEF t
<1>4. \A i \in 1..n : lo + i - 1 = a + i
  BY <1>1
<1>5. t \in Seq(S) /\ Len(t) = n /\ \A i \in 1..n : t[i] = b[a + i]
  BY <1>2, <1>3, <1>4
<1> QED BY <1>5 DEF t

\* A part of a sequence that is known.
LEMMA SliceEq ==
  ASSUME NEW S, NEW b \in Seq(S), NEW s \in Seq(S), NEW a \in Nat, a + Len(s) <= Len(b),
         \A i \in 1..Len(s) : b[a + i] = s[i]
  PROVE  SubSeq(b, a + 1, a + Len(s)) = s
<1>1. PICK n \in Nat : n = Len(s)
  BY LenProperties
<1>2. a + n <= Len(b)
  BY <1>1
<1>3. /\ SubSeq(b, a + 1, a + n) \in Seq(S) /\ Len(SubSeq(b, a + 1, a + n)) = n
      /\ \A i \in 1..n : SubSeq(b, a + 1, a + n)[i] = b[a + i]
  BY <1>2, SliceAt
<1>4. SubSeq(b, a + 1, a + n) = s
  BY <1>1, <1>3, SeqEqual
<1> QED BY <1>1, <1>4

(***************************************************************************)
(* What ben_validate reads at once: the beginning or the end of a list or  *)
(* dictionary, a string or a number.                                       *)
(***************************************************************************)

\* The functions that wait for the value which comes next, or has come.
Base(cs) == IF Last(cs) = "r" THEN Front(cs) ELSE cs
AfterStr(cs) == IF Last(cs) = "d" THEN Append(cs, "r") ELSE Base(cs)

\* Behind a: n digits, that say l, and l bytes.
StringAt(b, a, n, l) ==
  /\ n \in Nat \ {0} /\ n <= StrMaxLen /\ l \in 1..StrMaxSize
  /\ a + n + 1 + l <= Len(b)
  /\ \A k \in 1..n : b[a + k] \in Digit
  /\ b[a + n + 1] = ":"
  /\ atol(SubSeq(b, a + 1, a + n)) = l

\* Behind a: "i", m signs, n digits and "e".
NumberAt(b, a, m, n) ==
  /\ m \in 0..1 /\ n \in Nat \ {0} /\ n <= IntMaxLen
  /\ a + m + n + 2 <= Len(b)
  /\ b[a + 1] = "i" /\ (m = 1 => b[a + 2] = "-")
  /\ \A k \in 1..n : b[a + 1 + m + k] \in Digit
  /\ b[a + m + n + 2] = "e"
  /\ atol(SubSeq(b, a + m + 2, a + m + n + 1)) <= IntMaxSize

\* The steps from h to g, which are places where ben_validate looks at what
\* comes next.
Begins(b, h, g) == /\ Last(h.calls) \in {"r", "l"}
                   /\ g.at = h.at + 1 /\ g.at <= Len(b)
                   /\ b[h.at + 1] \in {"d", "l"}
                   /\ g.calls = Append(Base(h.calls), b[h.at + 1])
Ends(b, h, g) == /\ Last(h.calls) \in {"d", "l"}
                 /\ g.at = h.at + 1 /\ g.at <= Len(b)
                 /\ b[h.at + 1] = "e"
                 /\ g.calls = Front(h.calls)
IsString(b, h, g) == \E n, l \in Nat :
                       /\ StringAt(b, h.at, n, l)
                       /\ g.at = h.at + n + 1 + l
                       /\ g.calls = AfterStr(h.calls)
IsNumber(b, h, g) == /\ Last(h.calls) \in {"r", "l"}
                     /\ \E m, n \in Nat :
                          /\ NumberAt(b, h.at, m, n)
                          /\ g.at = h.at + m + n + 2
                     /\ g.calls = Base(h.calls)
Token(b, h, g) == /\ h.calls # << >>
                  /\ \/ Begins(b, h, g) \/ Ends(b, h, g)
                     \/ IsString(b, h, g) \/ IsNumber(b, h, g)

\* The functions of ben_validate, and a place between two tokens.
CallName == {"r", "d", "l", "s", "i"}
Head_   == [at : Nat, calls : Seq(CallName)]

\* ben_validate_r is called last, by what has room for a value.
Neat(cs) == /\ \A i \in 1..(Len(cs) - 1) : cs[i] \in {"d", "l"}
            /\ cs # << >> => Last(cs) \in {"r", "d", "l"}

\* What has been read stays read.
LEMMA StringStays ==
  ASSUME NEW b \in Seq(Octet), NEW c \in Seq(Octet), Extends(b, c),
         NEW a \in Nat, NEW n \in Nat, NEW l \in Nat, StringAt(b, a, n, l)
  PROVE  StringAt(c, a, n, l)
<1>1. Len(b) \in Nat /\ Len(c) \in Nat /\ Len(b) <= Len(c) /\ a + n + 1 + l <= Len(b) /\ n >= 1 /\ l >= 1
  BY LenProperties DEF Extends, StringAt
<1>2. \A k \in 1..n : a + k \in 1..Len(b)
  BY <1>1
<1>3. a + n + 1 \in 1..Len(b)
  BY <1>1
<1>4. SubSeq(c, a + 1, a + n) = SubSeq(b, a + 1, a + n)
  <2>1. a + 1 \in Nat \ {0} /\ a + n \in Nat /\ a + n <= Len(b)
    BY <1>1
  <2> QED BY <2>1, SameSub
<1>5. \A k \in 1..n : c[a + k] = b[a + k]
  BY <1>2 DEF Extends
<1>6. c[a + n + 1] = b[a + n + 1]
  BY <1>3 DEF Extends
<1>7. a + n + 1 + l <= Len(c)
  BY <1>1
<1> QED BY <1>4, <1>5, <1>6, <1>7 DEF StringAt

\* A number is still there when more has been read.
LEMMA NumberStays ==
  ASSUME NEW b \in Seq(Octet), NEW c \in Seq(Octet), Extends(b, c),
         NEW a \in Nat, NEW m \in Nat, NEW n \in Nat, NumberAt(b, a, m, n)
  PROVE  NumberAt(c, a, m, n)
<1>1. Len(b) \in Nat /\ Len(c) \in Nat /\ Len(b) <= Len(c) /\ a + m + n + 2 <= Len(b) /\ n >= 1
  BY LenProperties DEF Extends, NumberAt
<1>2. \A k \in 1..n : a + 1 + m + k \in 1..Len(b)
  BY <1>1
<1>3. a + 1 \in 1..Len(b) /\ a + 2 \in 1..Len(b) /\ a + m + n + 2 \in 1..Len(b)
  BY <1>1
<1>4. \A k \in 1..n : c[a + 1 + m + k] = b[a + 1 + m + k]
  BY <1>2 DEF Extends
<1>5. c[a + 1] = b[a + 1] /\ c[a + 2] = b[a + 2] /\ c[a + m + n + 2] = b[a + m + n + 2]
  BY <1>3 DEF Extends
<1>6. a + m + n + 2 <= Len(c)
  BY <1>1
<1>7. SubSeq(c, a + m + 2, a + m + n + 1) = SubSeq(b, a + m + 2, a + m + n + 1)
  <2>1. /\ a + m + 2 \in Nat \ {0} /\ a + m + n + 1 \in Nat
        /\ a + m + n + 1 <= Len(b)
    BY <1>1
  <2> QED BY <2>1, SameSub
<1> QED BY <1>4, <1>5, <1>6, <1>7 DEF NumberAt

\* What has been read is still there when more has been read.
LEMMA TokenStays ==
  ASSUME NEW b \in Seq(Octet), NEW c \in Seq(Octet), Extends(b, c),
         NEW h \in Head_, NEW g \in Head_, Token(b, h, g)
  PROVE  Token(c, h, g)
<1>1. Len(b) \in Nat /\ Len(c) \in Nat /\ Len(b) <= Len(c) /\ h.at \in Nat
  BY LenProperties DEF Extends, Head_
<1>2. CASE Begins(b, h, g)
  <2>1. h.at + 1 \in 1..Len(b)
    BY <1>1, <1>2 DEF Begins
  <2>2. c[h.at + 1] = b[h.at + 1] /\ h.at + 1 <= Len(c)
    BY <1>1, <2>1 DEF Extends
  <2> QED BY <1>2, <2>2 DEF Begins, Token
<1>3. CASE Ends(b, h, g)
  <2>1. h.at + 1 \in 1..Len(b)
    BY <1>1, <1>3 DEF Ends
  <2>2. c[h.at + 1] = b[h.at + 1] /\ h.at + 1 <= Len(c)
    BY <1>1, <2>1 DEF Extends
  <2> QED BY <1>3, <2>2 DEF Ends, Token
<1>4. CASE IsString(b, h, g)
  <2>1. IsString(c, h, g)
    BY <1>1, <1>4, StringStays DEF IsString
  <2> QED BY <2>1 DEF Token
<1>5. CASE IsNumber(b, h, g)
  <2>1. IsNumber(c, h, g)
    BY <1>1, <1>5, NumberStays DEF IsNumber
  <2> QED BY <2>1 DEF Token
<1> QED BY <1>2, <1>3, <1>4, <1>5 DEF Token

\* Where the next thing is read after a thing.
LEMMA TokenKeepsNeat ==
  ASSUME NEW b \in Seq(Octet), NEW h \in Head_, NEW g \in Head_, Token(b, h, g),
         Neat(h.calls)
  PROVE  /\ Neat(g.calls) /\ g.calls # <<"r">>
         /\ h.at < g.at /\ g.at <= Len(b)
<1> DEFINE cs == h.calls
<1>1. cs \in Seq(CallName) /\ cs # << >> /\ h.at \in Nat
  BY DEF Token, Head_
<1>2. /\ Front(cs) \in Seq(CallName) /\ Len(cs) \in Nat \ {0} /\ Len(Front(cs)) = Len(cs) - 1
      /\ \A i \in 1..(Len(cs) - 1) : Front(cs)[i] = cs[i]
      /\ Last(cs) = cs[Len(cs)]
      /\ Len(Front(cs)) = 0 <=> Front(cs) = << >>
  BY <1>1, Popped DEF Last
<1>3. \A i \in 1..(Len(cs) - 1) : cs[i] \in {"d", "l"}
  BY DEF Neat
<1>4. \A i \in 1..Len(Front(cs)) : Front(cs)[i] \in {"d", "l"}
  BY <1>2, <1>3
<1>5. \A i \in 1..Len(Base(cs)) : Base(cs)[i] \in {"d", "l"}
  <2>1. CASE Last(cs) = "r"
    BY <2>1, <1>4 DEF Base
  <2>2. CASE Last(cs) # "r"
    <3>1. Last(cs) \in {"d", "l"}
      BY <2>2, <1>1 DEF Neat
    <3>2. \A i \in 1..Len(cs) : i \in 1..(Len(cs) - 1) \/ i = Len(cs)
      BY <1>2
    <3> QED BY <2>2, <3>1, <3>2, <1>2, <1>3 DEF Base
  <2> QED BY <2>1, <2>2
<1>6. Base(cs) \in Seq(CallName) /\ Len(Base(cs)) \in Nat
  <2>1. Base(cs) \in Seq(CallName)
    BY <1>1, <1>2 DEF Base
  <2> QED BY <2>1, LenProperties
<1>7. ASSUME NEW ds \in Seq(CallName), \A i \in 1..Len(ds) : ds[i] \in {"d", "l"}
      PROVE  Neat(ds) /\ ds # <<"r">>
  <2>1. Len(ds) \in Nat /\ (ds # << >> => Len(ds) >= 1)
    BY LenProperties, EmptySeq
  <2>2. ds # << >> => Last(ds) \in {"d", "l"}
    BY <2>1, <1>7 DEF Last
  <2>3. Len(<<"r">>) = 1 /\ <<"r">>[1] = "r"
    OBVIOUS
  <2>4. ds # <<"r">>
    <3>1. SUFFICES ASSUME ds = <<"r">> PROVE FALSE
      OBVIOUS
    <3>2. 1 \in 1..Len(ds) /\ ds[1] = "r"
      BY <3>1, <2>3
    <3> QED BY <3>2, <1>7
  <2>5. \A i \in 1..(Len(ds) - 1) : i \in 1..Len(ds)
    BY <2>1
  <2> QED BY <2>2, <2>4, <2>5, <1>7 DEF Neat
<1>8. CASE Begins(b, h, g)
  <2> DEFINE c == b[h.at + 1]
  <2>1. c \in {"d", "l"} /\ c \in CallName
    BY <1>8 DEF Begins, CallName
  <2>2. /\ Append(Base(cs), c) \in Seq(CallName)
        /\ Len(Append(Base(cs), c)) = Len(Base(cs)) + 1
        /\ \A i \in 1..Len(Base(cs)) : Append(Base(cs), c)[i] = Base(cs)[i]
        /\ Append(Base(cs), c)[Len(Base(cs)) + 1] = c
    BY <1>6, <2>1, Pushed
  <2>3. \A i \in 1..Len(Append(Base(cs), c)) : Append(Base(cs), c)[i] \in {"d", "l"}
    <3>1. \A i \in 1..(Len(Base(cs)) + 1) : i \in 1..Len(Base(cs)) \/ i = Len(Base(cs)) + 1
      BY <1>6
    <3> QED BY <3>1, <2>1, <2>2, <1>5
  <2>4. g.calls = Append(Base(cs), c) /\ h.at < g.at /\ g.at <= Len(b)
    BY <1>8, <1>1 DEF Begins
  <2> QED BY <2>2, <2>3, <2>4, <1>7
<1>9. CASE Ends(b, h, g)
  <2>1. g.calls = Front(cs) /\ h.at < g.at /\ g.at <= Len(b)
    BY <1>9, <1>1 DEF Ends
  <2> QED BY <2>1, <1>2, <1>4, <1>7
<1>10. ASSUME g.calls = Base(cs) PROVE Neat(g.calls) /\ g.calls # <<"r">>
  BY <1>10, <1>5, <1>6, <1>7
<1>11. CASE IsString(b, h, g)
  <2>1. h.at < g.at /\ g.at <= Len(b)
    <3>1. PICK n, l \in Nat : StringAt(b, h.at, n, l) /\ g.at = h.at + n + 1 + l
      BY <1>11 DEF IsString
    <3> QED BY <3>1, <1>1 DEF StringAt
  <2>2. CASE Last(cs) = "d"
    <3>1. g.calls = Append(cs, "r")
      BY <2>2, <1>11 DEF IsString, AfterStr
    <3>2. "r" \in CallName
      BY DEF CallName
    <3>3. /\ Len(Append(cs, "r")) = Len(cs) + 1 /\ Last(Append(cs, "r")) = "r"
          /\ \A i \in 1..Len(cs) : Append(cs, "r")[i] = cs[i]
      BY <3>2, <1>1, Pushed
    <3>4. Base(cs) = cs
      BY <2>2 DEF Base
    <3>5. Neat(g.calls)
      BY <3>1, <3>3, <3>4, <1>5, <1>2 DEF Neat
    <3>6. g.calls # <<"r">>
      <4>1. Len(g.calls) = Len(cs) + 1 /\ Len(cs) \in Nat /\ Len(cs) >= 1
        BY <3>1, <3>3, <1>2
      <4>2. PICK x \in Nat : x = Len(cs) /\ x >= 1
        BY <4>1
      <4>3. Len(g.calls) = x + 1
        BY <4>1, <4>2
      <4>4. \A y \in Nat : y >= 1 => y + 1 # 1
        OBVIOUS
      <4>5. Len(g.calls) # 1
        BY <4>2, <4>3, <4>4
      <4>6. Len(<<"r">>) = 1
        OBVIOUS
      <4> QED BY <4>5, <4>6
    <3> QED BY <3>5, <3>6, <2>1
  <2>3. CASE Last(cs) # "d"
    BY <2>1, <2>3, <1>10, <1>11 DEF IsString, AfterStr
  <2> QED BY <2>2, <2>3
<1>12. CASE IsNumber(b, h, g)
  <2>1. h.at < g.at /\ g.at <= Len(b)
    <3>1. PICK m, n \in Nat : NumberAt(b, h.at, m, n) /\ g.at = h.at + m + n + 2
      BY <1>12 DEF IsNumber
    <3> QED BY <3>1, <1>1 DEF NumberAt
  <2> QED BY <2>1, <1>10, <1>12 DEF IsNumber
<1> QED BY <1>8, <1>9, <1>11, <1>12 DEF Token

(***************************************************************************)
(* The steps of ben_validate.                                              *)
(***************************************************************************)

\* Where ben_validate began to read what it is reading.
Hd == Last(heads)

\* b ends with the digits ds of a string.
InString(b, cs, ds, h) ==
  /\ cs = Append(AfterStr(h.calls), "s")
  /\ ds # << >> /\ Len(b) = h.at + Len(ds)
  /\ ds = SubSeq(b, h.at + 1, h.at + Len(ds))

\* b ends with the digits ds of a number, or before them.
InNumber(b, cs, ds, h) ==
  /\ cs = Append(Base(h.calls), "i") /\ Last(h.calls) \in {"r", "l"}
  /\ \E m \in 0..1 :
       /\ Len(b) = h.at + 1 + m + Len(ds)
       /\ b[h.at + 1] = "i" /\ (m = 1 => b[h.at + 2] = "-")
       /\ \A k \in 1..Len(ds) : b[h.at + 1 + m + k] = ds[k]

\* ben_validate has not begun, or has read a part of a string or a number.
AtHead == Hd.at = Len(raw) /\ Hd.calls = calls

Running == /\ calls # << >> /\ Hd.calls # << >>
           /\ \/ AtHead /\ Len(raw) < size
              \/ InString(raw, calls, num, Hd)
              \/ InNumber(raw, calls, num, Hd)

\* The types, and that ben_validate is in the packet.
PacketTypeOK ==
  /\ raw \in Seq(Octet) /\ sent \in Seq(Octet)
  /\ size \in Nat /\ Len(raw) <= size
  /\ calls \in Seq(CallName) /\ num \in Seq(Digit)
  /\ heads \in Seq(Head_) /\ heads # << >>
  /\ result \in {"sizing", "encoding", "unsent", "running", "broken", "valid",
                 "decoded", "lost"}

\* The packet is not sent yet.
Early == {"sizing", "encoding", "unsent"}

\* The packet that a node has made is received as it has been sent.
Delivered == /\ result \in Early => value # << >>
             /\ value # << >> /\ result \notin Early => size = Len(sent)
             /\ result = "encoding" => alloc > 0

\* The place behind a step of ben_validate.
Next_ == [at |-> Len(raw'), calls |-> calls']
ReadMore == /\ raw' \in Seq(Octet) /\ Len(raw') <= size /\ Extends(raw, raw')
            /\ calls' \in Seq(CallName) /\ num' \in Seq(Digit)
Arrived == /\ Token(raw', Hd, Next_)
           /\ \/ calls' = << >> /\ result' = "valid"
              \/ calls' # << >> /\ result' = "running" /\ Len(raw') < size
GoesOn == /\ result' = "running" /\ calls' # << >> /\ Last(calls') \in {"s", "i"}
          /\ InString(raw', calls', num', Hd) \/ InNumber(raw', calls', num', Hd)

\* What a step of ben_validate does.
Outcome == result' = "broken" \/ Arrived \/ GoesOn

\* One byte.
LEMMA ReadsByte ==
  ASSUME PacketTypeOK, NEW c \in Octet, Read(c)
  PROVE  /\ raw' \in Seq(Octet) /\ Len(raw') = Len(raw) + 1 /\ Len(raw) \in Nat
         /\ Extends(raw, raw') /\ raw'[Len(raw) + 1] = c
         /\ \A i \in 1..Len(raw) : raw'[i] = raw[i]
<1>1. /\ raw' \in Seq(Octet) /\ Len(raw') = Len(raw) + 1 /\ Len(raw) \in Nat
      /\ \A i \in 1..Len(raw) : raw'[i] = raw[i]
      /\ raw'[Len(raw) + 1] = c
  BY Pushed DEF PacketTypeOK, Read
<1> QED BY <1>1 DEF Extends

\* The next byte, from elsewhere or written by a node.
LEMMA ByteIsOctet ==
  ASSUME PacketTypeOK, Delivered, result = "running", Len(raw) < size,
         NEW c \in NextByte
  PROVE  c \in Octet
<1>1. CASE value = << >>
  BY <1>1 DEF NextByte, Octet
<1>2. CASE value # << >>
  <2>1. size = Len(sent)
    BY <1>2 DEF Delivered, Early
  <2>2. Len(raw) \in Nat /\ Len(sent) \in Nat
    BY LenProperties DEF PacketTypeOK
  <2>3. Len(raw) + 1 \in 1..Len(sent)
    BY <2>1, <2>2
  <2>4. sent[Len(raw) + 1] \in Octet
    BY <2>3, ElementOfSeq DEF PacketTypeOK
  <2> QED BY <1>2, <2>4 DEF NextByte
<1> QED BY <1>1, <1>2

\* The text of a string.
LEMMA TextIs ==
  ASSUME PacketTypeOK, Delivered, result = "running",
         NEW n \in Nat \ {0}, Len(raw) + 1 + n <= size, NEW s \in Text(n)
  PROVE  s \in Seq(Octet) /\ Len(s) = n
<1>1. CASE value = << >>
  <2>1. s \in [1..n -> Octet]
    BY <1>1 DEF Text, Octet
  <2> QED BY <2>1, ASeq
<1>2. CASE value # << >>
  <2>1. size = Len(sent)
    BY <1>2 DEF Delivered, Early
  <2>2. Len(raw) \in Nat /\ Len(sent) \in Nat
    BY LenProperties DEF PacketTypeOK
  <2>3. /\ Len(raw) + 2 \in Nat \ {0} /\ Len(raw) + 1 + n \in Nat
        /\ Len(raw) + 1 + n <= Len(sent) /\ Len(raw) + 2 <= Len(raw) + 1 + n + 1
        /\ Len(raw) + 1 + n + 1 - (Len(raw) + 2) = n
    BY <2>1, <2>2
  <2>4. s = SubSeq(sent, Len(raw) + 2, Len(raw) + 1 + n)
    BY <1>2 DEF Text
  <2> QED BY <2>3, <2>4, SliceIs DEF PacketTypeOK
<1> QED BY <1>1, <1>2

\* The parts of a stack of calls.
LEMMA CallsAre ==
  ASSUME NEW cs \in Seq(CallName), cs # << >>
  PROVE  /\ Front(cs) \in Seq(CallName) /\ Base(cs) \in Seq(CallName)
         /\ AfterStr(cs) \in Seq(CallName)
         /\ \A c \in CallName : /\ Append(cs, c) \in Seq(CallName)
                                /\ Append(cs, c) # << >>
                                /\ Last(Append(cs, c)) = c
                                /\ Front(Append(cs, c)) = cs
                                /\ Append(Base(cs), c) \in Seq(CallName)
                                /\ Append(Base(cs), c) # << >>
                                /\ Last(Append(Base(cs), c)) = c
                                /\ Front(Append(Base(cs), c)) = Base(cs)
                                /\ Append(AfterStr(cs), c) \in Seq(CallName)
                                /\ Append(AfterStr(cs), c) # << >>
                                /\ Last(Append(AfterStr(cs), c)) = c
                                /\ Front(Append(AfterStr(cs), c)) = AfterStr(cs)
<1>1. Front(cs) \in Seq(CallName)
  BY Popped
<1>2. Base(cs) \in Seq(CallName)
  BY <1>1 DEF Base
<1>3. "r" \in CallName
  BY DEF CallName
<1>4. AfterStr(cs) \in Seq(CallName)
  BY <1>2, <1>3, Pushed DEF AfterStr
<1>5. ASSUME NEW ds \in Seq(CallName), NEW c \in CallName
      PROVE  /\ Append(ds, c) \in Seq(CallName) /\ Append(ds, c) # << >>
             /\ Last(Append(ds, c)) = c /\ Front(Append(ds, c)) = ds
  BY Pushed
<1> QED BY <1>1, <1>2, <1>4, <1>5

\* A return to the callers.
LEMMA ReturnsTo ==
  ASSUME PacketTypeOK, calls # << >>, result = "running", Return
  PROVE  \/ result' = "broken" /\ calls' = calls /\ num' = num
         \/ /\ calls' = Front(calls) /\ num' \in Seq(Digit)
            /\ \/ calls' = << >> /\ result' = "valid"
               \/ calls' # << >> /\ result' = "running" /\ Len(raw') < size
<1>1. CASE Front(calls) = << >>
  BY <1>1 DEF Return, PacketTypeOK
<1>2. CASE Front(calls) # << >>
  <2>1. Enter(Front(calls))
    BY <1>2 DEF Return
  <2>2. << >> \in Seq(Digit)
    BY EmptySeq
  <2> QED BY <1>2, <2>1, <2>2 DEF Enter, Call, Broken, PacketTypeOK
<1> QED BY <1>1, <1>2

\* ben_validate_r at the beginning of a value.
LEMMA ValueBegins ==
  ASSUME PacketTypeOK, calls # << >>, AtHead, Len(raw) < size, result = "running",
         Last(calls) \in {"r", "l"},
         NEW c \in Octet, Read(c), ben_validate_r(Base(calls), c)
  PROVE  Outcome /\ ReadMore
<1>1. /\ raw' \in Seq(Octet) /\ Len(raw') = Len(raw) + 1 /\ Len(raw) \in Nat
      /\ Extends(raw, raw') /\ raw'[Len(raw) + 1] = c
  BY ReadsByte
<1>2. Len(raw') <= size
  BY <1>1 DEF PacketTypeOK
<1>3. calls \in Seq(CallName) /\ num \in Seq(Digit) /\ << >> \in Seq(Digit)
  BY EmptySeq DEF PacketTypeOK
<1>4. \A x \in CallName : /\ Append(Base(calls), x) \in Seq(CallName)
                          /\ Append(Base(calls), x) # << >>
                          /\ Last(Append(Base(calls), x)) = x
  BY <1>3, CallsAre
<1>5. Hd.at = Len(raw) /\ Hd.calls = calls
  BY DEF AtHead
<1>6. CASE c \in Digit
  <2>1. calls' = Append(Base(calls), "s") /\ num' = <<c>> /\ result' = "running"
    BY <1>6 DEF ben_validate_r, Call
  <2>2. "s" \in CallName /\ num' \in Seq(Digit) /\ num' # << >> /\ Len(num') = 1 /\ num'[1] = c
    BY <2>1, <1>6 DEF CallName
  <2>3. calls' = Append(AfterStr(Hd.calls), "s")
    BY <2>1, <1>5 DEF AfterStr
  <2>4. SubSeq(raw', Hd.at + 1, Hd.at + Len(num')) = num'
    <3>1. /\ Hd.at + 1 \in Nat \ {0} /\ Hd.at + 1 <= Len(raw') /\ Hd.at + 1 \in Nat
          /\ Hd.at + 1 <= Hd.at + 1 + 1 /\ Hd.at + 1 + 1 - (Hd.at + 1) = 1
          /\ Hd.at + 1 + 1 - 1 = Hd.at + 1
      BY <1>1, <1>5
    <3>2. /\ SubSeq(raw', Hd.at + 1, Hd.at + 1) \in Seq(Octet)
          /\ Len(SubSeq(raw', Hd.at + 1, Hd.at + 1)) = 1
          /\ SubSeq(raw', Hd.at + 1, Hd.at + 1)[1] = raw'[Hd.at + 1]
      <4>1. /\ SubSeq(raw', Hd.at + 1, Hd.at + 1) \in Seq(Octet)
            /\ Len(SubSeq(raw', Hd.at + 1, Hd.at + 1)) = Hd.at + 1 + 1 - (Hd.at + 1)
            /\ \A i \in 1..(Hd.at + 1 + 1 - (Hd.at + 1)) :
                 SubSeq(raw', Hd.at + 1, Hd.at + 1)[i] = raw'[Hd.at + 1 + i - 1]
        BY <3>1, <1>1, SliceIs
      <4> QED BY <4>1, <3>1
    <3>3. num' \in Seq(Octet)
      BY <2>2, SeqMonotonic DEF Octet
    <3>4. \A i \in 1..1 : i = 1
      OBVIOUS
    <3> QED BY <3>2, <3>3, <3>4, <2>2, <1>1, <1>5, SeqEqual
  <2>5. InString(raw', calls', num', Hd)
    BY <2>2, <2>3, <2>4, <1>1, <1>5 DEF InString
  <2>6. Last(calls') = "s" /\ calls' # << >> /\ calls' \in Seq(CallName)
    BY <1>4, <2>1, <2>2
  <2> QED BY <2>1, <2>2, <2>5, <2>6, <1>1, <1>2 DEF Outcome, GoesOn, ReadMore
<1>7. CASE c \notin Digit /\ c \in {"d", "l", "i"}
  <2>1. c \in CallName
    BY <1>7 DEF CallName
  <2>2. CASE ~(Len(raw') < size)
    <3>1. result' = "broken" /\ calls' = calls /\ num' = num
      BY <1>7, <2>2 DEF ben_validate_r, Enter, Broken
    <3> QED BY <3>1, <1>1, <1>2, <1>3 DEF Outcome, ReadMore
  <2>3. CASE Len(raw') < size
    <3>1. calls' = Append(Base(calls), c) /\ num' = << >> /\ result' = "running"
      BY <1>7, <2>3 DEF ben_validate_r, Enter, Call
    <3>2. calls' \in Seq(CallName) /\ calls' # << >> /\ Last(calls') = c
      BY <1>4, <2>1, <3>1
    <3>3. CASE c = "i"
      <4>1. InNumber(raw', calls', num', Hd)
        <5>1. 0 \in 0..1 /\ Len(num') = 0 /\ Len(raw') = Hd.at + 1 + 0 + Len(num')
          BY <3>1, <1>1, <1>5, EmptySeq
        <5>2. raw'[Hd.at + 1] = "i" /\ \A k \in 1..Len(num') : FALSE
          BY <3>3, <5>1, <1>1, <1>5
        <5> QED BY <5>1, <5>2, <3>1, <3>3, <1>5 DEF InNumber
      <4> QED BY <4>1, <3>1, <3>2, <3>3, <1>1, <1>2, <1>3 DEF Outcome, GoesOn, ReadMore
    <3>4. CASE c \in {"d", "l"}
      <4>1. Begins(raw', Hd, Next_)
        BY <3>1, <3>4, <1>1, <1>5 DEF Begins, Next_
      <4>2. Token(raw', Hd, Next_)
        BY <4>1, <1>5 DEF Token
      <4> QED BY <4>2, <3>1, <3>2, <2>3, <1>1, <1>2, <1>3 DEF Outcome, Arrived, ReadMore
    <3> QED BY <3>3, <3>4, <1>7
  <2> QED BY <2>2, <2>3
<1>8. CASE c \notin Digit /\ c \notin {"d", "l", "i"}
  <2>1. result' = "broken" /\ calls' = calls /\ num' = num
    BY <1>8 DEF ben_validate_r, Broken
  <2> QED BY <2>1, <1>1, <1>2, <1>3 DEF Outcome, ReadMore
<1> QED BY <1>6, <1>7, <1>8

\* "e" behind a list or dictionary.
LEMMA ContainerEnds ==
  ASSUME PacketTypeOK, calls # << >>, AtHead, Len(raw) < size, result = "running",
         Last(calls) \in {"d", "l"}, Read("e"), Return
  PROVE  Outcome /\ ReadMore
<1>1. "e" \in Octet
  BY DEF Octet, Mark
<1>2. /\ raw' \in Seq(Octet) /\ Len(raw') = Len(raw) + 1 /\ Len(raw) \in Nat
      /\ Extends(raw, raw') /\ raw'[Len(raw) + 1] = "e"
  BY <1>1, ReadsByte
<1>3. Len(raw') <= size
  BY <1>2 DEF PacketTypeOK
<1>4. Front(calls) \in Seq(CallName) /\ calls \in Seq(CallName) /\ num \in Seq(Digit)
  BY CallsAre DEF PacketTypeOK
<1>5. CASE result' = "broken" /\ calls' = calls /\ num' = num
  BY <1>5, <1>2, <1>3, <1>4 DEF Outcome, ReadMore
<1>6. CASE /\ calls' = Front(calls) /\ num' \in Seq(Digit)
           /\ \/ calls' = << >> /\ result' = "valid"
              \/ calls' # << >> /\ result' = "running" /\ Len(raw') < size
  <2>1. Ends(raw', Hd, Next_)
    BY <1>2, <1>6 DEF Ends, Next_, AtHead
  <2>2. Token(raw', Hd, Next_)
    BY <2>1 DEF Token, AtHead
  <2> QED BY <2>2, <1>2, <1>3, <1>4, <1>6 DEF Outcome, Arrived, ReadMore
<1> QED BY <1>5, <1>6, ReturnsTo

\* The first digit of a key.
LEMMA KeyBegins ==
  ASSUME PacketTypeOK, calls # << >>, AtHead, Len(raw) < size, result = "running",
         Last(calls) = "d",
         NEW c \in Digit, Read(c), Call(calls \o <<"r", "s">>, <<c>>)
  PROVE  Outcome /\ ReadMore
<1>1. c \in Octet
  BY DEF Octet
<1>2. /\ raw' \in Seq(Octet) /\ Len(raw') = Len(raw) + 1 /\ Len(raw) \in Nat
      /\ Extends(raw, raw') /\ raw'[Len(raw) + 1] = c
  BY <1>1, ReadsByte
<1>3. Len(raw') <= size
  BY <1>2 DEF PacketTypeOK
<1>4. calls \in Seq(CallName) /\ "r" \in CallName /\ "s" \in CallName
  BY DEF PacketTypeOK, CallName
<1>5. Hd.at = Len(raw) /\ Hd.calls = calls
  BY DEF AtHead
<1>6. AfterStr(calls) = Append(calls, "r")
  BY DEF AfterStr
<1>7. calls \o <<"r", "s">> = Append(Append(calls, "r"), "s")
  <2>1. /\ Append(calls, "r") \in Seq(CallName) /\ Len(Append(calls, "r")) = Len(calls) + 1
        /\ \A i \in 1..Len(calls) : Append(calls, "r")[i] = calls[i]
        /\ Append(calls, "r")[Len(calls) + 1] = "r" /\ Len(calls) \in Nat
    BY <1>4, Pushed
  <2>2. /\ Append(Append(calls, "r"), "s") \in Seq(CallName)
        /\ Len(Append(Append(calls, "r"), "s")) = Len(calls) + 2
        /\ \A i \in 1..(Len(calls) + 1) : Append(Append(calls, "r"), "s")[i] = Append(calls, "r")[i]
        /\ Append(Append(calls, "r"), "s")[Len(calls) + 1 + 1] = "s"
    BY <1>4, <2>1, Pushed
  <2>3. <<"r", "s">> \in Seq(CallName) /\ Len(<<"r", "s">>) = 2
        /\ <<"r", "s">>[1] = "r" /\ <<"r", "s">>[2] = "s"
    BY <1>4
  <2>4. /\ calls \o <<"r", "s">> \in Seq(CallName) /\ Len(calls \o <<"r", "s">>) = Len(calls) + 2
        /\ \A i \in 1..(Len(calls) + 2) : (calls \o <<"r", "s">>)[i] =
             IF i <= Len(calls) THEN calls[i] ELSE <<"r", "s">>[i - Len(calls)]
    BY <1>4, <2>3, ConcatProperties
  <2>5. ASSUME NEW i \in 1..(Len(calls) + 2)
        PROVE  (calls \o <<"r", "s">>)[i] = Append(Append(calls, "r"), "s")[i]
    <3>1. CASE i \in 1..Len(calls)
      BY <3>1, <2>1, <2>2, <2>4
    <3>2. CASE i = Len(calls) + 1
      <4>1. ~(i <= Len(calls)) /\ i - Len(calls) = 1
        BY <3>2, <2>1
      <4> QED BY <4>1, <3>2, <2>1, <2>2, <2>3, <2>4
    <3>3. CASE i = Len(calls) + 2
      <4>1. ~(i <= Len(calls)) /\ i - Len(calls) = 2 /\ Len(calls) + 1 + 1 = i
        BY <3>3, <2>1
      <4> QED BY <4>1, <3>3, <2>1, <2>2, <2>3, <2>4
    <3> QED BY <3>1, <3>2, <3>3, <2>1
  <2> QED BY <2>2, <2>4, <2>5, SeqEqual
<1>8. calls' = Append(AfterStr(Hd.calls), "s") /\ num' = <<c>> /\ result' = "running"
  BY <1>5, <1>6, <1>7 DEF Call
<1>9. /\ calls' \in Seq(CallName) /\ calls' # << >> /\ Last(calls') = "s"
  BY <1>4, <1>5, <1>8, CallsAre
<1>10. num' \in Seq(Digit) /\ num' # << >> /\ Len(num') = 1 /\ num'[1] = c
  BY <1>8
<1>11. SubSeq(raw', Hd.at + 1, Hd.at + Len(num')) = num'
  <2>1. /\ Hd.at + 1 \in Nat \ {0} /\ Hd.at + 1 <= Len(raw') /\ Hd.at + 1 \in Nat
        /\ Hd.at + 1 <= Hd.at + 1 + 1 /\ Hd.at + 1 + 1 - (Hd.at + 1) = 1
        /\ Hd.at + 1 + 1 - 1 = Hd.at + 1
    BY <1>2, <1>5
  <2>2. /\ SubSeq(raw', Hd.at + 1, Hd.at + 1) \in Seq(Octet)
        /\ Len(SubSeq(raw', Hd.at + 1, Hd.at + 1)) = Hd.at + 1 + 1 - (Hd.at + 1)
        /\ \A i \in 1..(Hd.at + 1 + 1 - (Hd.at + 1)) :
             SubSeq(raw', Hd.at + 1, Hd.at + 1)[i] = raw'[Hd.at + 1 + i - 1]
    BY <2>1, <1>2, SliceIs
  <2>3. num' \in Seq(Octet)
    BY <1>10, SeqMonotonic DEF Octet
  <2>4. \A i \in 1..1 : i = 1
    OBVIOUS
  <2> QED BY <2>1, <2>2, <2>3, <2>4, <1>10, <1>2, <1>5, SeqEqual
<1>12. InString(raw', calls', num', Hd)
  BY <1>8, <1>10, <1>11, <1>2, <1>5 DEF InString
<1> QED BY <1>8, <1>9, <1>10, <1>12, <1>2, <1>3 DEF Outcome, GoesOn, ReadMore

\* What the digits are that have been read.
LEMMA DigitsAre ==
  ASSUME PacketTypeOK, Hd \in Head_, InString(raw, calls, num, Hd)
  PROVE  /\ Hd.at \in Nat /\ Len(num) \in Nat /\ Len(num) >= 1 /\ Len(raw) = Hd.at + Len(num)
         /\ \A k \in 1..Len(num) : num[k] = raw[Hd.at + k] /\ num[k] \in Digit
<1>1. Hd.at \in Nat /\ Len(num) \in Nat /\ Len(num) >= 1 /\ Len(raw) = Hd.at + Len(num)
  BY LenProperties, EmptySeq DEF PacketTypeOK, Head_, InString
<1>2. ASSUME NEW k \in 1..Len(num) PROVE num[k] = raw[Hd.at + k] /\ num[k] \in Digit
  <2>1. raw \in Seq(Octet)
    BY DEF PacketTypeOK
  <2>2. PICK a \in Nat, n \in Nat : a = Hd.at /\ n = Len(num) /\ a + n <= Len(raw)
    BY <1>1
  <2>3. \A i \in 1..n : SubSeq(raw, a + 1, a + n)[i] = raw[a + i]
    <3>1. a \in Nat /\ n \in Nat /\ a + n <= Len(raw)
      BY <2>2
    <3>2. /\ SubSeq(raw, a + 1, a + n) \in Seq(Octet) /\ Len(SubSeq(raw, a + 1, a + n)) = n
          /\ \A i \in 1..n : SubSeq(raw, a + 1, a + n)[i] = raw[a + i]
      BY ONLY <2>1, <3>1, SliceAt
    <3> QED BY <3>2
  <2>4. num[k] \in Digit
    BY ElementOfSeq DEF PacketTypeOK
  <2> QED BY <2>2, <2>3, <2>4 DEF InString
<1> QED BY <1>1, <1>2

\* One more digit.
LEMMA DigitAdded ==
  ASSUME PacketTypeOK, calls # << >>, Hd \in Head_, InString(raw, calls, num, Hd),
         Len(raw) < size, result = "running", Last(calls) = "s",
         NEW c \in Digit, Read(c), Call(calls, Append(num, c))
  PROVE  Outcome /\ ReadMore
<1>1. c \in Octet
  BY DEF Octet
<1>2. /\ raw' \in Seq(Octet) /\ Len(raw') = Len(raw) + 1 /\ Len(raw) \in Nat
      /\ Extends(raw, raw') /\ raw'[Len(raw) + 1] = c
      /\ \A i \in 1..Len(raw) : raw'[i] = raw[i]
  BY <1>1, ReadsByte
<1>3. Len(raw') <= size
  BY <1>2 DEF PacketTypeOK
<1>4. /\ Hd.at \in Nat /\ Len(num) \in Nat /\ Len(num) >= 1 /\ Len(raw) = Hd.at + Len(num)
      /\ \A k \in 1..Len(num) : num[k] = raw[Hd.at + k] /\ num[k] \in Digit
  BY DigitsAre
<1>5. /\ num' \in Seq(Digit) /\ num' # << >> /\ Len(num') = Len(num) + 1
      /\ \A k \in 1..Len(num) : num'[k] = num[k]
      /\ num'[Len(num) + 1] = c
  <2>1. num \in Seq(Digit) /\ num' = Append(num, c)
    BY DEF Call, PacketTypeOK
  <2> QED BY <2>1, Pushed
<1>6. Hd.at \in Nat /\ Len(num) \in Nat /\ Len(raw) = Hd.at + Len(num)
      /\ Len(num') = Len(num) + 1 /\ Len(raw') = Hd.at + Len(num) + 1
  BY <1>2, <1>4, <1>5
<1>7. calls' = calls /\ result' = "running"
  BY DEF Call
<1> DEFINE S == SubSeq(raw', Hd.at + 1, Hd.at + Len(num'))
<1>8. num' = S
  <2>1. num' \in Seq(Octet)
    BY <1>5, SeqMonotonic DEF Octet
  <2>2. Hd.at + Len(num') <= Len(raw')
    BY <1>6
  <2>3. ASSUME NEW i \in 1..Len(num') PROVE raw'[Hd.at + i] = num'[i]
    <3>1. CASE i \in 1..Len(num)
      <4>1. Hd.at + i \in 1..Len(raw)
        BY <3>1, <1>4
      <4> QED BY <4>1, <3>1, <1>2, <1>4, <1>5
    <3>2. CASE i = Len(num) + 1
      <4>1. Hd.at + i = Len(raw) + 1
        BY <3>2, <1>6
      <4> QED BY <4>1, <3>2, <1>2, <1>5
    <3> QED BY <3>1, <3>2, <1>4, <1>5
  <2> QED BY <2>1, <2>2, <2>3, <1>2, <1>4, SliceEq
<1>9. Len(raw') = Hd.at + Len(num')
  BY <1>2, <1>4, <1>5
<1>10. InString(raw', calls', num', Hd)
  BY <1>5, <1>7, <1>8, <1>9 DEF InString
<1>11. calls' \in Seq(CallName)
  BY <1>7 DEF PacketTypeOK
<1> QED BY <1>2, <1>3, <1>5, <1>7, <1>10, <1>11 DEF Outcome, GoesOn, ReadMore

\* ":" and the text.
LEMMA StringEnds ==
  ASSUME PacketTypeOK, calls # << >>, Hd \in Head_, Hd.calls # << >>,
         InString(raw, calls, num, Hd), result = "running", StrLenOk,
         Len(raw) + 1 + atol(num) <= size,
         NEW s \in Seq(Octet), Len(s) = atol(num), raw' = Append(raw, ":") \o s, Return
  PROVE  Outcome /\ ReadMore
<1> DEFINE n == Len(num)
           l == atol(num)
<1>1. /\ Hd.at \in Nat /\ n \in Nat /\ n >= 1 /\ Len(raw) = Hd.at + n
      /\ \A k \in 1..n : num[k] = raw[Hd.at + k] /\ num[k] \in Digit
  BY DigitsAre
<1>2. l \in 1..StrMaxSize /\ n <= StrMaxLen /\ l \in Nat /\ l >= 1
  BY BencodeAssumption DEF StrLenOk
<1> HIDE DEF n, l
<1>3. ":" \in Octet
  BY DEF Octet, Mark
<1>4. /\ Append(raw, ":") \in Seq(Octet) /\ Len(Append(raw, ":")) = Len(raw) + 1
      /\ \A i \in 1..Len(raw) : Append(raw, ":")[i] = raw[i]
      /\ Append(raw, ":")[Len(raw) + 1] = ":"
  BY <1>3, Pushed DEF PacketTypeOK
<1>5. /\ raw' \in Seq(Octet) /\ Len(raw') = Len(raw) + 1 + l
      /\ \A i \in 1..(Len(raw) + 1 + l) : raw'[i] =
           IF i <= Len(raw) + 1 THEN Append(raw, ":")[i] ELSE s[i - (Len(raw) + 1)]
  <2>1. Len(s) = l
    BY DEF l
  <2> DEFINE A == Append(raw, ":")
  <2>2. A \in Seq(Octet) /\ Len(A) = Len(raw) + 1
    BY <1>4
  <2> HIDE DEF A
  <2>3. /\ A \o s \in Seq(Octet) /\ Len(A \o s) = Len(A) + Len(s)
        /\ \A i \in 1..(Len(A) + Len(s)) : (A \o s)[i] =
             IF i <= Len(A) THEN A[i] ELSE s[i - Len(A)]
    BY <2>2, ConcatProperties
  <2>4. raw' = A \o s
    BY DEF A
  <2>5. /\ raw' \in Seq(Octet) /\ Len(raw') = Len(raw) + 1 + l
        /\ \A i \in 1..(Len(raw) + 1 + l) : raw'[i] =
             IF i <= Len(raw) + 1 THEN A[i] ELSE s[i - (Len(raw) + 1)]
    BY <2>1, <2>2, <2>3, <2>4
  <2> QED BY <2>5 DEF A
<1>6. Extends(raw, raw') /\ raw'[Len(raw) + 1] = ":"
  <2>1. \A i \in 1..Len(raw) : i \in 1..(Len(raw) + 1 + l) /\ i <= Len(raw) + 1
    BY <1>1, <1>2
  <2>2. Len(raw) + 1 \in 1..(Len(raw) + 1 + l) /\ Len(raw) <= Len(raw')
    <3>1. PICK y \in Nat : y = Len(raw)
      BY <1>1
    <3>2. y + 1 \in 1..(y + 1 + l) /\ y <= y + 1 + l
      BY <1>2
    <3> QED BY <3>1, <3>2, <1>5
  <2>3. \A i \in 1..Len(raw) : raw'[i] = raw[i]
    BY <1>4, <1>5, <2>1
  <2>4. raw'[Len(raw) + 1] = ":"
    BY <1>4, <1>5, <2>2
  <2> QED BY <2>2, <2>3, <2>4 DEF Extends
<1>7. Len(raw') <= size
  <2>1. Len(raw) + 1 + l <= size
    BY DEF l
  <2> QED BY <2>1, <1>5
<1>8. StringAt(raw', Hd.at, n, l)
  <2>1. \A k \in 1..n : raw'[Hd.at + k] \in Digit
    <3>1. \A k \in 1..n : Hd.at + k \in 1..Len(raw)
      BY <1>1
    <3> QED BY <3>1, <1>1, <1>6 DEF Extends
  <2>2. raw'[Hd.at + n + 1] = ":" /\ Hd.at + n + 1 + l <= Len(raw')
    <3>1. Hd.at \in Nat /\ n \in Nat /\ Len(raw) = Hd.at + n /\ l \in Nat
          /\ Len(raw') = Len(raw) + 1 + l
      BY <1>1, <1>2, <1>5
    <3>2. Hd.at + n + 1 = Len(raw) + 1 /\ Hd.at + n + 1 + l <= Len(raw')
      BY <3>1
    <3> QED BY <3>2, <1>6
  <2>3. SubSeq(raw', Hd.at + 1, Hd.at + n) = SubSeq(raw, Hd.at + 1, Hd.at + n)
    <3>1. Hd.at + 1 \in Nat \ {0} /\ Hd.at + n \in Nat /\ Hd.at + n <= Len(raw)
      BY <1>1
    <3> QED BY <3>1, <1>5, <1>6, SameSub DEF PacketTypeOK
  <2>4. atol(SubSeq(raw', Hd.at + 1, Hd.at + n)) = l
    BY <2>3 DEF InString, n, l
  <2>5. n \in Nat \ {0}
    BY <1>1
  <2> QED BY <2>1, <2>2, <2>4, <2>5, <1>2 DEF StringAt
<1>9. calls = Append(AfterStr(Hd.calls), "s") /\ Front(calls) = AfterStr(Hd.calls)
  <2>1. Hd.calls \in Seq(CallName) /\ "s" \in CallName
    BY DEF Head_, CallName
  <2> QED BY <2>1, CallsAre DEF InString
<1>10. Front(calls) \in Seq(CallName) /\ calls \in Seq(CallName) /\ num \in Seq(Digit)
  BY CallsAre DEF PacketTypeOK
<1>11. CASE result' = "broken" /\ calls' = calls /\ num' = num
  BY <1>11, <1>5, <1>6, <1>7, <1>10 DEF Outcome, ReadMore
<1>12. CASE /\ calls' = Front(calls) /\ num' \in Seq(Digit)
            /\ \/ calls' = << >> /\ result' = "valid"
               \/ calls' # << >> /\ result' = "running" /\ Len(raw') < size
  <2>1. Next_.at = Hd.at + n + 1 + l /\ Next_.calls = AfterStr(Hd.calls)
    BY <1>1, <1>5, <1>9, <1>12 DEF Next_
  <2>2. IsString(raw', Hd, Next_)
    BY <2>1, <1>1, <1>2, <1>8 DEF IsString
  <2>3. Token(raw', Hd, Next_)
    BY <2>2 DEF Token
  <2> QED BY <2>3, <1>5, <1>6, <1>7, <1>10, <1>12 DEF Outcome, Arrived, ReadMore
<1> QED BY <1>11, <1>12, ReturnsTo

\* A byte of a string: one more digit, the text, or something else.
LEMMA StringStep ==
  ASSUME PacketTypeOK, Delivered, calls # << >>, Hd \in Head_, Hd.calls # << >>,
         InString(raw, calls, num, Hd),
         Len(raw) < size, result = "running",
         NEW c \in Octet, ben_validate_s(c)
  PROVE  Outcome /\ ReadMore
<1>1. Last(calls) = "s"
  BY DEF ben_validate_s, Current
<1>2. CASE c \in Digit /\ Read(c) /\ Call(calls, Append(num, c))
  BY <1>1, <1>2, DigitAdded
<1>3. CASE /\ c = ":" /\ StrLenOk /\ Len(raw) + 1 + atol(num) <= size
           /\ \E s \in Text(atol(num)) : raw' = Append(raw, ":") \o s
           /\ Return
  <2>1. PICK s \in Text(atol(num)) : raw' = Append(raw, ":") \o s
    BY <1>3
  <2>2. atol(num) \in Nat \ {0}
    BY <1>3, BencodeAssumption DEF StrLenOk
  <2>3. s \in Seq(Octet) /\ Len(s) = atol(num)
    BY <1>3, <2>1, <2>2, TextIs
  <2> QED BY <1>3, <2>1, <2>3, StringEnds
<1>4. CASE Read(c) /\ Broken
  <2>1. raw' \in Seq(Octet) /\ Len(raw') = Len(raw) + 1 /\ Len(raw) \in Nat /\ Extends(raw, raw')
    BY <1>4, ReadsByte
  <2> QED BY <1>4, <2>1 DEF Broken, Outcome, ReadMore, PacketTypeOK
<1> QED BY <1>2, <1>3, <1>4 DEF ben_validate_s

\* A byte of a number: the sign, one more digit, the end, or something else.
LEMMA NumberStep ==
  ASSUME PacketTypeOK, calls # << >>, Hd \in Head_, Hd.calls # << >>,
         InNumber(raw, calls, num, Hd),
         Len(raw) < size, result = "running",
         NEW c \in Octet, ben_validate_i(c)
  PROVE  Outcome /\ ReadMore
<1>1. /\ raw' \in Seq(Octet) /\ Len(raw') = Len(raw) + 1 /\ Len(raw) \in Nat
      /\ Extends(raw, raw') /\ raw'[Len(raw) + 1] = c
      /\ \A i \in 1..Len(raw) : raw'[i] = raw[i]
  <2>1. Read(c)
    BY DEF ben_validate_i
  <2> QED BY <2>1, ReadsByte
<1>2. Len(raw') <= size
  BY <1>1 DEF PacketTypeOK
<1>3. calls \in Seq(CallName) /\ num \in Seq(Digit) /\ << >> \in Seq(Digit) /\ Len(<< >>) = 0
  BY EmptySeq DEF PacketTypeOK
<1>4. Hd.at \in Nat /\ Hd.calls \in Seq(CallName) /\ Len(num) \in Nat
  BY <1>3, LenProperties DEF Head_
<1>5. calls = Append(Base(Hd.calls), "i") /\ Last(Hd.calls) \in {"r", "l"}
  BY DEF InNumber
<1>6. Last(calls) = "i" /\ Front(calls) = Base(Hd.calls) /\ Base(Hd.calls) \in Seq(CallName)
  <2>1. "i" \in CallName
    BY DEF CallName
  <2> QED BY <2>1, <1>4, <1>5, CallsAre
<1>7. PICK m \in 0..1 : /\ Len(raw) = Hd.at + 1 + m + Len(num)
                        /\ raw[Hd.at + 1] = "i" /\ (m = 1 => raw[Hd.at + 2] = "-")
                        /\ \A k \in 1..Len(num) : raw[Hd.at + 1 + m + k] = num[k]
  BY DEF InNumber
<1>8. m \in Nat /\ Hd.at \in Nat /\ Len(num) \in Nat /\ Len(raw) = Hd.at + 1 + m + Len(num)
      /\ Len(raw') = Len(raw) + 1
  BY <1>1, <1>4, <1>7
<1>9. raw'[Hd.at + 1] = "i" /\ (m = 1 => raw'[Hd.at + 2] = "-")
  <2>1. Hd.at + 1 \in 1..Len(raw) /\ (m = 1 => Hd.at + 2 \in 1..Len(raw))
    BY <1>8
  <2> QED BY <2>1, <1>1, <1>7
<1>10. \A k \in 1..Len(num) : raw'[Hd.at + 1 + m + k] = num[k] /\ num[k] \in Digit
  <2>1. \A k \in 1..Len(num) : Hd.at + 1 + m + k \in 1..Len(raw)
    BY <1>8
  <2>2. \A k \in 1..Len(num) : num[k] \in Digit
    BY <1>3, ElementOfSeq
  <2> QED BY <2>1, <2>2, <1>1, <1>7
<1>11. CASE c \in Digit
  <2>1. calls' = calls /\ num' = Append(num, c) /\ result' = "running"
    <3>1. c # "-" /\ c # "e"
      BY <1>11, DigitIs DEF Mark
    <3> QED BY <1>11, <3>1 DEF ben_validate_i, Call
  <2>2. /\ num' \in Seq(Digit) /\ Len(num') = Len(num) + 1
        /\ \A k \in 1..Len(num) : num'[k] = num[k]
        /\ num'[Len(num) + 1] = c
    BY <2>1, <1>3, <1>11, Pushed
  <2>3. PICK x \in Nat : x = Hd.at + 1 + m
    BY <1>8
  <2>4. PICK z \in Nat : z = Len(num)
    BY <1>8
  <2>5. Len(raw) = x + z /\ Len(raw') = Len(raw) + 1
    BY <2>3, <2>4, <1>8
  <2>6. x + (z + 1) = Len(raw) + 1 /\ Len(raw') = x + (z + 1)
    BY <2>5
  <2>7. Len(raw') = Hd.at + 1 + m + Len(num')
    BY <2>2, <2>3, <2>4, <2>6
  <2>8. ASSUME NEW k \in 1..Len(num') PROVE raw'[Hd.at + 1 + m + k] = num'[k]
    <3>1. CASE k \in 1..Len(num)
      BY <3>1, <2>2, <1>10
    <3>2. CASE k = Len(num) + 1
      <4>1. Hd.at + 1 + m + k = Len(raw) + 1
        BY <3>2, <2>3, <2>4, <2>6
      <4> QED BY <4>1, <3>2, <2>2, <1>1
    <3>3. k \in 1..Len(num) \/ k = Len(num) + 1
      BY <2>2, <1>8
    <3> QED BY <3>1, <3>2, <3>3
  <2>9. InNumber(raw', calls', num', Hd)
    BY <2>1, <2>7, <2>8, <1>5, <1>9 DEF InNumber
  <2> QED BY <2>1, <2>2, <2>9, <1>1, <1>2, <1>3, <1>6 DEF Outcome, GoesOn, ReadMore
<1>12. CASE c \notin Digit /\ c = "-" /\ Last(raw) = "i"
  <2>1. Enter(calls)
    BY <1>12 DEF ben_validate_i
  <2>2. m = 0 /\ Len(num) = 0
    <3>1. raw[Len(raw)] = "i"
      BY <1>12 DEF Last
    <3>2. Len(num) = 0
      <4>1. SUFFICES ASSUME Len(num) # 0 PROVE FALSE
        OBVIOUS
      <4>2. Len(num) \in 1..Len(num) /\ Hd.at + 1 + m + Len(num) = Len(raw)
        BY <4>1, <1>8
      <4>3. num[Len(num)] = "i" /\ num[Len(num)] \in Digit
        BY <4>2, <3>1, <1>7, <1>10
      <4> QED BY <4>3, DigitIs DEF Mark
    <3>3. m # 1
      <4>1. SUFFICES ASSUME m = 1 PROVE FALSE
        OBVIOUS
      <4>2. Hd.at + 2 = Len(raw)
        BY <4>1, <3>2, <1>8
      <4> QED BY <4>1, <4>2, <3>1, <1>7
    <3> QED BY <3>2, <3>3
  <2>3. CASE Len(raw') < size
    <3>1. calls' = calls /\ num' = << >> /\ result' = "running"
      BY <2>1, <2>3 DEF Enter, Call
    <3>2. 1 \in 0..1 /\ Len(raw') = Hd.at + 1 + 1 + Len(num') /\ Hd.at + 2 = Len(raw) + 1
      BY <2>2, <3>1, <1>8, <1>3
    <3>3. raw'[Hd.at + 2] = "-" /\ \A k \in 1..Len(num') : FALSE
      BY <3>1, <3>2, <1>1, <1>3, <1>12
    <3>4. InNumber(raw', calls', num', Hd)
      BY <3>1, <3>2, <3>3, <1>5, <1>9 DEF InNumber
    <3> QED BY <3>1, <3>4, <1>1, <1>2, <1>3, <1>6 DEF Outcome, GoesOn, ReadMore
  <2>4. CASE ~(Len(raw') < size)
    BY <2>1, <2>4, <1>1, <1>2, <1>3 DEF Enter, Broken, Outcome, ReadMore
  <2> QED BY <2>3, <2>4
<1>13. CASE c \notin Digit /\ ~(c = "-" /\ Last(raw) = "i") /\ c = "e" /\ IntLenOk
  <2>1. Return
    BY <1>13 DEF ben_validate_i
  <2>2. NumberAt(raw', Hd.at, m, Len(num))
    <3>1. Len(num) >= 1 /\ Len(num) <= IntMaxLen /\ atol(num) <= IntMaxSize
      BY <1>13, <1>8, BencodeAssumption DEF IntLenOk
    <3>2. SubSeq(raw', Hd.at + m + 2, Hd.at + m + Len(num) + 1) = num
      <4>1. PICK x \in Nat, z \in Nat : x = Hd.at + m /\ z = Len(num)
        BY <3>1, <1>8
      <4> DEFINE S == SubSeq(raw', x + 2, x + z + 1)
      <4>2. x + 2 \in Nat \ {0} /\ x + z + 1 \in Nat /\ x + z + 1 <= Len(raw')
        <5>1. \A h, y, n \in Nat : h + y + n + 1 <= h + 1 + y + n + 1
          OBVIOUS
        <5>2. Len(raw') = Hd.at + 1 + m + Len(num) + 1
          BY <1>8
        <5>3. Hd.at + m + Len(num) + 1 <= Len(raw')
          BY <5>1, <5>2, <1>8
        <5>4. x + z + 1 = Hd.at + m + Len(num) + 1
          BY <4>1, <1>8
        <5>5. x + z + 1 <= Len(raw')
          BY <5>3, <5>4
        <5>6. \A y, w \in Nat : y + 2 \in Nat \ {0} /\ y + w + 1 \in Nat
          OBVIOUS
        <5>7. x + 2 \in Nat \ {0} /\ x + z + 1 \in Nat
          BY <5>6
        <5> QED BY <5>5, <5>7
      <4>3. /\ S \in Seq(Octet) /\ Len(S) = z
            /\ \A i \in 1..z : S[i] = raw'[x + 1 + i]
        <5>1. PICK lo \in Nat \ {0}, hi \in Nat : lo = x + 2 /\ hi = x + z + 1
          BY <4>2
        <5>2. \A x_ \in Nat, z_ \in Nat : x_ + 2 <= x_ + z_ + 1 + 1 /\ x_ + z_ + 1 + 1 - (x_ + 2) = z_
          OBVIOUS
        <5>3. hi <= Len(raw') /\ lo <= hi + 1 /\ hi + 1 - lo = z
          BY <5>1, <5>2, <4>2
        <5>4. raw' \in Seq(Octet)
          BY <1>1
        <5>5. /\ S \in Seq(Octet) /\ Len(S) = hi + 1 - lo
              /\ \A i \in 1..(hi + 1 - lo) : S[i] = raw'[lo + i - 1]
          BY <5>1, <5>3, <5>4, SliceIs
        <5> HIDE DEF S
        <5>6. \A i \in 1..z : lo + i - 1 = x + 1 + i
          BY <5>1
        <5> QED BY <5>3, <5>5, <5>6
      <4>4. num \in Seq(Octet)
        BY <1>3, SeqMonotonic DEF Octet
      <4> HIDE DEF S
      <4>5. ASSUME NEW i \in 1..z PROVE S[i] = num[i]
        <5>1. \A h, y, j \in Nat : h + y + 1 + j = h + 1 + y + j
          OBVIOUS
        <5>2. x + 1 + i = Hd.at + 1 + m + i
          <6>1. i \in Nat
            BY <4>1
          <6> QED BY <5>1, <6>1, <4>1, <1>8
        <5>3. S[i] = raw'[Hd.at + 1 + m + i]
          BY <4>3, <5>2
        <5> QED BY <5>3, <4>1, <1>10
      <4>6. S = num
        BY <4>1, <4>3, <4>4, <4>5, SeqEqual
      <4>7. x + 2 = Hd.at + m + 2 /\ x + z + 1 = Hd.at + m + Len(num) + 1
        BY <4>1, <1>8
      <4> QED BY <4>6, <4>7 DEF S
    <3>3. /\ Len(num) \in Nat \ {0}
          /\ Hd.at + m + Len(num) + 2 <= Len(raw') /\ Hd.at + m + Len(num) + 2 = Len(raw) + 1
      BY <3>1, <1>8
    <3> QED BY <3>1, <3>3, <3>2, <1>1, <1>7, <1>9, <1>10, <1>13 DEF NumberAt
  <2>3. CASE result' = "broken" /\ calls' = calls /\ num' = num
    BY <2>3, <1>1, <1>2, <1>3 DEF Outcome, ReadMore
  <2>4. CASE /\ calls' = Front(calls) /\ num' \in Seq(Digit)
             /\ \/ calls' = << >> /\ result' = "valid"
                \/ calls' # << >> /\ result' = "running" /\ Len(raw') < size
    <3>1. Next_.at = Hd.at + m + Len(num) + 2 /\ Next_.calls = Base(Hd.calls)
      <4>1. Next_.at = Len(raw') /\ Next_.calls = Base(Hd.calls)
        BY <2>4, <1>6 DEF Next_
      <4> QED BY <4>1, <1>8
    <3>2. IsNumber(raw', Hd, Next_)
      BY <3>1, <2>2, <1>8, <1>5 DEF IsNumber
    <3>3. Token(raw', Hd, Next_)
      BY <3>2 DEF Token
    <3> QED BY <3>3, <2>4, <1>1, <1>2, <1>3, <1>6 DEF Outcome, Arrived, ReadMore
  <2> QED BY <2>1, <2>3, <2>4, ReturnsTo
<1>14. CASE c \notin Digit /\ ~(c = "-" /\ Last(raw) = "i") /\ ~(c = "e" /\ IntLenOk)
  <2>1. Broken
    BY <1>14 DEF ben_validate_i
  <2> QED BY <2>1, <1>1, <1>2, <1>3 DEF Broken, Outcome, ReadMore
<1> QED BY <1>11, <1>12, <1>13, <1>14

\* Whoever is called at the end of the first value has no caller.
LEMMA LastOfAll ==
  ASSUME NEW cs \in Seq(CallName), cs # << >>, Base(cs) = << >> \/ AfterStr(cs) = << >>
  PROVE  cs = <<"r">>
<1>1. "r" \in CallName
  BY DEF CallName
<1>2. Base(cs) = << >>
  BY <1>1, Pushed DEF AfterStr
<1>3. Last(cs) = "r" /\ Front(cs) = << >>
  BY <1>2 DEF Base
<1>4. Len(cs) = 1
  <2>1. Len(cs) \in Nat \ {0} /\ Len(Front(cs)) = Len(cs) - 1
    BY Popped
  <2>2. Len(Front(cs)) = 0
    BY <1>3
  <2> QED BY <2>1, <2>2
<1>5. cs[1] = "r" /\ <<"r">> \in Seq(CallName) /\ Len(<<"r">>) = 1 /\ <<"r">>[1] = "r"
  BY <1>1, <1>3, <1>4 DEF Last
<1>6. \A i \in 1..1 : i = 1
  OBVIOUS
<1> QED BY <1>4, <1>5, <1>6, SeqEqual

\* The end of the packet in the digits of a string or a number. This is accepted
\* when nothing is around it.
LEMMA OutOfBytesStep ==
  ASSUME PacketTypeOK, Running, Hd \in Head_, result = "running", OutOfBytes,
         Hd.calls = <<"r">> => Hd.at = 0
  PROVE  /\ raw' = raw /\ calls' \in Seq(CallName) /\ num' \in Seq(Digit)
         /\ \/ result' = "broken"
            \/ result' = "valid" /\ raw # << >> /\ raw[1] \notin {"d", "l"}
<1>1. raw' = raw /\ Len(raw) = size /\ size \in Nat
  BY DEF OutOfBytes, PacketTypeOK
<1>2. calls \in Seq(CallName) /\ num \in Seq(Digit) /\ calls # << >>
  BY DEF PacketTypeOK, Running
<1>3. Front(calls) \in Seq(CallName)
  BY <1>2, CallsAre
<1>4. Hd.calls \in Seq(CallName) /\ Hd.calls # << >> /\ Hd.at \in Nat /\ "s" \in CallName /\ "i" \in CallName
  BY DEF Head_, Running, CallName
<1>5. CASE result' = "broken" /\ calls' = calls /\ num' = num
  BY <1>1, <1>2, <1>5
<1>6. CASE /\ calls' = Front(calls) /\ num' \in Seq(Digit)
           /\ \/ calls' = << >> /\ result' = "valid"
              \/ calls' # << >> /\ result' = "running" /\ Len(raw') < size
  <2>1. calls' = << >> /\ result' = "valid" /\ Front(calls) = << >>
    BY <1>1, <1>6
  <2>2. CASE InString(raw, calls, num, Hd)
    <3>1. AfterStr(Hd.calls) = << >>
      BY <2>1, <2>2, <1>4, CallsAre DEF InString
    <3>2. Hd.at = 0
      BY <3>1, <1>4, LastOfAll
    <3>3. num[1] = raw[1] /\ num[1] \in Digit
      <4>1. Len(num) \in Nat /\ Len(num) >= 1
            /\ \A k \in 1..Len(num) : num[k] = raw[Hd.at + k] /\ num[k] \in Digit
        BY <2>2, DigitsAre
      <4>2. 1 \in 1..Len(num)
        BY <4>1
      <4> QED BY <4>1, <4>2, <3>2
    <3>4. raw # << >>
      BY <2>2, DigitsAre, EmptySeq
    <3> QED BY <3>3, <3>4, <2>1, <1>1, <1>3, <1>6, DigitIs DEF Mark
  <2>3. CASE InNumber(raw, calls, num, Hd)
    <3>1. Base(Hd.calls) = << >>
      BY <2>1, <2>3, <1>4, CallsAre DEF InNumber
    <3>2. Hd.at = 0
      BY <3>1, <1>4, LastOfAll
    <3>3. raw[1] = "i" /\ Len(raw) # 0
      <4>1. PICK m \in 0..1 : Len(raw) = Hd.at + 1 + m + Len(num) /\ raw[Hd.at + 1] = "i"
        BY <2>3 DEF InNumber
      <4>2. Len(num) \in Nat
        BY <1>2, LenProperties
      <4> QED BY <4>1, <4>2, <3>2
    <3>4. raw # << >>
      BY <3>3, EmptySeq
    <3> QED BY <3>3, <3>4, <2>1, <1>1, <1>3, <1>6
  <2> QED BY <2>2, <2>3, <1>1 DEF Running
<1> QED BY <1>2, <1>5, <1>6, ReturnsTo DEF OutOfBytes

(***************************************************************************)
(* Values and their codes.                                                 *)
(***************************************************************************)

\* A string, and a call of ben_enc_size or ben_enc_rec.
Str == {s \in Tree : IsStr(s)}

\* The calls of ben_enc_size and ben_enc_rec.
EncFrame ==
  {fr \in [f : {"root", "l"}, v : Seq(Tree), k : Nat, part : {"key"}] : fr.k <= Len(fr.v)}
  \cup {fr \in [f : {"d"}, v : Seq(Str \X Tree), k : Nat, part : {"key", "value"}] :
          fr.k <= Len(fr.v) /\ (fr.part = "value" => fr.k < Len(fr.v))}

\* The parts of a value.
LEMMA TreeIs ==
  ASSUME NEW n \in Tree
  PROVE  /\ n = <<n[1], n[2]>> /\ n # << >>
         /\ n[1] \in {"s", "i", "l", "d"}
         /\ n[1] = "s" => IsStr(n) /\ n[2] \in Seq(Payload) /\ Len(n[2]) \in 1..StrMaxSize
         /\ n[1] = "i" => n[2] \in (-IntMaxSize)..IntMaxSize
         /\ n[1] = "l" => n[2] \in Seq(Tree)
         /\ n[1] = "d" => n[2] \in Seq(Str \X Tree)
<1>1. /\ n = <<n[1], n[2]>>
      /\ \/ IsStr(n)
         \/ n[1] = "i" /\ n[2] \in (-IntMaxSize)..IntMaxSize
         \/ n[1] = "l" /\ n[2] \in Seq(Tree)
         \/ n[1] = "d" /\ n[2] \in Seq(Str \X Tree)
  BY BencodeAssumption DEF Str
<1>2. n # << >>
  BY <1>1
<1> QED BY <1>1, <1>2 DEF IsStr

\* A call for a list or a dictionary begins in front of its first item.
LEMMA FrameIs ==
  ASSUME NEW n \in Tree, n[1] \in {"d", "l"}
  PROVE  Frame(n) \in EncFrame /\ Len(Frame(n).v) \in Nat
<1>1. CASE n[1] = "d"
  <2>1. n[2] \in Seq(Str \X Tree)
    BY <1>1, TreeIs
  <2>2. Len(n[2]) \in Nat
    BY <2>1, LenProperties
  <2> QED BY <1>1, <2>1, <2>2 DEF Frame, EncFrame
<1>2. CASE n[1] = "l"
  <2>1. n[2] \in Seq(Tree)
    BY <1>2, TreeIs
  <2>2. Len(n[2]) \in Nat
    BY <2>1, LenProperties
  <2> QED BY <1>2, <2>1, <2>2 DEF Frame, EncFrame
<1> QED BY <1>1, <1>2

\* The call of ben_enc is for the value alone.
LEMMA CallerIs ==
  ASSUME value \in Tree
  PROVE  Caller \in EncFrame
<1>1. <<value>> \in Seq(Tree) /\ Len(<<value>>) = 1
  OBVIOUS
<1>2. Caller = [f |-> "root", v |-> <<value>>, k |-> 0, part |-> "key"]
  BY DEF Caller, Frame
<1> QED BY <1>1, <1>2 DEF EncFrame

\* What comes next, and how far a call is behind it.
LEMMA ItemIs ==
  ASSUME NEW fr \in EncFrame, More(fr)
  PROVE  /\ Item(fr) \in Tree
         /\ fr.f = "d" /\ fr.part = "key" => IsStr(Item(fr))
         /\ Through(fr) \in EncFrame
         /\ fr.k \in Nat /\ Len(fr.v) \in Nat
<1>1. CASE fr \in [f : {"root", "l"}, v : Seq(Tree), k : Nat, part : {"key"}]
  <2>1. fr.k \in Nat /\ fr.v \in Seq(Tree) /\ fr.f \in {"root", "l"} /\ fr.part = "key"
    BY <1>1
  <2>2. Len(fr.v) \in Nat /\ fr.k < Len(fr.v)
    BY <2>1, LenProperties DEF More
  <2>3. fr.v[fr.k + 1] \in Tree
    <3>1. fr.k + 1 \in 1..Len(fr.v)
      BY <2>1, <2>2
    <3> QED BY <3>1, <2>1, ElementOfSeq
  <2>4. Item(fr) \in Tree
    BY <2>1, <2>3 DEF Item
  <2>5. Through(fr) = [fr EXCEPT !.k = @ + 1, !.part = "key"]
    BY <2>1 DEF Through
  <2>6. Through(fr) = [f |-> fr.f, v |-> fr.v, k |-> fr.k + 1, part |-> "key"]
    BY <1>1, <2>5
  <2>7. fr.k + 1 \in Nat /\ fr.k + 1 <= Len(fr.v)
    BY <2>1, <2>2
  <2>8. Through(fr) \in EncFrame
    BY <2>1, <2>6, <2>7 DEF EncFrame
  <2> QED BY <2>1, <2>2, <2>4, <2>8
<1>2. CASE /\ fr \in [f : {"d"}, v : Seq(Str \X Tree), k : Nat, part : {"key", "value"}]
           /\ fr.part = "value" => fr.k < Len(fr.v)
  <2>1. fr.k \in Nat /\ fr.v \in Seq(Str \X Tree) /\ fr.f = "d" /\ fr.part \in {"key", "value"}
    BY <1>2
  <2>2. Len(fr.v) \in Nat /\ fr.k < Len(fr.v)
    BY <2>1, LenProperties DEF More
  <2>3. fr.v[fr.k + 1] \in Str \X Tree
    <3>1. fr.k + 1 \in 1..Len(fr.v)
      BY <2>1, <2>2
    <3> QED BY <3>1, <2>1, ElementOfSeq
  <2>4. fr.v[fr.k + 1][1] \in Str /\ fr.v[fr.k + 1][2] \in Tree
    BY <2>3
  <2>5. Item(fr) \in Tree /\ (fr.part = "key" => IsStr(Item(fr)))
    BY <2>1, <2>4 DEF Item, Str
  <2>6. CASE fr.part = "key"
    <3>1. Through(fr) = [fr EXCEPT !.part = "value"]
      BY <2>1, <2>6 DEF Through
    <3>2. Through(fr) = [f |-> "d", v |-> fr.v, k |-> fr.k, part |-> "value"]
      BY <1>2, <3>1
    <3>3. Through(fr) \in EncFrame
      BY <2>1, <2>2, <3>2 DEF EncFrame
    <3> QED BY <3>3, <2>1, <2>2, <2>5
  <2>7. CASE fr.part = "value"
    <3>1. Through(fr) = [fr EXCEPT !.k = @ + 1, !.part = "key"]
      BY <2>1, <2>7 DEF Through
    <3>2. Through(fr) = [f |-> "d", v |-> fr.v, k |-> fr.k + 1, part |-> "key"]
      BY <1>2, <3>1
    <3>3. fr.k + 1 \in Nat /\ fr.k + 1 <= Len(fr.v)
      BY <2>1, <2>2
    <3>4. Through(fr) \in EncFrame
      BY <2>1, <3>2, <3>3 DEF EncFrame
    <3> QED BY <3>4, <2>1, <2>2, <2>5, <2>7
  <2> QED BY <2>1, <2>6, <2>7
<1> QED BY <1>1, <1>2 DEF EncFrame

\* The digits of a number that may be sent: atol reads it from them.
LEMMA DecimalIs ==
  ASSUME NEW n \in 0..IntMaxSize
  PROVE  /\ Decimal[n] \in Seq(Digit) /\ atol(Decimal[n]) = n
         /\ Len(Decimal[n]) \in 1..IntMaxLen
<1>1. \E ds \in BoundedSeq(Digit, IntMaxLen) : Prints(ds, n)
  BY BencodeAssumption
<1>2. Decimal[n] = CHOOSE ds \in BoundedSeq(Digit, IntMaxLen) : Prints(ds, n)
  BY DEF Decimal
<1>3. Decimal[n] \in BoundedSeq(Digit, IntMaxLen) /\ Prints(Decimal[n], n)
  BY <1>1, <1>2
<1>4. PICK m \in 0..IntMaxLen : Decimal[n] \in [1..m -> Digit]
  BY <1>3 DEF BoundedSeq, SeqOf
<1>5. IntMaxLen \in Nat /\ m \in Nat
  BY BencodeAssumption
<1>6. Decimal[n] \in Seq(Digit) /\ Len(Decimal[n]) = m
  BY <1>4, <1>5, ASeq
<1>7. Decimal[n] # << >> /\ atol(Decimal[n]) = n
  BY <1>3 DEF Prints
<1>8. m # 0
  BY <1>6, <1>7, EmptySeq
<1> QED BY <1>4, <1>5, <1>6, <1>7, <1>8

\* The code of a string or a number, and its size.
LEMMA CodeIs ==
  ASSUME NEW n \in Tree, n[1] \in {"s", "i"}
  PROVE  /\ Code(n) \in Seq(Octet) /\ Len(Code(n)) = LeafSize(n) /\ LeafSize(n) \in Nat \ {0}
<1>1. ":" \in Octet /\ "i" \in Octet /\ "e" \in Octet /\ "-" \in Octet
      /\ Digit \subseteq Octet /\ Payload \subseteq Octet
      /\ IntMaxSize \in Nat /\ StrMaxSize \in Nat /\ StrMaxSize <= IntMaxSize
  BY BencodeAssumption DEF Octet, Mark
<1>2. CASE n[1] = "s"
  <2> DEFINE s == n[2]
             D == Decimal[Len(s)]
  <2>1. s \in Seq(Octet) /\ Len(s) \in 1..StrMaxSize
    <3>1. n[2] \in Seq(Payload) /\ Len(n[2]) \in 1..StrMaxSize
      BY <1>2, TreeIs
    <3> QED BY <3>1, <1>1, SeqMonotonic
  <2>2. D \in Seq(Octet) /\ Len(D) \in Nat
    <3>1. Len(s) \in 0..IntMaxSize
      BY <2>1, <1>1
    <3>2. D \in Seq(Digit)
      BY <3>1, DecimalIs
    <3> QED BY <3>2, <1>1, SeqMonotonic, LenProperties
  <2> HIDE DEF D, s
  <2>3. <<":">> \in Seq(Octet) /\ Len(<<":">>) = 1
    BY <1>1
  <2>4. D \o <<":">> \in Seq(Octet) /\ Len(D \o <<":">>) = Len(D) + 1
    BY <2>2, <2>3, ConcatProperties
  <2>5. D \o <<":">> \o s \in Seq(Octet) /\ Len(D \o <<":">> \o s) = Len(D) + 1 + Len(s)
    BY <2>1, <2>4, ConcatProperties
  <2>6. Code(n) = D \o <<":">> \o s /\ LeafSize(n) = Len(D) + 1 + Len(s)
    BY <1>2 DEF Code, LeafSize, D, s
  <2> QED BY <2>1, <2>2, <2>5, <2>6
<1>3. CASE n[1] = "i"
  <2> DEFINE P == Printed(n[2])
  <2>1. n[2] \in Int /\ -n[2] <= IntMaxSize /\ n[2] <= IntMaxSize
    BY <1>3, <1>1, TreeIs
  <2>2. P \in Seq(Octet) /\ Len(P) \in Nat
    <3>1. CASE n[2] < 0
      <4>1. -n[2] \in 0..IntMaxSize
        BY <2>1, <3>1
      <4>2. Decimal[-n[2]] \in Seq(Octet)
        BY <4>1, <1>1, DecimalIs, SeqMonotonic
      <4>3. <<"-">> \in Seq(Octet)
        BY <1>1
      <4>4. <<"-">> \o Decimal[-n[2]] \in Seq(Octet)
        BY <4>2, <4>3, ConcatProperties
      <4> QED BY <4>4, <3>1, LenProperties DEF Printed
    <3>2. CASE ~(n[2] < 0)
      <4>1. n[2] \in 0..IntMaxSize
        BY <2>1, <3>2
      <4>2. Decimal[n[2]] \in Seq(Octet)
        BY <4>1, <1>1, DecimalIs, SeqMonotonic
      <4> QED BY <4>2, <3>2, LenProperties DEF Printed
    <3> QED BY <3>1, <3>2
  <2> HIDE DEF P
  <2>3. <<"i">> \in Seq(Octet) /\ Len(<<"i">>) = 1 /\ <<"e">> \in Seq(Octet) /\ Len(<<"e">>) = 1
    BY <1>1
  <2>4. <<"i">> \o P \in Seq(Octet) /\ Len(<<"i">> \o P) = 1 + Len(P)
    BY <2>2, <2>3, ConcatProperties
  <2>5. <<"i">> \o P \o <<"e">> \in Seq(Octet) /\ Len(<<"i">> \o P \o <<"e">>) = 1 + Len(P) + 1
    BY <2>3, <2>4, ConcatProperties
  <2>6. Code(n) = <<"i">> \o P \o <<"e">> /\ LeafSize(n) = Len(P) + 2
    BY <1>3 DEF Code, LeafSize, P
  <2> QED BY <2>2, <2>5, <2>6
<1> QED BY <1>2, <1>3

(***************************************************************************)
(* The walk over a value.                                                  *)
(***************************************************************************)

\* A call is for the item which its caller has come to.
Stack(d) ==
  /\ d \in Seq(EncFrame) /\ d # << >>
  /\ d[1].f = "root" /\ d[1].v = <<value>>
  /\ \A i \in 1..(Len(d) - 1) : /\ More(d[i])
                                /\ Item(d[i]) = <<d[i + 1].f, d[i + 1].v>>
                                /\ d[i + 1].f # "root"

\* The steps of both walks from the calls d to the calls e.
LeafStep(d, e)  == /\ More(Last(d)) /\ Item(Last(d))[1] \in {"s", "i"}
                   /\ e = Back(d)
BeginStep(d, e) == /\ More(Last(d)) /\ Item(Last(d))[1] \in {"d", "l"}
                   /\ e = Append(d, Frame(Item(Last(d))))
EndStep(d, e)   == ~More(Last(d)) /\ Len(d) > 1 /\ e = Back(Front(d))

\* The calls of ben_enc_size or ben_enc_rec, the last of them and those below it.
LEMMA StackIs ==
  ASSUME NEW d, Stack(d)
  PROVE  /\ Len(d) \in Nat /\ Len(d) >= 1 /\ d \in Seq(EncFrame)
         /\ \A i \in 1..Len(d) : d[i] \in EncFrame
         /\ Last(d) = d[Len(d)] /\ Last(d) \in EncFrame
         /\ Front(d) \in Seq(EncFrame) /\ Len(Front(d)) = Len(d) - 1
         /\ \A i \in 1..(Len(d) - 1) : Front(d)[i] = d[i]
<1>1. d \in Seq(EncFrame) /\ d # << >>
  BY DEF Stack
<1>2. \A i \in 1..Len(d) : d[i] \in EncFrame
  BY <1>1, ElementOfSeq
<1>3. /\ Front(d) \in Seq(EncFrame) /\ Last(d) \in EncFrame
      /\ Len(d) \in Nat \ {0} /\ Len(Front(d)) = Len(d) - 1
      /\ \A i \in 1..(Len(d) - 1) : Front(d)[i] = d[i]
  BY <1>1, Popped
<1>4. Len(d) \in Nat /\ Len(d) >= 1
  BY <1>3
<1> QED BY <1>1, <1>2, <1>3, <1>4 DEF Last

\* An item more does not change what the call is for.
LEMMA ThroughIs ==
  ASSUME NEW fr \in EncFrame
  PROVE  Through(fr).f = fr.f /\ Through(fr).v = fr.v
BY DEF EncFrame, Through

\* The calls behind an item.
LEMMA BackIs ==
  ASSUME NEW d, Stack(d), More(Last(d))
  PROVE  /\ Stack(Back(d)) /\ Len(Back(d)) = Len(d)
         /\ \A i \in 1..(Len(d) - 1) : Back(d)[i] = d[i]
         /\ Back(d)[Len(d)] = Through(Last(d)) /\ Last(Back(d)) = Through(Last(d))
<1> DEFINE e == Back(d)
           t == Through(Last(d))
<1>1. /\ Len(d) \in Nat /\ Len(d) >= 1 /\ d \in Seq(EncFrame) /\ d # << >>
      /\ Last(d) = d[Len(d)] /\ Last(d) \in EncFrame
  BY StackIs DEF Stack
<1>2. t \in EncFrame /\ t.f = Last(d).f /\ t.v = Last(d).v
  BY <1>1, ItemIs, ThroughIs
<1> HIDE DEF t
<1>3. /\ e \in Seq(EncFrame) /\ e # << >> /\ Len(e) = Len(d)
      /\ \A i \in 1..(Len(d) - 1) : e[i] = d[i]
      /\ e[Len(d)] = t /\ Last(e) = t
  <2>1. e = Append(Front(d), t)
    BY DEF Back, t
  <2> HIDE DEF e
  <2> QED BY <2>1, <1>1, <1>2, Replaced
<1> HIDE DEF e
<1>4. ASSUME NEW i \in 1..Len(d) PROVE e[i].f = d[i].f /\ e[i].v = d[i].v
  <2>1. CASE i \in 1..(Len(d) - 1)
    BY <2>1, <1>3
  <2>2. CASE i = Len(d)
    BY <2>2, <1>1, <1>2, <1>3
  <2> QED BY <2>1, <2>2, <1>1
<1>5. e[1].f = "root" /\ e[1].v = <<value>>
  <2>1. 1 \in 1..Len(d)
    BY <1>1
  <2> QED BY <2>1, <1>4 DEF Stack
<1>6. ASSUME NEW i \in 1..(Len(e) - 1)
      PROVE  More(e[i]) /\ Item(e[i]) = <<e[i + 1].f, e[i + 1].v>> /\ e[i + 1].f # "root"
  <2>1. i \in 1..(Len(d) - 1) /\ i + 1 \in 1..Len(d)
    BY <1>1, <1>3
  <2>2. e[i] = d[i] /\ e[i + 1].f = d[i + 1].f /\ e[i + 1].v = d[i + 1].v
    BY <2>1, <1>3, <1>4
  <2> QED BY <2>1, <2>2 DEF Stack
<1>7. Stack(e)
  BY <1>3, <1>5, <1>6 DEF Stack
<1> QED BY <1>3, <1>7 DEF e, t

\* A call that returns was for the item which its caller has come to.
LEMMA FrontIs ==
  ASSUME NEW d, Stack(d), Len(d) > 1
  PROVE  /\ Stack(Front(d)) /\ More(Last(Front(d)))
         /\ Last(Front(d)) = d[Len(d) - 1]
         /\ Item(Last(Front(d))) = <<Last(d).f, Last(d).v>> /\ Last(d).f # "root"
<1> DEFINE e == Front(d)
<1>1. /\ Len(d) \in Nat /\ Len(d) >= 1
      /\ Last(d) = d[Len(d)]
      /\ e \in Seq(EncFrame) /\ Len(e) = Len(d) - 1
      /\ \A i \in 1..(Len(d) - 1) : e[i] = d[i]
  BY StackIs
<1> HIDE DEF e
<1>2. e # << >> /\ Len(e) - 1 + 1 = Len(e)
  BY <1>1, EmptySeq
<1>3. Last(e) = d[Len(d) - 1]
  <2>1. Len(d) - 1 \in 1..(Len(d) - 1)
    BY <1>1
  <2> QED BY <2>1, <1>1 DEF Last
<1>4. e[1] = d[1]
  <2>1. 1 \in 1..(Len(d) - 1)
    BY <1>1
  <2> QED BY <2>1, <1>1
<1>5. ASSUME NEW i \in 1..(Len(e) - 1)
      PROVE  e[i] = d[i] /\ e[i + 1] = d[i + 1] /\ i \in 1..(Len(d) - 1)
  <2>1. i \in 1..(Len(d) - 1) /\ i + 1 \in 1..(Len(d) - 1)
    BY <1>1
  <2> QED BY <2>1, <1>1
<1>6. Stack(e)
  BY <1>1, <1>2, <1>4, <1>5 DEF Stack
<1>7. More(Last(e)) /\ Item(Last(e)) = <<Last(d).f, Last(d).v>> /\ Last(d).f # "root"
  <2>1. Len(d) - 1 \in 1..(Len(d) - 1) /\ Len(d) - 1 + 1 = Len(d)
    BY <1>1
  <2> QED BY <2>1, <1>1, <1>3 DEF Stack
<1> QED BY <1>3, <1>6, <1>7 DEF e

\* A list or a dictionary begins.
LEMMA PushIs ==
  ASSUME NEW d, Stack(d), More(Last(d)), Item(Last(d))[1] \in {"d", "l"}
  PROVE  Stack(Append(d, Frame(Item(Last(d)))))
<1> DEFINE n == Item(Last(d))
           e == Append(d, Frame(n))
<1>1. /\ Len(d) \in Nat /\ Len(d) >= 1 /\ d \in Seq(EncFrame)
      /\ Last(d) = d[Len(d)] /\ Last(d) \in EncFrame
  BY StackIs
<1>2. n \in Tree /\ n = <<n[1], n[2]>>
  BY <1>1, ItemIs, TreeIs
<1>3. Frame(n) \in EncFrame /\ Frame(n).f = n[1] /\ Frame(n).v = n[2]
  BY <1>2, FrameIs DEF Frame
<1>4. /\ e \in Seq(EncFrame) /\ e # << >> /\ Len(e) = Len(d) + 1
      /\ \A i \in 1..Len(d) : e[i] = d[i]
      /\ e[Len(d) + 1] = Frame(n)
  BY <1>1, <1>3, Pushed
<1> HIDE DEF e
<1>5. e[1].f = "root" /\ e[1].v = <<value>>
  <2>1. 1 \in 1..Len(d)
    BY <1>1
  <2> QED BY <2>1, <1>4 DEF Stack
<1>6. ASSUME NEW i \in 1..(Len(e) - 1)
      PROVE  More(e[i]) /\ Item(e[i]) = <<e[i + 1].f, e[i + 1].v>> /\ e[i + 1].f # "root"
  <2>1. i \in 1..Len(d)
    BY <1>1, <1>4
  <2>2. CASE i = Len(d)
    <3>1. e[i] = Last(d) /\ e[i + 1] = Frame(n)
      BY <2>1, <2>2, <1>1, <1>4
    <3> QED BY <3>1, <1>2, <1>3
  <2>3. CASE i # Len(d)
    <3>1. i \in 1..(Len(d) - 1) /\ i + 1 \in 1..Len(d)
      BY <2>1, <2>3, <1>1
    <3>2. e[i] = d[i] /\ e[i + 1] = d[i + 1]
      BY <2>1, <3>1, <1>4
    <3> QED BY <3>1, <3>2 DEF Stack
  <2> QED BY <2>2, <2>3
<1>7. Stack(e)
  BY <1>4, <1>5, <1>6 DEF Stack
<1> QED BY <1>7 DEF e

\* A step of either walk.
Walk(d, e) == LeafStep(d, e) \/ BeginStep(d, e) \/ EndStep(d, e)

\* The calls stay in order through all the steps of the walks.
LEMMA WalkKeepsStack ==
  ASSUME NEW d, NEW e, Stack(d), Walk(d, e)
  PROVE  Stack(e)
<1>1. CASE LeafStep(d, e)
  BY <1>1, BackIs DEF LeafStep
<1>2. CASE BeginStep(d, e)
  BY <1>2, PushIs DEF BeginStep
<1>3. CASE EndStep(d, e)
  <2>1. Stack(Front(d)) /\ More(Last(Front(d)))
    BY <1>3, FrontIs DEF EndStep
  <2> QED BY <1>3, <2>1, BackIs DEF EndStep
<1> QED BY <1>1, <1>2, <1>3 DEF Walk

(***************************************************************************)
(* The steps of ben_dec over what ben_validate has accepted.               *)
(***************************************************************************)

\* A dictionary that waits for the value of a key.
Waits(o, cs, i) == o[i].f = "d" /\ (i < Len(o) \/ Last(cs) = "r")

\* The values under construction are those that ben_validate was in, when cs
\* were its calls.
Follows(o, cs) ==
  /\ o # << >> /\ \E S : o \in Seq(S)
  /\ \A i \in 1..Len(o) : o[i] = [f |-> o[i].f, v |-> o[i].v, key |-> o[i].key]
  /\ o[1].f = "root"
  /\ Len(o) = Len(Base(cs)) + 1
  /\ \A i \in 1..Len(Base(cs)) : o[i + 1].f = Base(cs)[i]
  /\ \A i \in 1..Len(o) : IF Waits(o, cs, i) THEN o[i].key # << >> ELSE o[i].key = << >>

\* A value goes to the innermost of those under construction; a new one.
GiveTo(frames, n) == Append(Front(frames), Gets(Last(frames), n))
New(c) == [f |-> c, v |-> << >>, key |-> << >>]

\* The functions that are in progress are those of lists and dictionaries.
LEMMA BaseIs ==
  ASSUME NEW cs \in Seq(CallName), Neat(cs)
  PROVE  /\ Base(cs) \in Seq(CallName) /\ Len(Base(cs)) \in Nat
         /\ Base(Base(cs)) = Base(cs)
         /\ Base(cs) = << >> \/ Last(Base(cs)) # "r"
         /\ \A i \in 1..Len(Base(cs)) : Base(cs)[i] \in {"d", "l"}
         /\ cs # << >> /\ Last(cs) # "r" => Base(cs) = cs
<1>1. CASE cs = << >>
  <2>1. Front(cs) = << >>
    <3>1. Front(cs) = SubSeq(cs, 1, -1)
      BY <1>1 DEF Front
    <3> QED BY <3>1, SubSeqEmpty
  <2>2. Base(cs) = << >>
    BY <1>1, <2>1 DEF Base
  <2>3. Len(Base(cs)) = 0 /\ Len(Base(cs)) \in Nat
    BY <2>2
  <2>4. Base(cs) = cs /\ Base(Base(cs)) = Base(cs)
    BY <1>1, <2>2
  <2>5. \A i \in 1..Len(Base(cs)) : FALSE
    BY <2>3
  <2> QED BY <2>2, <2>3, <2>4, <2>5
<1>2. CASE cs # << >>
  <2>1. /\ Front(cs) \in Seq(CallName)
        /\ Len(cs) \in Nat \ {0} /\ Len(Front(cs)) = Len(cs) - 1
        /\ \A i \in 1..(Len(cs) - 1) : Front(cs)[i] = cs[i]
    BY <1>2, Popped
  <2>2. Last(cs) \in {"r", "d", "l"} /\ \A i \in 1..(Len(cs) - 1) : cs[i] \in {"d", "l"}
    BY <1>2 DEF Neat
  <2>3. Base(cs) \in Seq(CallName) /\ Len(Base(cs)) \in Nat
    <3>1. Base(cs) \in Seq(CallName)
      BY <2>1 DEF Base
    <3> QED BY <3>1, LenProperties
  <2>4. \A i \in 1..Len(Base(cs)) : Base(cs)[i] \in {"d", "l"}
    <3>1. CASE Last(cs) = "r"
      BY <3>1, <2>1, <2>2 DEF Base
    <3>2. CASE Last(cs) # "r"
      <4>1. \A i \in 1..Len(cs) : i \in 1..(Len(cs) - 1) \/ i = Len(cs)
        BY <2>1
      <4> QED BY <3>2, <4>1, <2>2 DEF Base, Last
    <3> QED BY <3>1, <3>2
  <2>5. Base(cs) = << >> \/ Last(Base(cs)) # "r"
    <3>1. SUFFICES ASSUME Base(cs) # << >> PROVE Last(Base(cs)) # "r"
      OBVIOUS
    <3>2. Len(Base(cs)) \in 1..Len(Base(cs))
      BY <2>3, <3>1, EmptySeq
    <3> QED BY <3>2, <2>4 DEF Last
  <2>6. Base(Base(cs)) = Base(cs)
    <3>1. CASE Base(cs) = << >>
      <4>1. Front(Base(cs)) = << >>
        <5>1. Front(Base(cs)) = SubSeq(Base(cs), 1, -1)
          BY <3>1 DEF Front
        <5> QED BY <5>1, SubSeqEmpty
      <4>2. \A d : Base(d) = Front(d) \/ Base(d) = d
        BY DEF Base
      <4> QED BY <3>1, <4>1, <4>2
    <3>2. CASE Base(cs) # << >>
      <4>1. Last(Base(cs)) # "r"
        BY <3>2, <2>5
      <4>2. \A d : Last(d) # "r" => Base(d) = d
        BY DEF Base
      <4> QED BY <4>1, <4>2
    <3> QED BY <3>1, <3>2
  <2>7. Last(cs) # "r" => Base(cs) = cs
    BY DEF Base
  <2> QED BY <2>3, <2>4, <2>5, <2>6, <2>7
<1> QED BY <1>1, <1>2

\* The innermost value.
LEMMA TopIs ==
  ASSUME NEW cs \in Seq(CallName), cs # << >>, Neat(cs), NEW o, Follows(o, cs)
  PROVE  /\ Len(o) \in Nat /\ Len(o) >= 1 /\ Last(o) = o[Len(o)]
         /\ Last(cs) = "r" => ~(Last(o).f = "d" /\ Last(o).key = << >>)
         /\ Last(cs) \in {"d", "l"} => /\ Last(o).f = Last(cs) /\ Len(o) >= 2
                                       /\ Last(o).key = << >> /\ Last(o).f # "root"
<1>1. PICK S : o \in Seq(S)
  BY DEF Follows
<1>2. Len(o) \in Nat /\ Len(o) >= 1 /\ Last(o) = o[Len(o)] /\ Len(o) \in 1..Len(o)
  BY <1>1, LenProperties, EmptySeq DEF Follows, Last
<1>3. IF Waits(o, cs, Len(o)) THEN o[Len(o)].key # << >> ELSE o[Len(o)].key = << >>
  BY <1>2 DEF Follows
<1>4. ~(Len(o) < Len(o))
  BY <1>2
<1>5. CASE Last(cs) = "r"
  BY <1>2, <1>3, <1>5 DEF Waits
<1>6. CASE Last(cs) \in {"d", "l"}
  <2>1. Base(cs) = cs /\ Len(cs) \in Nat /\ Len(cs) >= 1
    BY <1>6, LenProperties, EmptySeq DEF Base
  <2>2. Len(cs) \in 1..Len(Base(cs)) /\ Len(o) = Len(cs) + 1
    BY <2>1 DEF Follows
  <2>3. Last(o).f = Last(cs)
    BY <1>2, <2>1, <2>2 DEF Follows, Last
  <2>4. ~Waits(o, cs, Len(o))
    BY <1>4, <1>6 DEF Waits
  <2> QED BY <1>2, <1>3, <1>6, <2>1, <2>2, <2>3, <2>4
<1>7. Last(cs) \in {"r", "d", "l"}
  BY DEF Neat
<1> QED BY <1>2, <1>5, <1>6, <1>7

\* A frame that gets a value.
LEMMA GetsIs ==
  ASSUME NEW fr, fr = [f |-> fr.f, v |-> fr.v, key |-> fr.key], NEW n, n # << >>
  PROVE  /\ Gets(fr, n).f = fr.f
         /\ Gets(fr, n) = [f |-> Gets(fr, n).f, v |-> Gets(fr, n).v, key |-> Gets(fr, n).key]
         /\ fr.f = "d" /\ fr.key = << >> => Gets(fr, n).key = n /\ Gets(fr, n).v = fr.v
         /\ fr.f = "d" /\ fr.key # << >> => /\ Gets(fr, n).key = << >>
                                            /\ Gets(fr, n).v = Append(fr.v, <<fr.key, n>>)
         /\ fr.f # "d" => Gets(fr, n).key = fr.key /\ Gets(fr, n).v = Append(fr.v, n)
<1>1. CASE fr.f # "d"
  <2>1. Gets(fr, n) = [fr EXCEPT !.v = Append(@, n)]
    BY <1>1 DEF Gets
  <2>2. Gets(fr, n) = [f |-> fr.f, v |-> Append(fr.v, n), key |-> fr.key]
    BY <2>1
  <2> QED BY <1>1, <2>2
<1>2. CASE fr.f = "d" /\ fr.key = << >>
  <2>1. Gets(fr, n) = [fr EXCEPT !.key = n]
    BY <1>2 DEF Gets
  <2>2. Gets(fr, n) = [f |-> fr.f, v |-> fr.v, key |-> n]
    BY <2>1
  <2> QED BY <1>2, <2>2
<1>3. CASE fr.f = "d" /\ fr.key # << >>
  <2>1. Gets(fr, n) = [fr EXCEPT !.v = Append(@, <<fr.key, n>>), !.key = << >>]
    BY <1>3 DEF Gets
  <2>2. Gets(fr, n) = [f |-> fr.f, v |-> Append(fr.v, <<fr.key, n>>), key |-> << >>]
    BY <2>1
  <2> QED BY <1>3, <2>2
<1> QED BY <1>1, <1>2, <1>3

\* The frames after the innermost one has got a value.
LEMMA GiveToIs ==
  ASSUME NEW o, o # << >>, NEW S, o \in Seq(S), NEW n
  PROVE  /\ \E T : GiveTo(o, n) \in Seq(T)
         /\ GiveTo(o, n) # << >> /\ Len(GiveTo(o, n)) = Len(o)
         /\ Len(o) \in Nat /\ Len(o) >= 1
         /\ \A i \in 1..(Len(o) - 1) : GiveTo(o, n)[i] = o[i]
         /\ GiveTo(o, n)[Len(o)] = Gets(o[Len(o)], n)
<1> DEFINE x == Gets(Last(o), n)
           T == S \cup {x}
<1>1. o \in Seq(T) /\ x \in T
  BY SeqMonotonic
<1> HIDE DEF x, T
<1>2. /\ Append(Front(o), x) \in Seq(T) /\ Append(Front(o), x) # << >>
      /\ Len(Append(Front(o), x)) = Len(o)
      /\ \A i \in 1..(Len(o) - 1) : Append(Front(o), x)[i] = o[i]
      /\ Append(Front(o), x)[Len(o)] = x
  BY <1>1, Replaced
<1>3. GiveTo(o, n) = Append(Front(o), x)
  BY DEF GiveTo, x
<1>4. x = Gets(o[Len(o)], n)
  BY DEF x, Last
<1>5. Len(o) \in Nat /\ Len(o) >= 1
  BY LenProperties, EmptySeq
<1> QED BY <1>2, <1>3, <1>4, <1>5

\* ben_dec gives a value to its caller where ben_validate returns.
LEMMA GiveFollows ==
  ASSUME NEW cs \in Seq(CallName), cs # << >>, Neat(cs), NEW o, Follows(o, cs),
         NEW n, n # << >>, NEW ds \in Seq(CallName),
         \/ Last(cs) = "d" /\ ds = Append(cs, "r")
         \/ Last(cs) \in {"r", "l"} /\ ds = Base(cs)
  PROVE  Follows(GiveTo(o, n), ds)
<1> DEFINE e == GiveTo(o, n)
<1>1. PICK S : o \in Seq(S)
  BY DEF Follows
<1>2. /\ \E T : e \in Seq(T)
      /\ e # << >> /\ Len(e) = Len(o)
      /\ Len(o) \in Nat /\ Len(o) >= 1
      /\ \A i \in 1..(Len(o) - 1) : e[i] = o[i]
      /\ e[Len(o)] = Gets(o[Len(o)], n)
  BY <1>1, GiveToIs DEF Follows
<1> HIDE DEF e
<1>3. \A i \in 1..Len(o) : o[i] = [f |-> o[i].f, v |-> o[i].v, key |-> o[i].key]
  BY DEF Follows
<1>4. /\ e[Len(o)].f = o[Len(o)].f
      /\ e[Len(o)] = [f |-> e[Len(o)].f, v |-> e[Len(o)].v, key |-> e[Len(o)].key]
      /\ o[Len(o)].f = "d" /\ o[Len(o)].key = << >> => e[Len(o)].key = n
      /\ o[Len(o)].f = "d" /\ o[Len(o)].key # << >> => e[Len(o)].key = << >>
      /\ o[Len(o)].f # "d" => e[Len(o)].key = o[Len(o)].key
  <2>1. Len(o) \in 1..Len(o)
    BY <1>2
  <2>2. o[Len(o)] = [f |-> o[Len(o)].f, v |-> o[Len(o)].v, key |-> o[Len(o)].key]
    BY <1>3, <2>1
  <2> DEFINE fr == o[Len(o)]
  <2>3. e[Len(o)] = Gets(fr, n)
    BY <1>2
  <2>4. fr = [f |-> fr.f, v |-> fr.v, key |-> fr.key]
    BY <2>2
  <2> HIDE DEF fr
  <2>5. /\ Gets(fr, n).f = fr.f
        /\ Gets(fr, n) = [f |-> Gets(fr, n).f, v |-> Gets(fr, n).v, key |-> Gets(fr, n).key]
        /\ fr.f = "d" /\ fr.key = << >> => Gets(fr, n).key = n
        /\ fr.f = "d" /\ fr.key # << >> => Gets(fr, n).key = << >>
        /\ fr.f # "d" => Gets(fr, n).key = fr.key
    BY <2>4, GetsIs
  <2> QED BY <2>3, <2>5 DEF fr
<1>5. \A i \in 1..Len(o) : i \in 1..(Len(o) - 1) \/ i = Len(o)
  BY <1>2
<1>6. \A i \in 1..Len(o) : e[i].f = o[i].f
  BY <1>2, <1>4, <1>5
<1>7. \A i \in 1..Len(e) : e[i] = [f |-> e[i].f, v |-> e[i].v, key |-> e[i].key]
  BY <1>2, <1>3, <1>4, <1>5
<1>8. Base(ds) = Base(cs) /\ Len(Base(cs)) \in Nat
  <2>1. CASE Last(cs) = "d"
    <3>1. ds = Append(cs, "r") /\ "r" \in CallName
      BY <2>1 DEF CallName
    <3>2. Last(ds) = "r" /\ Front(ds) = cs
      BY <3>1, Pushed
    <3>3. Base(ds) = cs /\ Base(cs) = cs
      BY <2>1, <3>2 DEF Base
    <3> QED BY <3>3, LenProperties
  <2>2. CASE Last(cs) # "d"
    BY <2>2, BaseIs
  <2> QED BY <2>1, <2>2
<1>9. e[1].f = "root"
  <2>1. 1 \in 1..Len(o)
    BY <1>2
  <2> QED BY <2>1, <1>6 DEF Follows
<1>10. Len(e) = Len(Base(ds)) + 1
  BY <1>2, <1>8 DEF Follows
<1>11. \A i \in 1..Len(Base(ds)) : e[i + 1].f = Base(ds)[i]
  <2>1. \A i \in 1..Len(Base(cs)) : i + 1 \in 1..Len(o)
    BY <1>2, <1>8 DEF Follows
  <2> QED BY <2>1, <1>6, <1>8 DEF Follows
<1>12. ASSUME NEW i \in 1..Len(e)
       PROVE  IF Waits(e, ds, i) THEN e[i].key # << >> ELSE e[i].key = << >>
  <2>1. /\ IF Waits(o, cs, i) THEN o[i].key # << >> ELSE o[i].key = << >>
        /\ e[i].f = o[i].f
    BY <1>2, <1>6 DEF Follows
  <2>2. CASE i \in 1..(Len(o) - 1)
    <3>1. i < Len(o) /\ i < Len(e) /\ e[i] = o[i]
      BY <2>2, <1>2
    <3> QED BY <3>1, <2>1 DEF Waits
  <2>3. CASE i = Len(o)
    <3>1. ~(i < Len(o)) /\ ~(i < Len(e))
      BY <2>3, <1>2
    <3>2. CASE Last(cs) = "d"
      <4>1. "r" \in CallName
        BY DEF CallName
      <4>2. ds = Append(cs, "r")
        BY <3>2
      <4>3. Last(ds) = "r"
        BY <4>1, <4>2, Pushed
      <4>4. o[i].f = "d" /\ o[i].key = << >>
        BY <2>3, <3>2, TopIs
      <4> QED BY <2>1, <2>3, <4>3, <4>4, <1>4 DEF Waits
    <3>3. CASE Last(cs) \in {"r", "l"}
      <4>1. o[i].f = "d" => o[i].key # << >>
        <5>1. Last(o) = o[i]
          BY <2>3, TopIs
        <5>2. CASE Last(cs) = "r"
          BY <5>1, <5>2, TopIs
        <5>3. CASE Last(cs) = "l"
          BY <5>1, <5>3, TopIs
        <5> QED BY <3>3, <5>2, <5>3
      <4>2. e[i].key = << >>
        <5>1. CASE o[i].f = "d"
          BY <4>1, <5>1, <2>3, <1>4
        <5>2. CASE o[i].f # "d"
          BY <5>2, <2>1, <2>3, <1>4 DEF Waits
        <5> QED BY <5>1, <5>2
      <4>3. ~Waits(e, ds, i)
        <5>1. SUFFICES ASSUME e[i].f = "d", Last(ds) = "r" PROVE FALSE
          BY <3>1 DEF Waits
        <5>2. ds = Base(cs) /\ Base(cs) = << >>
          BY <5>1, <3>3, BaseIs
        <5>3. Len(o) = 1
          BY <5>2, <1>8, <1>10, <1>2
        <5> QED BY <5>1, <5>3, <2>3, <1>9
      <4> QED BY <4>2, <4>3
    <3> QED BY <3>2, <3>3
  <2> QED BY <2>2, <2>3, <1>2, <1>5
<1>13. Follows(e, ds)
  BY <1>2, <1>7, <1>9, <1>10, <1>11, <1>12 DEF Follows
<1> QED BY <1>13 DEF e

\* ben_dec begins a list or a dictionary where ben_validate does.
LEMMA PushFollows ==
  ASSUME NEW cs \in Seq(CallName), cs # << >>, Neat(cs), Last(cs) \in {"r", "l"},
         NEW o, Follows(o, cs), NEW c \in {"d", "l"}
  PROVE  Follows(Append(o, New(c)), Append(Base(cs), c))
<1> DEFINE e == Append(o, New(c))
           ds == Append(Base(cs), c)
<1>1. PICK S : o \in Seq(S)
  BY DEF Follows
<1>2. /\ \E T : e \in Seq(T)
      /\ e # << >> /\ Len(e) = Len(o) + 1 /\ Len(o) \in Nat
      /\ \A i \in 1..Len(o) : e[i] = o[i]
      /\ e[Len(o) + 1] = New(c)
  <2> DEFINE x == New(c)
             T == S \cup {x}
  <2>1. o \in Seq(T) /\ x \in T
    BY <1>1, SeqMonotonic
  <2> HIDE DEF x, T
  <2>2. /\ Append(o, x) \in Seq(T) /\ Append(o, x) # << >>
        /\ Len(Append(o, x)) = Len(o) + 1 /\ Len(o) \in Nat
        /\ \A i \in 1..Len(o) : Append(o, x)[i] = o[i]
        /\ Append(o, x)[Len(o) + 1] = x
    BY <2>1, Pushed
  <2>3. e = Append(o, x) /\ x = New(c)
    BY DEF x
  <2> QED BY <2>2, <2>3
<1>3. /\ Base(cs) \in Seq(CallName) /\ Len(Base(cs)) \in Nat /\ c \in CallName
  BY BaseIs DEF CallName
<1>4. /\ ds \in Seq(CallName) /\ Len(ds) = Len(Base(cs)) + 1
      /\ \A i \in 1..Len(Base(cs)) : ds[i] = Base(cs)[i]
      /\ ds[Len(Base(cs)) + 1] = c /\ Last(ds) = c
  BY <1>3, Pushed
<1>5. Base(ds) = ds
  <2>1. Last(ds) # "r"
    BY <1>4
  <2> HIDE DEF ds
  <2> QED BY <2>1 DEF Base
<1> HIDE DEF e, ds
<1>6. Len(o) = Len(Base(cs)) + 1 /\ Len(e) = Len(ds) + 1 /\ Len(o) >= 1
  BY <1>2, <1>3, <1>4 DEF Follows
<1>7. /\ New(c).f = c /\ New(c).v = << >> /\ New(c).key = << >>
      /\ New(c) = [f |-> c, v |-> << >>, key |-> << >>]
  BY DEF New
<1>8. \A i \in 1..Len(e) : i \in 1..Len(o) \/ i = Len(o) + 1
  BY <1>2
<1>9. \A i \in 1..Len(e) : e[i] = [f |-> e[i].f, v |-> e[i].v, key |-> e[i].key]
  <2>1. SUFFICES ASSUME NEW i \in 1..Len(e)
                 PROVE  e[i] = [f |-> e[i].f, v |-> e[i].v, key |-> e[i].key]
    OBVIOUS
  <2>2. CASE i \in 1..Len(o)
    BY <2>2, <1>2 DEF Follows
  <2>3. CASE i = Len(o) + 1
    BY <2>3, <1>2, <1>7
  <2> QED BY <2>2, <2>3, <1>8
<1>10. e[1].f = "root"
  <2>1. 1 \in 1..Len(o)
    BY <1>2, <1>6
  <2> QED BY <2>1, <1>2 DEF Follows
<1>11. ASSUME NEW i \in 1..Len(Base(ds)) PROVE e[i + 1].f = Base(ds)[i]
  <2>1. CASE i \in 1..Len(Base(cs))
    <3>1. i + 1 \in 1..Len(o)
      BY <2>1, <1>3, <1>6
    <3> QED BY <2>1, <3>1, <1>2, <1>4, <1>5 DEF Follows
  <2>2. CASE i = Len(Base(cs)) + 1
    <3>1. i + 1 = Len(o) + 1
      BY <2>2, <1>6
    <3> QED BY <2>2, <3>1, <1>2, <1>4, <1>5, <1>7
  <2>3. i \in 1..Len(Base(cs)) \/ i = Len(Base(cs)) + 1
    BY <1>3, <1>4, <1>5
  <2> QED BY <2>1, <2>2, <2>3
<1>12. ASSUME NEW i \in 1..Len(e)
       PROVE  IF Waits(e, ds, i) THEN e[i].key # << >> ELSE e[i].key = << >>
  <2>1. CASE i \in 1..(Len(o) - 1)
    <3>1. i < Len(o) /\ i < Len(e) /\ e[i] = o[i] /\ i \in 1..Len(o)
      BY <2>1, <1>2
    <3>2. IF Waits(o, cs, i) THEN o[i].key # << >> ELSE o[i].key = << >>
      BY <3>1 DEF Follows
    <3> QED BY <3>1, <3>2 DEF Waits
  <2>2. CASE i = Len(o)
    <3>1. i < Len(e) /\ e[i] = o[i] /\ i \in 1..Len(o) /\ Last(o) = o[i]
      BY <2>2, <1>2, <1>6, TopIs
    <3>2. IF Waits(o, cs, i) THEN o[i].key # << >> ELSE o[i].key = << >>
      BY <3>1 DEF Follows
    <3>3. o[i].f = "d" => o[i].key # << >>
      <4>1. CASE Last(cs) = "r"
        BY <3>1, <4>1, TopIs
      <4>2. CASE Last(cs) = "l"
        BY <3>1, <4>2, TopIs
      <4> QED BY <4>1, <4>2
    <3> QED BY <3>1, <3>2, <3>3 DEF Waits
  <2>3. CASE i = Len(o) + 1
    <3>1. e[i].key = << >> /\ ~(i < Len(e)) /\ Last(ds) # "r"
      BY <2>3, <1>2, <1>4, <1>7
    <3> QED BY <3>1 DEF Waits
  <2> QED BY <2>1, <2>2, <2>3, <1>2
<1>13. Len(e) = Len(Base(ds)) + 1
  BY <1>5, <1>6
<1>14. Follows(e, ds)
  BY <1>2, <1>9, <1>10, <1>11, <1>12, <1>13 DEF Follows
<1> QED BY <1>14 DEF e, ds

\* What is below the innermost value waits for it.
LEMMA BelowFollows ==
  ASSUME NEW cs \in Seq(CallName), cs # << >>, Neat(cs), Last(cs) \in {"d", "l"},
         NEW o, Follows(o, cs)
  PROVE  LET ds == Append(Front(cs), "r")
         IN  /\ ds \in Seq(CallName) /\ ds # << >> /\ Neat(ds)
             /\ Last(ds) = "r" /\ Base(ds) = Front(cs) /\ Follows(Front(o), ds)
<1> DEFINE e == Front(o)
           ds == Append(Front(cs), "r")
<1>1. PICK S : o \in Seq(S)
  BY DEF Follows
<1>2. /\ Len(o) \in Nat /\ Len(o) >= 2 /\ Last(o).f # "root"
  BY TopIs
<1>3. /\ e \in Seq(S) /\ Len(e) = Len(o) - 1 /\ \A i \in 1..(Len(o) - 1) : e[i] = o[i]
  BY <1>1, Popped DEF Follows
<1>4. /\ Front(cs) \in Seq(CallName) /\ Len(cs) \in Nat \ {0} /\ Len(Front(cs)) = Len(cs) - 1
      /\ \A i \in 1..(Len(cs) - 1) : Front(cs)[i] = cs[i]
  BY Popped
<1>5. "r" \in CallName
  BY DEF CallName
<1>6. /\ ds \in Seq(CallName) /\ ds # << >> /\ Len(ds) = Len(Front(cs)) + 1
      /\ Last(ds) = "r" /\ Front(ds) = Front(cs)
      /\ \A i \in 1..Len(Front(cs)) : ds[i] = Front(cs)[i]
  BY <1>4, <1>5, Pushed
<1> HIDE DEF e, ds
<1>7. Base(ds) = Front(cs) /\ Base(cs) = cs
  BY <1>6, BaseIs DEF Base
<1>8. Neat(ds)
  <2>1. \A i \in 1..(Len(cs) - 1) : cs[i] \in {"d", "l"}
    BY DEF Neat
  <2>2. Len(ds) - 1 = Len(cs) - 1 /\ Len(Front(cs)) = Len(cs) - 1
    BY <1>4, <1>6
  <2> QED BY <2>1, <2>2, <1>4, <1>6 DEF Neat
<1>9. Len(o) = Len(cs) + 1
  BY <1>7 DEF Follows
<1>10. e # << >> /\ Len(e) = Len(cs)
  BY <1>2, <1>3, <1>4, <1>9
<1>11. ASSUME NEW i \in 1..Len(e) PROVE e[i] = o[i] /\ i \in 1..Len(o) /\ i < Len(o)
  BY <1>2, <1>3
<1>12. e[1].f = "root"
  <2>1. 1 \in 1..Len(e)
    BY <1>2, <1>3
  <2> QED BY <2>1, <1>11 DEF Follows
<1>13. \A i \in 1..Len(Base(ds)) : e[i + 1].f = Base(ds)[i]
  <2>1. SUFFICES ASSUME NEW i \in 1..Len(Front(cs)) PROVE e[i + 1].f = Front(cs)[i]
    BY <1>7
  <2>2. i + 1 \in 1..Len(e) /\ i \in 1..(Len(cs) - 1) /\ i \in 1..Len(cs)
    BY <1>4, <1>10
  <2>3. e[i + 1] = o[i + 1]
    BY <2>2, <1>11
  <2>4. o[i + 1].f = cs[i]
    BY <2>2, <1>7 DEF Follows
  <2> QED BY <2>2, <2>3, <2>4, <1>4
<1>14. ASSUME NEW i \in 1..Len(e)
       PROVE  IF Waits(e, ds, i) THEN e[i].key # << >> ELSE e[i].key = << >>
  <2>1. e[i] = o[i] /\ i \in 1..Len(o) /\ i < Len(o)
    BY <1>11
  <2>2. IF Waits(o, cs, i) THEN o[i].key # << >> ELSE o[i].key = << >>
    BY <2>1 DEF Follows
  <2> QED BY <2>1, <2>2, <1>6 DEF Waits
<1>15. \A i \in 1..Len(e) : e[i] = [f |-> e[i].f, v |-> e[i].v, key |-> e[i].key]
  BY <1>11 DEF Follows
<1>16. Len(e) = Len(Base(ds)) + 1
  BY <1>4, <1>7, <1>10
<1>17. Follows(e, ds)
  BY <1>3, <1>10, <1>12, <1>13, <1>14, <1>15, <1>16 DEF Follows
<1> QED BY <1>6, <1>7, <1>8, <1>17 DEF e, ds

\* The digits which a function runs over.
LEMMA RunIs ==
  ASSUME NEW b, Len(b) \in Nat, NEW q \in Nat, NEW n \in Nat, q + n < Len(b),
         \A k \in 1..n : b[q + k] \in Digit, b[q + n + 1] \notin Digit
  PROVE  Run(b, q) = n
<1> DEFINE R(m) == /\ \A k \in 1..m : b[q + k] \in Digit
                   /\ q + m = Len(b) \/ b[q + m + 1] \notin Digit
<1>1. n \in 0..(Len(b) - q) /\ R(n)
  OBVIOUS
<1>2. ASSUME NEW m \in 0..(Len(b) - q), R(m) PROVE m = n
  <2>1. m \in Nat
    OBVIOUS
  <2>2. ~(m < n)
    <3>1. SUFFICES ASSUME m < n PROVE FALSE
      OBVIOUS
    <3>2. m + 1 \in 1..n /\ q + (m + 1) = q + m + 1 /\ q + m # Len(b)
      BY <2>1, <3>1
    <3>3. b[q + (m + 1)] \in Digit
      BY <3>2
    <3> QED BY <3>2, <3>3, <1>2
  <2>3. ~(n < m)
    <3>1. SUFFICES ASSUME n < m PROVE FALSE
      OBVIOUS
    <3>2. n + 1 \in 1..m /\ q + (n + 1) = q + n + 1
      BY <2>1, <3>1
    <3>3. b[q + (n + 1)] \in Digit
      BY <3>2, <1>2
    <3> QED BY <3>2, <3>3
  <2> QED BY <2>1, <2>2, <2>3
<1>3. Run(b, q) = CHOOSE m \in 0..(Len(b) - q) : R(m)
  BY DEF Run
<1> HIDE DEF R
<1> QED BY <1>1, <1>2, <1>3

\* The values of codes.
StrVal(b, a, n, l) == <<"s", SubSeq(b, a + n + 2, a + n + 1 + l)>>
IntVal(b, a, m, n) == LET i == atol(SubSeq(b, a + m + 2, a + m + n + 1))
                      IN  <<"i", IF m = 1 THEN -i ELSE i>>

\* ben_dec_s reads the string that is there.
LEMMA DecodesString ==
  ASSUME raw \in Seq(Octet), p \in Nat, NEW n \in Nat, NEW l \in Nat,
         StringAt(raw, p, n, l), ben_dec_s
  PROVE  /\ p' = p + n + 1 + l /\ open' = GiveTo(open, StrVal(raw, p, n, l))
         /\ result' = IF Len(open) = 1 THEN "decoded" ELSE "valid"
<1>1. /\ Len(raw) \in Nat /\ n >= 1 /\ l >= 1 /\ p + n + 1 + l <= Len(raw)
      /\ \A k \in 1..n : raw[p + k] \in Digit
      /\ raw[p + n + 1] = ":"
      /\ atol(SubSeq(raw, p + 1, p + n)) = l
  BY LenProperties DEF StringAt
<1>2. Run(raw, p) = n
  <2>1. p + n < Len(raw)
    BY <1>1
  <2>2. raw[p + n + 1] \notin Digit
    BY <1>1, DigitIs DEF Mark
  <2> QED BY <1>1, <2>1, <2>2, RunIs
<1>3. p + n < Len(raw) /\ l > 0
  BY <1>1
<1>4. Stopped(raw, p + n, ":")
  BY <1>1, <1>3 DEF Stopped
<1>5. /\ p + n + 1 + l <= Len(raw)
      /\ Give(open, <<"s", SubSeq(raw, p + n + 2, p + n + 1 + l)>>, p + n + 1 + l)
  BY <1>1, <1>2, <1>3, <1>4 DEF ben_dec_s
<1> QED BY <1>5 DEF Give, GiveTo, StrVal

\* ben_dec_i reads the number that is there.
LEMMA DecodesNumber ==
  ASSUME raw \in Seq(Octet), p \in Nat, NEW m \in Nat, NEW n \in Nat,
         NumberAt(raw, p, m, n), ben_dec_i
  PROVE  /\ p' = p + m + n + 2 /\ open' = GiveTo(open, IntVal(raw, p, m, n))
         /\ result' = IF Len(open) = 1 THEN "decoded" ELSE "valid"
<1>1. /\ Len(raw) \in Nat /\ m \in 0..1 /\ n >= 1 /\ p + m + n + 2 <= Len(raw)
      /\ (m = 1 => raw[p + 2] = "-")
      /\ \A k \in 1..n : raw[p + 1 + m + k] \in Digit
      /\ raw[p + m + n + 2] = "e"
  BY LenProperties DEF NumberAt
<1>2. Stopped(raw, p + 1, "-") <=> m = 1
  <2>1. CASE m = 1
    <3>1. p + 1 < Len(raw) /\ p + 1 + 1 = p + 2
      BY <1>1, <2>1
    <3> QED BY <3>1, <2>1, <1>1 DEF Stopped
  <2>2. CASE m = 0
    <3>1. 1 \in 1..n /\ p + 1 + m + 1 = p + 1 + 1
      BY <1>1, <2>2
    <3>2. raw[p + 1 + 1] \in Digit
      BY <3>1, <1>1
    <3>3. raw[p + 1 + 1] # "-"
      BY <3>2, DigitIs DEF Mark
    <3> QED BY <3>3, <2>2 DEF Stopped
  <2> QED BY <2>1, <2>2, <1>1
<1> DEFINE start == p + 1 + m
<1>3. /\ start \in Nat /\ (IF Stopped(raw, p + 1, "-") THEN p + 2 ELSE p + 1) = start
      /\ start + n < Len(raw) /\ start + n + 1 = p + m + n + 2
      /\ start + 1 = p + m + 2 /\ start + n = p + m + n + 1
  BY <1>1, <1>2
<1>4. \A k \in 1..n : raw[start + k] \in Digit
  BY <1>1
<1> HIDE DEF start
<1>5. Run(raw, start) = n
  <2>1. raw[start + n + 1] \notin Digit
    BY <1>1, <1>3, DigitIs DEF Mark
  <2> QED BY <1>1, <1>3, <1>4, <2>1, RunIs
<1>6. Stopped(raw, start + n, "e")
  BY <1>1, <1>3 DEF Stopped
<1> DEFINE i == atol(SubSeq(raw, start + 1, start + n))
<1>7. Give(open, <<"i", IF Stopped(raw, p + 1, "-") THEN -i ELSE i>>, start + n + 1)
  BY <1>3, <1>5, <1>6 DEF ben_dec_i
<1>8. <<"i", IF Stopped(raw, p + 1, "-") THEN -i ELSE i>> = IntVal(raw, p, m, n)
  BY <1>2, <1>3 DEF IntVal
<1> HIDE DEF i
<1> QED BY <1>3, <1>7, <1>8 DEF Give, GiveTo

\* The outermost value is complete when no call is left.
Ended(n) == result' = IF n = 1 THEN "decoded" ELSE "valid"

\* What ben_dec makes of the step from h to g.
DecodesTo(h, g) ==
  \/ Begins(raw, h, g) /\ open' = Append(open, New(raw[h.at + 1])) /\ result' = "valid"
  \/ /\ Ends(raw, h, g) /\ open' = GiveTo(Front(open), <<Top.f, Top.v>>)
     /\ Ended(Len(Front(open)))
  \/ \E n, l \in Nat : /\ StringAt(raw, h.at, n, l) /\ g.at = h.at + n + 1 + l
                       /\ g.calls = AfterStr(h.calls)
                       /\ open' = GiveTo(open, StrVal(raw, h.at, n, l))
                       /\ Ended(Len(open))
  \/ \E m, n \in Nat : /\ NumberAt(raw, h.at, m, n) /\ g.at = h.at + m + n + 2
                       /\ Last(h.calls) \in {"r", "l"} /\ g.calls = Base(h.calls)
                       /\ open' = GiveTo(open, IntVal(raw, h.at, m, n))
                       /\ Ended(Len(open))

\* ben_dec takes the step that ben_validate has taken from there.
LEMMA DecodeStep ==
  ASSUME raw \in Seq(Octet), NEW h \in Head_, NEW g \in Head_, Token(raw, h, g),
         Neat(h.calls), p = h.at, Follows(open, h.calls), ben_dec
  PROVE  p' = g.at /\ DecodesTo(h, g)
<1> DEFINE c == raw[p + 1]
<1>1. p \in Nat /\ h.calls \in Seq(CallName) /\ h.calls # << >> /\ Len(raw) \in Nat /\ result = "valid"
  BY LenProperties DEF Head_, Token, ben_dec
<1>2. p < Len(raw)
  BY <1>1, TokenKeepsNeat DEF Head_
<1>3. /\ Top = Last(open)
      /\ Last(h.calls) = "r" => ~AtKey
      /\ Last(h.calls) \in {"d", "l"} => Top.f = Last(h.calls) /\ Top.key = << >> /\ Top.f # "root"
  BY <1>1, TopIs DEF Top, AtKey
<1>4. Last(h.calls) = "l" => ~AtKey
  BY <1>3 DEF AtKey
<1>5. /\ c = "e" /\ Top.f # "root" /\ Top.key = << >> => Give(Front(open), <<Top.f, Top.v>>, p + 1)
      /\ c # "e" /\ AtKey => ben_dec_s
      /\ c # "e" /\ ~AtKey => ben_dec_r(c)
  <2>1. ~(p >= Len(raw))
    BY <1>1, <1>2
  <2>2. (CASE c = "e" /\ Top.f # "root" /\ Top.key = << >> -> Give(Front(open), <<Top.f, Top.v>>, p + 1)
          [] c # "e" /\ AtKey -> ben_dec_s
          [] OTHER -> ben_dec_r(c))
    BY <2>1 DEF ben_dec
  <2>3. ~(c = "e" /\ c # "e")
    OBVIOUS
  <2> HIDE DEF c
  <2> QED BY <2>2, <2>3
<1>6. CASE Begins(raw, h, g)
  <2>1. c \in {"d", "l"} /\ ~AtKey /\ g.at = p + 1
    BY <1>3, <1>4, <1>6 DEF Begins
  <2>2. ben_dec_r(c)
    BY <1>5, <2>1
  <2>3. open' = Append(open, New(c)) /\ p' = p + 1 /\ result' = result
    <3>1. c \notin Digit /\ c # "i"
      BY <2>1, DigitIs DEF Mark
    <3> HIDE DEF c
    <3> QED BY <2>1, <2>2, <3>1 DEF ben_dec_r, New
  <2> QED BY <1>1, <1>6, <2>1, <2>3 DEF DecodesTo
<1>7. CASE Ends(raw, h, g)
  <2>1. c = "e" /\ Top.f # "root" /\ Top.key = << >> /\ g.at = p + 1
    BY <1>3, <1>7 DEF Ends
  <2>2. Give(Front(open), <<Top.f, Top.v>>, p + 1)
    BY <1>5, <2>1
  <2> QED BY <1>7, <2>1, <2>2 DEF Give, GiveTo, DecodesTo, Ended
<1>8. CASE IsString(raw, h, g)
  <2>1. PICK n, l \in Nat : /\ StringAt(raw, h.at, n, l)
                            /\ g.at = h.at + n + 1 + l
                            /\ g.calls = AfterStr(h.calls)
    BY <1>8 DEF IsString
  <2>2. c \in Digit
    <3>1. 1 \in 1..n
      BY <2>1 DEF StringAt
    <3> QED BY <3>1, <2>1 DEF StringAt
  <2>3. c # "e" /\ c \notin {"d", "l"} /\ c # "i"
    BY <2>2, DigitIs DEF Mark
  <2>4. ben_dec_s
    <3>1. CASE AtKey
      BY <3>1, <1>5, <2>3
    <3>2. CASE ~AtKey
      <4>1. ben_dec_r(c)
        BY <3>2, <1>5, <2>3
      <4> HIDE DEF c
      <4> QED BY <4>1, <2>2, <2>3 DEF ben_dec_r
    <3> QED BY <3>1, <3>2
  <2>5. /\ p' = p + n + 1 + l /\ open' = GiveTo(open, StrVal(raw, p, n, l))
        /\ result' = IF Len(open) = 1 THEN "decoded" ELSE "valid"
    BY <1>1, <2>1, <2>4, DecodesString
  <2> QED BY <2>1, <2>5 DEF DecodesTo, Ended
<1>9. CASE IsNumber(raw, h, g)
  <2>1. PICK m, n \in Nat : /\ NumberAt(raw, h.at, m, n)
                            /\ g.at = h.at + m + n + 2
    BY <1>9 DEF IsNumber
  <2>2. g.calls = Base(h.calls) /\ Last(h.calls) \in {"r", "l"}
    BY <1>9 DEF IsNumber
  <2>3. c = "i"
    BY <2>1 DEF NumberAt
  <2>4. ~AtKey
    BY <2>2, <1>3, <1>4
  <2>5. ben_dec_r(c)
    BY <2>3, <2>4, <1>5
  <2>6. ben_dec_i
    BY <2>3, <2>5, DigitIs DEF ben_dec_r, Mark
  <2>7. /\ p' = p + m + n + 2 /\ open' = GiveTo(open, IntVal(raw, p, m, n))
        /\ result' = IF Len(open) = 1 THEN "decoded" ELSE "valid"
    BY <1>1, <2>1, <2>6, DecodesNumber
  <2> QED BY <2>1, <2>2, <2>7 DEF DecodesTo, Ended
<1> QED BY <1>6, <1>7, <1>8, <1>9 DEF Token

\* ben_dec stays beside ben_validate, and is through when it was.
LEMMA DecodeFollows ==
  ASSUME raw \in Seq(Octet), NEW h \in Head_, NEW g \in Head_, Token(raw, h, g),
         Neat(h.calls), Follows(open, h.calls), DecodesTo(h, g)
  PROVE  Follows(open', g.calls)
         /\ result' = IF g.calls = << >> THEN "decoded" ELSE "valid"
<1> DEFINE cs == h.calls
<1>1. cs \in Seq(CallName) /\ cs # << >> /\ g.calls \in Seq(CallName)
  BY DEF Head_, Token
<1>2. /\ Len(open) = Len(Base(cs)) + 1 /\ Len(Base(cs)) \in Nat /\ Base(cs) \in Seq(CallName)
      /\ Len(Base(cs)) = 0 <=> Base(cs) = << >>
  BY <1>1, BaseIs, EmptySeq DEF Follows
<1>3. ASSUME NEW n, n # << >>, open' = GiveTo(open, n), Ended(Len(open)),
             \/ Last(cs) = "d" /\ g.calls = Append(cs, "r")
             \/ Last(cs) \in {"r", "l"} /\ g.calls = Base(cs)
      PROVE  Follows(open', g.calls)
             /\ result' = IF g.calls = << >> THEN "decoded" ELSE "valid"
  <2>1. Follows(open', g.calls)
    BY <1>1, <1>3, GiveFollows
  <2>2. Len(open) = 1 <=> g.calls = << >>
    <3>1. CASE Last(cs) = "d"
      <4>1. g.calls = Append(cs, "r") /\ "r" \in CallName
        BY <1>3, <3>1 DEF CallName
      <4>2. g.calls # << >>
        BY <1>1, <4>1, Pushed
      <4>3. Base(cs) = cs
        BY <3>1, <1>1, BaseIs
      <4>4. Len(open) # 1
        BY <1>1, <1>2, <4>3
      <4> QED BY <4>2, <4>4
    <3>2. CASE Last(cs) # "d"
      BY <1>2, <1>3, <3>2
    <3> QED BY <3>1, <3>2
  <2> QED BY <1>3, <2>1, <2>2 DEF Ended
<1>4. Last(cs) \in {"r", "d", "l"}
  BY <1>1 DEF Neat
<1>5. CASE Begins(raw, h, g) /\ open' = Append(open, New(raw[h.at + 1])) /\ result' = "valid"
  <2>1. Last(cs) \in {"r", "l"} /\ raw[h.at + 1] \in {"d", "l"}
        /\ g.calls = Append(Base(cs), raw[h.at + 1])
    BY <1>5 DEF Begins
  <2>2. Follows(open', g.calls)
    BY <1>1, <1>5, <2>1, PushFollows
  <2>3. g.calls # << >>
    <3>1. raw[h.at + 1] \in CallName
      BY <2>1 DEF CallName
    <3> QED BY <3>1, <1>2, <2>1, Pushed
  <2> QED BY <1>5, <2>2, <2>3
<1>6. CASE /\ Ends(raw, h, g) /\ open' = GiveTo(Front(open), <<Top.f, Top.v>>)
           /\ Ended(Len(Front(open)))
  <2> DEFINE ds == Append(Front(cs), "r")
             o == Front(open)
             n == <<Top.f, Top.v>>
  <2>1. Last(cs) \in {"d", "l"} /\ g.calls = Front(cs)
    BY <1>6 DEF Ends
  <2>2. /\ ds \in Seq(CallName) /\ ds # << >> /\ Neat(ds)
        /\ Last(ds) = "r" /\ Base(ds) = Front(cs) /\ Follows(o, ds)
    BY <1>1, <2>1, BelowFollows
  <2>3. n # << >>
    OBVIOUS
  <2> HIDE DEF ds, o, n
  <2>4. Follows(GiveTo(o, n), g.calls)
    BY <1>1, <2>1, <2>2, <2>3, GiveFollows
  <2>5. Len(o) = Len(Front(cs)) + 1
    BY <2>2 DEF Follows
  <2>6. Len(o) = 1 <=> g.calls = << >>
    <3>1. Len(Front(cs)) \in Nat /\ (Len(Front(cs)) = 0 <=> Front(cs) = << >>)
      BY <1>1, Popped, LenProperties
    <3> QED BY <3>1, <2>1, <2>5
  <2> QED BY <1>6, <2>4, <2>6 DEF Ended, o, n
<1>7. CASE \E n, l \in Nat : /\ StringAt(raw, h.at, n, l) /\ g.at = h.at + n + 1 + l
                             /\ g.calls = AfterStr(h.calls)
                             /\ open' = GiveTo(open, StrVal(raw, h.at, n, l))
                             /\ Ended(Len(open))
  <2>1. PICK n, l \in Nat : /\ g.calls = AfterStr(h.calls)
                            /\ open' = GiveTo(open, StrVal(raw, h.at, n, l))
                            /\ Ended(Len(open))
    BY <1>7
  <2>2. StrVal(raw, h.at, n, l) # << >>
    BY DEF StrVal
  <2>3. \/ Last(cs) = "d" /\ g.calls = Append(cs, "r")
        \/ Last(cs) \in {"r", "l"} /\ g.calls = Base(cs)
    BY <1>4, <2>1 DEF AfterStr
  <2> QED BY <1>3, <2>1, <2>2, <2>3
<1>8. CASE \E m, n \in Nat : /\ NumberAt(raw, h.at, m, n) /\ g.at = h.at + m + n + 2
                             /\ Last(h.calls) \in {"r", "l"} /\ g.calls = Base(h.calls)
                             /\ open' = GiveTo(open, IntVal(raw, h.at, m, n))
                             /\ Ended(Len(open))
  <2>1. PICK m, n \in Nat : /\ Last(h.calls) \in {"r", "l"} /\ g.calls = Base(h.calls)
                            /\ open' = GiveTo(open, IntVal(raw, h.at, m, n))
                            /\ Ended(Len(open))
    BY <1>8
  <2>2. IntVal(raw, h.at, m, n) # << >>
    BY DEF IntVal
  <2> QED BY <1>3, <2>1, <2>2
<1> QED BY <1>5, <1>6, <1>7, <1>8 DEF DecodesTo

(***************************************************************************)
(* The invariant.                                                          *)
(***************************************************************************)

\* The calls of ben_enc are those for the value.
EncoderOK == value # << >> => value \in Tree /\ Stack(doing)

\* ben_validate begins at the first byte.
FirstHead == [at |-> 0, calls |-> <<"r">>]

\* What has been read follows one after the other.
HeadsOK ==
  /\ heads[1] = FirstHead
  /\ \A j \in 1..Len(heads) : /\ Neat(heads[j].calls) /\ heads[j].at <= Len(raw)
                              /\ heads[j].calls = <<"r">> => heads[j].at = 0
  /\ \A j \in 1..(Len(heads) - 1) : Token(raw, heads[j], heads[j + 1])

\* All has been read; how a packet fares that ben_validate has accepted.
Complete == Hd.calls = << >> /\ Hd.at = Len(raw)
Behind   == {"valid", "decoded", "lost"}

\* What the packet is like in each stage.
Stages ==
  /\ result \in Early => raw = << >> /\ heads = <<FirstHead>> /\ calls = <<"r">>
  /\ result = "running" => Running
  /\ result \in Behind => Complete \/ raw[1] \notin {"d", "l"}

\* ben_dec is at the beginning of something that ben_validate has read.
Decoding ==
  /\ result \notin Behind => p = 0 /\ open = <<New("root")>>
  /\ result \in Behind /\ Hd.calls = << >> =>
       /\ result # "lost"
       /\ \E k \in 1..Len(heads) : /\ p = heads[k].at /\ Follows(open, heads[k].calls)
                                   /\ result = "decoded" <=> k = Len(heads)

\* The inductive invariant of DecodeStaysWithinPacket.
BencodeIInv == PacketTypeOK /\ Delivered /\ EncoderOK /\ HeadsOK /\ Stages /\ Decoding

\* The call of ben_dec has nothing under construction but its result.
LEMMA FirstFollows == Follows(<<New("root")>>, <<"r">>)
<1> DEFINE o == <<New("root")>>
           cs == <<"r">>
<1>1. Len(o) = 1 /\ o[1] = New("root") /\ o \in Seq({New("root")}) /\ o # << >>
  OBVIOUS
<1>2. New("root") = [f |-> "root", v |-> << >>, key |-> << >>]
  BY DEF New
<1>3. Base(cs) = << >>
  <2>1. cs \in Seq(CallName) /\ cs # << >> /\ Len(cs) = 1 /\ cs[1] = "r"
    BY DEF CallName
  <2> HIDE DEF cs
  <2>2. Last(cs) = "r"
    BY <2>1 DEF Last
  <2>3. Front(cs) = << >>
    <3>1. Front(cs) = SubSeq(cs, 1, 0)
      BY <2>1 DEF Front
    <3> QED BY <3>1, SubSeqEmpty
  <2> QED BY <2>2, <2>3 DEF Base
<1> HIDE DEF o, cs
<1>4. Len(Base(cs)) = 0
  BY <1>3
<1>5. \A i \in 1..Len(o) : i = 1
  BY <1>1
<1>6. \A i \in 1..Len(o) : o[i].key = << >> /\ o[i].f = "root" /\ o[i] = [f |-> o[i].f, v |-> o[i].v, key |-> o[i].key]
  BY <1>1, <1>2, <1>5
<1>7. \A i \in 1..Len(o) : ~Waits(o, cs, i)
  BY <1>6 DEF Waits
<1>8. 1 \in 1..Len(o)
  BY <1>1
<1>9. Follows(o, cs)
  BY <1>1, <1>4, <1>6, <1>7, <1>8 DEF Follows
<1> QED BY <1>9 DEF o, cs

\* Where ben_validate began to read something.
LEMMA HdIs ==
  ASSUME PacketTypeOK, HeadsOK
  PROVE  /\ Hd \in Head_ /\ Hd = heads[Len(heads)] /\ Len(heads) \in Nat /\ Len(heads) >= 1
         /\ Neat(Hd.calls) /\ Hd.at <= Len(raw) /\ (Hd.calls = <<"r">> => Hd.at = 0)
         /\ \A j \in 1..Len(heads) : heads[j] \in Head_
<1>1. heads \in Seq(Head_) /\ heads # << >>
  BY DEF PacketTypeOK
<1>2. Len(heads) \in Nat /\ Len(heads) >= 1 /\ Hd \in Head_ /\ Hd = heads[Len(heads)]
  BY <1>1, Popped DEF Hd, Last
<1>3. \A j \in 1..Len(heads) : heads[j] \in Head_
  BY <1>1, ElementOfSeq
<1>4. Len(heads) \in 1..Len(heads)
  BY <1>2
<1> QED BY <1>2, <1>3, <1>4 DEF HeadsOK

\* One byte of ben_validate.
LEMMA ByteRead ==
  ASSUME PacketTypeOK, Delivered, HeadsOK, Running, result = "running", Len(raw) < size,
         NEW c \in NextByte,
         \/ ValidateValue(c) \/ ben_validate_l(c) \/ ben_validate_d(c)
         \/ ben_validate_s(c) \/ ben_validate_i(c)
  PROVE  Outcome /\ ReadMore
<1>1. c \in Octet
  BY ByteIsOctet
<1>2. Hd \in Head_ /\ Neat(Hd.calls) /\ calls # << >> /\ Hd.calls # << >> /\ calls \in Seq(CallName)
      /\ Hd.calls \in Seq(CallName)
  BY HdIs DEF Running, PacketTypeOK, Head_
<1>3. CASE AtHead
  <2>1. calls = Hd.calls /\ Last(calls) \in {"r", "d", "l"}
    BY <1>2, <1>3 DEF AtHead, Neat
  <2>2. CASE ValidateValue(c)
    <3>1. Last(calls) = "r" /\ Read(c) /\ ben_validate_r(Base(calls), c)
      BY <2>2 DEF ValidateValue, Current, Base
    <3> QED BY <1>1, <1>2, <1>3, <3>1, ValueBegins
  <2>3. CASE ben_validate_l(c)
    <3>1. Last(calls) = "l" /\ Read(c) /\ (IF c = "e" THEN Return ELSE ben_validate_r(calls, c))
      BY <2>3 DEF ben_validate_l, Current
    <3>2. CASE c = "e"
      BY <1>2, <1>3, <3>1, <3>2, ContainerEnds
    <3>3. CASE c # "e"
      <4>1. Base(calls) = calls
        BY <3>1 DEF Base
      <4> QED BY <1>1, <1>2, <1>3, <3>1, <3>3, <4>1, ValueBegins
    <3> QED BY <3>2, <3>3
  <2>4. CASE ben_validate_d(c)
    <3>1. /\ Last(calls) = "d" /\ Read(c)
          /\ IF c = "e" THEN Return
             ELSE IF c \in Digit THEN Call(calls \o <<"r", "s">>, <<c>>)
             ELSE Broken
      BY <2>4 DEF ben_validate_d, Current
    <3>2. CASE c = "e"
      BY <1>2, <1>3, <3>1, <3>2, ContainerEnds
    <3>3. CASE c # "e" /\ c \in Digit
      BY <1>2, <1>3, <3>1, <3>3, KeyBegins
    <3>4. CASE c # "e" /\ c \notin Digit
      <4>1. Broken
        BY <3>1, <3>4
      <4>2. raw' \in Seq(Octet) /\ Len(raw') = Len(raw) + 1 /\ Len(raw) \in Nat /\ Extends(raw, raw')
        BY <1>1, <3>1, ReadsByte
      <4> QED BY <4>1, <4>2 DEF Broken, Outcome, ReadMore, PacketTypeOK
    <3> QED BY <3>2, <3>3, <3>4
  <2>5. ~ben_validate_s(c) /\ ~ben_validate_i(c)
    BY <2>1 DEF ben_validate_s, ben_validate_i, Current
  <2> QED BY <2>2, <2>3, <2>4, <2>5
<1>4. CASE InString(raw, calls, num, Hd)
  <2>1. Last(calls) = "s"
    <3>1. "s" \in CallName
      BY DEF CallName
    <3> QED BY <1>2, <1>4, <3>1, CallsAre DEF InString
  <2>2. ben_validate_s(c)
    BY <2>1 DEF ValidateValue, ben_validate_l, ben_validate_d, ben_validate_i, Current
  <2> QED BY <1>1, <1>2, <1>4, <2>2, StringStep
<1>5. CASE InNumber(raw, calls, num, Hd)
  <2>1. Last(calls) = "i"
    <3>1. "i" \in CallName
      BY DEF CallName
    <3> QED BY <1>2, <1>5, <3>1, CallsAre DEF InNumber
  <2>2. ben_validate_i(c)
    BY <2>1 DEF ValidateValue, ben_validate_l, ben_validate_d, ben_validate_s, Current
  <2> QED BY <1>1, <1>2, <1>5, <2>2, NumberStep
<1> QED BY <1>3, <1>4, <1>5 DEF Running

\* What has been read before stays.
LEMMA HeadsStay ==
  ASSUME PacketTypeOK, HeadsOK, raw' \in Seq(Octet), Extends(raw, raw'),
         NEW j \in 1..Len(heads)
  PROVE  /\ Neat(heads[j].calls) /\ heads[j].at <= Len(raw')
         /\ heads[j].calls = <<"r">> => heads[j].at = 0
         /\ j < Len(heads) => Token(raw', heads[j], heads[j + 1])
<1>1. raw \in Seq(Octet) /\ Len(raw) \in Nat /\ Len(raw') \in Nat /\ Len(raw) <= Len(raw')
  BY LenProperties DEF PacketTypeOK, Extends
<1>2. Len(heads) \in Nat /\ heads[j] \in Head_ /\ heads[j].at \in Nat
  BY HdIs DEF Head_
<1>3. heads[j].at <= Len(raw')
  BY <1>1, <1>2 DEF HeadsOK
<1>4. ASSUME j < Len(heads) PROVE Token(raw', heads[j], heads[j + 1])
  <2>1. j \in 1..(Len(heads) - 1) /\ j + 1 \in 1..Len(heads)
    BY <1>2, <1>4
  <2>2. heads[j + 1] \in Head_ /\ Token(raw, heads[j], heads[j + 1])
    BY <2>1, HdIs DEF HeadsOK
  <2> QED BY <1>1, <1>2, <2>2, TokenStays
<1> QED BY <1>3, <1>4 DEF HeadsOK

\* A step of ben_validate.
LEMMA ValidateKeepsIInv ==
  ASSUME BencodeIInv, ben_validate
  PROVE  BencodeIInv'
<1> USE DEF BencodeIInv
<1>1. /\ result = "running" /\ Running /\ size' = size /\ value' = value /\ doing' = doing
      /\ alloc' = alloc /\ sent' = sent /\ p' = p /\ open' = open
  BY DEF ben_validate, encvars, decvars, Stages
<1>2. /\ Hd \in Head_ /\ Neat(Hd.calls) /\ Len(heads) \in Nat /\ Len(heads) >= 1
      /\ Hd = heads[Len(heads)] /\ (Hd.calls = <<"r">> => Hd.at = 0) /\ heads \in Seq(Head_)
      /\ Len(raw) \in Nat /\ raw \in Seq(Octet) /\ Hd.calls # << >>
      /\ heads # << >>
  BY <1>1, HdIs, LenProperties DEF PacketTypeOK, Running
<1>3. Delivered' /\ EncoderOK'
  <2>1. result' \notin Early
    <3>1. ASSUME Outcome PROVE result' \notin Early
      BY <3>1 DEF Outcome, Arrived, GoesOn, Early
    <3>2. CASE /\ Len(raw) < size
               /\ \E c \in NextByte : \/ ValidateValue(c) \/ ben_validate_l(c)
                                      \/ ben_validate_d(c) \/ ben_validate_s(c)
                                      \/ ben_validate_i(c)
      BY <1>1, <3>1, <3>2, ByteRead
    <3>3. CASE OutOfBytes
      <4>1. result' = "broken" \/ result' = "valid"
        BY <1>1, <1>2, <3>3, OutOfBytesStep
      <4> QED BY <4>1 DEF Early
    <3> QED BY <3>2, <3>3 DEF ben_validate
  <2>2. result \notin Early
    BY <1>1 DEF Early
  <2>3. result' # "encoding"
    BY <2>1 DEF Early
  <2>4. Delivered'
    BY <1>1, <2>1, <2>2, <2>3 DEF Delivered
  <2>5. EncoderOK'
    BY <1>1 DEF EncoderOK, Stack
  <2> QED BY <2>4, <2>5
<1>4. CASE /\ Len(raw) < size
           /\ \E c \in NextByte : \/ ValidateValue(c) \/ ben_validate_l(c)
                                  \/ ben_validate_d(c) \/ ben_validate_s(c)
                                  \/ ben_validate_i(c)
           /\ heads' = IF Arrives THEN Append(heads, [at |-> Len(raw'), calls |-> calls'])
                                  ELSE heads
  <2>1. Outcome /\ ReadMore
    BY <1>1, <1>4, ByteRead
  <2>2. /\ raw' \in Seq(Octet) /\ Len(raw') \in Nat /\ Len(raw') <= size /\ Extends(raw, raw')
        /\ calls' \in Seq(CallName) /\ num' \in Seq(Digit)
    BY <2>1, LenProperties DEF ReadMore
  <2>3. \A j \in 1..Len(heads) : /\ Neat(heads[j].calls) /\ heads[j].at <= Len(raw')
                                 /\ heads[j].calls = <<"r">> => heads[j].at = 0
                                 /\ j < Len(heads) => Token(raw', heads[j], heads[j + 1])
    BY <2>2, HeadsStay
  <2>4. \A j \in 1..(Len(heads) - 1) : j \in 1..Len(heads) /\ j < Len(heads)
    BY <1>2
  <2>5. ASSUME heads' = heads, result' \in {"running", "broken"},
               result' = "running" => Running'
        PROVE  BencodeIInv'
    <3>1. PacketTypeOK'
      BY <1>1, <2>2, <2>5 DEF PacketTypeOK
    <3>2. HeadsOK'
      BY <2>3, <2>4, <2>5 DEF HeadsOK
    <3>3. Stages'
      BY <2>5 DEF Stages, Early, Behind
    <3>4. Decoding'
      BY <1>1, <2>5 DEF Decoding, Behind
    <3> QED BY <1>3, <3>1, <3>2, <3>3, <3>4
  <2>6. CASE result' = "broken"
    <3>1. heads' = heads
      BY <1>4, <2>6 DEF Arrives
    <3> QED BY <2>5, <2>6, <3>1
  <2>7. CASE GoesOn
    <3>1. heads' = heads
      BY <1>4, <2>7 DEF Arrives, GoesOn
    <3>2. Hd' = Hd
      BY <3>1 DEF Hd
    <3>3. Running'
      BY <1>2, <2>7, <3>2 DEF GoesOn, Running
    <3> QED BY <2>5, <2>7, <3>1, <3>3 DEF GoesOn
  <2>8. CASE Arrived
    <3>1. Token(raw', Hd, Next_)
      BY <2>8 DEF Arrived
    <3>2. Next_ \in Head_ /\ Next_.at = Len(raw') /\ Next_.calls = calls'
      BY <2>2 DEF Next_, Head_
    <3>3. Neat(calls') /\ calls' # <<"r">>
      BY <1>2, <2>2, <3>1, <3>2, TokenKeepsNeat
    <3>4. Arrives
      BY <2>8, <3>3 DEF Arrives, Arrived, Neat
    <3>5. heads' = Append(heads, Next_)
      BY <1>4, <3>4 DEF Next_
    <3>6. /\ heads' \in Seq(Head_) /\ heads' # << >>
          /\ Len(heads') = Len(heads) + 1
          /\ \A j \in 1..Len(heads) : heads'[j] = heads[j]
          /\ heads'[Len(heads) + 1] = Next_
          /\ Hd' = Next_
      BY <1>2, <3>2, <3>5, Pushed DEF Hd
    <3>7. PacketTypeOK'
      BY <1>1, <2>2, <2>8, <3>6 DEF PacketTypeOK, Arrived
    <3>8. HeadsOK'
      <4>1. heads'[1] = FirstHead
        <5>1. 1 \in 1..Len(heads)
          BY <1>2
        <5> QED BY <5>1, <3>6 DEF HeadsOK
      <4>2. ASSUME NEW j \in 1..Len(heads')
            PROVE  /\ Neat(heads'[j].calls) /\ heads'[j].at <= Len(raw')
                   /\ heads'[j].calls = <<"r">> => heads'[j].at = 0
        <5>1. CASE j \in 1..Len(heads)
          BY <5>1, <2>3, <3>6
        <5>2. CASE j = Len(heads) + 1
          <6>1. heads'[j].at = Len(raw') /\ heads'[j].calls = calls'
            BY <5>2, <3>2, <3>6
          <6> QED BY <6>1, <2>2, <3>3
        <5>3. j \in 1..Len(heads) \/ j = Len(heads) + 1
          BY <1>2, <3>6
        <5> QED BY <5>1, <5>2, <5>3
      <4>3. ASSUME NEW j \in 1..(Len(heads') - 1)
            PROVE  Token(raw', heads'[j], heads'[j + 1])
        <5>1. CASE j < Len(heads)
          <6>1. j \in 1..Len(heads) /\ j + 1 \in 1..Len(heads)
            BY <5>1, <1>2
          <6>2. heads'[j] = heads[j] /\ heads'[j + 1] = heads[j + 1]
            BY <6>1, <3>6
          <6> QED BY <5>1, <6>1, <6>2, <2>3
        <5>2. CASE j = Len(heads)
          <6>1. j \in 1..Len(heads)
            BY <5>2, <1>2
          <6>2. heads'[j] = Hd /\ heads'[j + 1] = Next_
            BY <5>2, <6>1, <1>2, <3>6
          <6> QED BY <6>2, <3>1
        <5>3. j < Len(heads) \/ j = Len(heads)
          BY <1>2, <3>6
        <5> QED BY <5>1, <5>2, <5>3
      <4> QED BY <4>1, <4>2, <4>3 DEF HeadsOK
    <3>9. CASE calls' = << >> /\ result' = "valid"
      <4>1. Complete'
        BY <3>2, <3>6, <3>9 DEF Complete
      <4>2. Stages'
        BY <3>9, <4>1 DEF Stages, Early, Behind
      <4>3. Decoding'
        <5>1. p' = 0 /\ open' = <<New("root")>>
          BY <1>1 DEF Decoding, Behind
        <5>2. heads'[1] = FirstHead /\ 1 \in 1..Len(heads') /\ 1 # Len(heads')
          BY <1>2, <3>6, <3>8 DEF HeadsOK
        <5>3. p' = heads'[1].at /\ Follows(open', heads'[1].calls)
          BY <5>1, <5>2, FirstFollows DEF FirstHead
        <5>4. result' # "decoded" /\ result' # "lost" /\ result' \in Behind
          BY <3>9 DEF Behind
        <5>5. \E k \in 1..Len(heads') : /\ p' = heads'[k].at /\ Follows(open', heads'[k].calls)
                                        /\ result' = "decoded" <=> k = Len(heads')
          BY <5>2, <5>3, <5>4
        <5> QED BY <5>4, <5>5 DEF Decoding
      <4> QED BY <1>3, <3>7, <3>8, <4>2, <4>3
    <3>10. CASE calls' # << >> /\ result' = "running" /\ Len(raw') < size
      <4>1. Running'
        BY <1>1, <3>2, <3>6, <3>10 DEF Running, AtHead
      <4>2. Stages'
        BY <3>10, <4>1 DEF Stages, Early, Behind
      <4>3. Decoding'
        BY <1>1, <3>10 DEF Decoding, Behind
      <4> QED BY <1>3, <3>7, <3>8, <4>2, <4>3
    <3> QED BY <2>8, <3>9, <3>10 DEF Arrived
  <2> QED BY <2>1, <2>6, <2>7, <2>8 DEF Outcome
<1>5. CASE OutOfBytes /\ UNCHANGED heads
  <2>1. /\ raw' = raw /\ calls' \in Seq(CallName) /\ num' \in Seq(Digit) /\ heads' = heads
        /\ \/ result' = "broken"
           \/ result' = "valid" /\ raw # << >> /\ raw[1] \notin {"d", "l"}
    BY <1>1, <1>2, <1>5, OutOfBytesStep
  <2>2. PacketTypeOK'
    BY <1>1, <2>1 DEF PacketTypeOK
  <2>3. HeadsOK'
    BY <2>1 DEF HeadsOK
  <2>4. Stages'
    BY <2>1 DEF Stages, Early, Behind
  <2>5. Hd'.calls # << >>
    BY <1>2, <2>1 DEF Hd
  <2>6. Decoding'
    BY <1>1, <2>1, <2>5 DEF Decoding, Behind
  <2> QED BY <1>3, <2>2, <2>3, <2>4, <2>6
<1> QED BY <1>4, <1>5 DEF ben_validate

\* What a step of ben_dec can come to.
LEMMA DecodeResults ==
  ASSUME ben_dec
  PROVE  result' \in Behind
<1>1. result = "valid"
  BY DEF ben_dec
<1>2. \A a, b, c : Give(a, b, c) => result' \in Behind
  BY DEF Give, Behind
<1>3. Lost => result' \in Behind
  BY DEF Lost, Behind
<1>4. ben_dec_s => result' \in Behind
  BY <1>2, <1>3 DEF ben_dec_s
<1>5. ben_dec_i => result' \in Behind
  BY <1>2, <1>3 DEF ben_dec_i
<1>6. ASSUME NEW c, ben_dec_r(c) PROVE result' \in Behind
  <2>1. CASE c \in {"d", "l"} /\ c # "i" /\ c \notin Digit
    BY <1>1, <1>6, <2>1 DEF ben_dec_r, Behind
  <2>2. CASE c = "i" /\ c \notin Digit
    BY <1>5, <1>6, <2>2 DEF ben_dec_r
  <2>3. CASE c \in Digit
    <3>1. c \notin {"d", "l"} /\ c # "i"
      BY <2>3, DigitIs DEF Mark
    <3> QED BY <1>4, <1>6, <2>3, <3>1 DEF ben_dec_r
  <2>4. CASE c \notin {"d", "l"} /\ c # "i" /\ c \notin Digit
    BY <1>3, <1>6, <2>4 DEF ben_dec_r
  <2>5. "d" \notin Digit /\ "l" \notin Digit /\ "i" \notin Digit
    BY DigitIs DEF Mark
  <2> QED BY <2>1, <2>2, <2>3, <2>4, <2>5
<1>7. CASE p >= Len(raw)
  BY <1>3, <1>7 DEF ben_dec
<1>8. CASE ~(p >= Len(raw))
  <2> DEFINE c == raw[p + 1]
             End == c = "e" /\ Top.f # "root" /\ Top.key = << >>
             Key == c # "e" /\ AtKey
  <2>1. (CASE End -> Give(Front(open), <<Top.f, Top.v>>, p + 1)
           [] Key -> ben_dec_s
           [] OTHER -> ben_dec_r(c))
    BY <1>8 DEF ben_dec
  <2>2. ~(End /\ Key)
    OBVIOUS
  <2> HIDE DEF c, End, Key
  <2>3. CASE End
    BY <1>2, <2>1, <2>2, <2>3
  <2>4. CASE Key
    BY <1>4, <2>1, <2>2, <2>4
  <2>5. CASE ~End /\ ~Key
    BY <1>6, <2>1, <2>5
  <2> QED BY <2>3, <2>4, <2>5
<1> QED BY <1>7, <1>8

\* A step of ben_dec.
LEMMA DecodeKeepsIInv ==
  ASSUME BencodeIInv, ben_dec
  PROVE  BencodeIInv'
<1> USE DEF BencodeIInv
<1>1. /\ result = "valid" /\ size' = size /\ value' = value /\ doing' = doing
      /\ alloc' = alloc /\ sent' = sent /\ raw' = raw /\ calls' = calls /\ num' = num
      /\ heads' = heads
  BY DEF ben_dec, encvars, valvars
<1>2. result' \in Behind /\ result \in Behind /\ Hd' = Hd
  BY <1>1, DecodeResults DEF Behind, Hd
<1>3. PacketTypeOK'
  BY <1>1, <1>2 DEF PacketTypeOK, Behind
<1>4. Delivered'
  BY <1>1, <1>2 DEF Delivered, Behind, Early
<1>5. EncoderOK' /\ HeadsOK'
  BY <1>1 DEF EncoderOK, HeadsOK, Stack
<1>6. Stages'
  BY <1>1, <1>2 DEF Stages, Behind, Early, Complete
<1>7. CASE Hd.calls # << >>
  BY <1>2, <1>3, <1>4, <1>5, <1>6, <1>7 DEF Decoding, Behind
<1>8. CASE Hd.calls = << >>
  <2>1. PICK k \in 1..Len(heads) : /\ p = heads[k].at /\ Follows(open, heads[k].calls)
                                   /\ result = "decoded" <=> k = Len(heads)
    BY <1>2, <1>8 DEF Decoding
  <2>2. /\ raw \in Seq(Octet) /\ Len(heads) \in Nat /\ Hd = heads[Len(heads)]
        /\ \A j \in 1..Len(heads) : heads[j] \in Head_
    BY HdIs DEF PacketTypeOK
  <2>3. k # Len(heads)
    BY <1>1, <2>1
  <2>4. k \in 1..(Len(heads) - 1) /\ k + 1 \in 1..Len(heads)
    BY <2>2, <2>3
  <2>5. Token(raw, heads[k], heads[k + 1]) /\ Neat(heads[k].calls)
    BY <2>1, <2>4 DEF HeadsOK
  <2>6. p' = heads[k + 1].at /\ DecodesTo(heads[k], heads[k + 1])
    BY <2>1, <2>2, <2>4, <2>5, DecodeStep
  <2>7. Follows(open', heads[k + 1].calls)
        /\ result' = IF heads[k + 1].calls = << >> THEN "decoded" ELSE "valid"
    BY <2>1, <2>2, <2>4, <2>5, <2>6, DecodeFollows
  <2>8. heads[k + 1].calls = << >> <=> k + 1 = Len(heads)
    <3>1. CASE k + 1 = Len(heads)
      BY <3>1, <1>8, <2>2
    <3>2. CASE k + 1 # Len(heads)
      <4>1. k + 1 \in 1..(Len(heads) - 1)
        BY <2>2, <2>4, <3>2
      <4>2. Token(raw, heads[k + 1], heads[k + 1 + 1])
        BY <4>1 DEF HeadsOK
      <4> QED BY <3>2, <4>2 DEF Token
    <3> QED BY <3>1, <3>2
  <2>9. \E j \in 1..Len(heads') : /\ p' = heads'[j].at /\ Follows(open', heads'[j].calls)
                                  /\ result' = "decoded" <=> j = Len(heads')
    BY <1>1, <2>4, <2>6, <2>7, <2>8
  <2>10. Decoding'
    BY <1>2, <2>7, <2>9 DEF Decoding
  <2> QED BY <1>3, <1>4, <1>5, <1>6, <2>10
<1> QED BY <1>7, <1>8

\* A step of ben_enc.
LEMMA EncodeKeepsIInv ==
  ASSUME BencodeIInv, Encode
  PROVE  BencodeIInv'
<1> USE DEF BencodeIInv
<1>1. /\ result \in {"sizing", "encoding"} /\ result \in Early /\ value # << >>
      /\ value \in Tree /\ Stack(doing) /\ sent \in Seq(Octet)
  BY DEF Encode, Early, Delivered, EncoderOK, PacketTypeOK
<1>2. raw = << >> /\ heads = <<FirstHead>> /\ calls = <<"r">> /\ p = 0 /\ open = <<New("root")>>
  BY <1>1 DEF Stages, Decoding, Early, Behind
<1>3. CASE /\ EncodeLeaf \/ EncodeBegin \/ EncodeEnd
           /\ UNCHANGED <<value, size, valvars, decvars, result>>
  <2>1. /\ value' = value /\ size' = size /\ raw' = raw /\ heads' = heads /\ calls' = calls
        /\ num' = num /\ p' = p /\ open' = open /\ result' = result
    BY <1>3 DEF valvars, decvars
  <2>2. /\ Walk(doing, doing')
        /\ \/ result = "sizing" /\ sent' = sent
           \/ /\ result = "encoding" /\ alloc' = alloc
              /\ \E code \in Seq(Octet) : sent' = sent \o code
    <3>1. CASE EncodeLeaf
      <4> DEFINE n == Item(Last(doing))
      <4>1. LeafStep(doing, doing')
        BY <3>1 DEF EncodeLeaf, LeafStep
      <4>2. n \in Tree /\ n[1] \in {"s", "i"}
        BY <1>1, <3>1, StackIs, ItemIs DEF EncodeLeaf
      <4>3. Code(n) \in Seq(Octet)
        BY <4>2, CodeIs
      <4>4. ben_enc_size(LeafSize(n)) \/ ben_enc_rec(Code(n))
        BY <3>1 DEF EncodeLeaf
      <4> HIDE DEF n
      <4> QED BY <4>1, <4>3, <4>4 DEF Walk, ben_enc_size, ben_enc_rec
    <3>2. CASE EncodeBegin
      <4> DEFINE n == Item(Last(doing))
      <4>1. BeginStep(doing, doing')
        BY <3>2 DEF EncodeBegin, BeginStep
      <4>2. n[1] \in {"d", "l"}
        BY <3>2 DEF EncodeBegin
      <4>3. <<n[1]>> \in Seq(Octet)
        BY <4>2 DEF Octet, Mark
      <4>4. ben_enc_size(2) \/ ben_enc_rec(<<n[1]>>)
        BY <3>2 DEF EncodeBegin
      <4> HIDE DEF n
      <4> QED BY <4>1, <4>3, <4>4 DEF Walk, ben_enc_size, ben_enc_rec
    <3>3. CASE EncodeEnd
      <4>1. EndStep(doing, doing')
        BY <3>3 DEF EncodeEnd, EndStep
      <4>2. <<"e">> \in Seq(Octet)
        BY DEF Octet, Mark
      <4>3. ben_enc_size(0) \/ ben_enc_rec(<<"e">>)
        BY <3>3 DEF EncodeEnd
      <4> QED BY <4>1, <4>2, <4>3 DEF Walk, ben_enc_size, ben_enc_rec
    <3> QED BY <1>3, <3>1, <3>2, <3>3
  <2>3. sent' \in Seq(Octet)
    BY <1>1, <2>2, ConcatProperties
  <2>4. Stack(doing')
    BY <1>1, <2>2, WalkKeepsStack
  <2>5. EncoderOK'
    BY <1>1, <2>1, <2>4 DEF EncoderOK, Stack
  <2>6. PacketTypeOK'
    BY <2>1, <2>3 DEF PacketTypeOK
  <2>7. Delivered'
    BY <1>1, <2>1, <2>2 DEF Delivered
  <2>8. HeadsOK' /\ Stages' /\ Decoding'
    <3>1. HeadsOK'
      BY <2>1 DEF HeadsOK
    <3>2. Hd' = Hd
      BY <2>1 DEF Hd
    <3>3. result # "running" /\ result \notin Behind
      BY <1>1 DEF Behind
    <3>4. Stages'
      BY <1>1, <1>2, <2>1, <3>3 DEF Stages
    <3>5. Decoding'
      BY <1>2, <2>1, <3>3 DEF Decoding
    <3> QED BY <3>1, <3>4, <3>5
  <2> QED BY <2>5, <2>6, <2>7, <2>8
<1>4. CASE ben_enc
  <2>1. /\ value' = value /\ raw' = raw /\ heads' = heads /\ calls' = calls
        /\ num' = num /\ p' = p /\ open' = open /\ alloc' = alloc /\ sent' = sent
    BY <1>4 DEF ben_enc, valvars, decvars
  <2>2. Len(sent) \in Nat /\ Len(raw) = 0 /\ Hd.calls = <<"r">> /\ Hd.at = 0 /\ Hd' = Hd
    <3>1. Len(<<FirstHead>>) = 1 /\ <<FirstHead>>[1] = FirstHead
      OBVIOUS
    <3> QED BY <1>1, <1>2, <2>1, <3>1, LenProperties DEF Hd, Last, FirstHead
  <2>3. HeadsOK'
    BY <2>1 DEF HeadsOK
  <2>4. CASE /\ result = "sizing"
             /\ result' = IF alloc > 0 THEN "encoding" ELSE "unsent"
             /\ doing' = <<Caller>>
             /\ UNCHANGED size
    <3>1. result' \in Early /\ result' # "running" /\ result' \notin Behind
      BY <2>4 DEF Early, Behind
    <3>2. PacketTypeOK'
      BY <2>1, <2>4 DEF PacketTypeOK
    <3>3. Delivered'
      BY <1>1, <2>1, <2>4, <3>1 DEF Delivered
    <3>4. Stack(<<Caller>>)
      <4>1. Caller \in EncFrame
        BY <1>1, CallerIs
      <4>2. /\ <<Caller>> \in Seq(EncFrame) /\ <<Caller>> # << >> /\ Len(<<Caller>>) = 1
            /\ <<Caller>>[1] = Caller
        BY <4>1
      <4>3. Caller.f = "root" /\ Caller.v = <<value>>
        BY DEF Caller, Frame
      <4>4. \A i \in 1..(Len(<<Caller>>) - 1) : FALSE
        BY <4>2
      <4> QED BY <4>2, <4>3, <4>4 DEF Stack
    <3>5. EncoderOK'
      BY <1>1, <2>1, <2>4, <3>4 DEF EncoderOK, Stack, Caller
    <3>6. Stages'
      BY <1>2, <2>1, <3>1 DEF Stages
    <3>7. Decoding'
      BY <1>2, <2>1, <3>1 DEF Decoding
    <3> QED BY <2>3, <3>2, <3>3, <3>5, <3>6, <3>7
  <2>5. CASE /\ result = "encoding"
             /\ result' = IF Len(sent) = alloc THEN "running" ELSE "unsent"
             /\ size' = Len(sent)
             /\ UNCHANGED doing
    <3>1. result' \notin Behind /\ result' # "encoding"
      BY <2>5 DEF Behind
    <3>2. PacketTypeOK'
      BY <1>2, <2>1, <2>2, <2>5 DEF PacketTypeOK
    <3>3. Delivered'
      BY <1>1, <2>1, <2>5, <3>1 DEF Delivered
    <3>4. EncoderOK'
      BY <2>1, <2>5 DEF EncoderOK, Stack
    <3>5. result' = "running" => Running'
      <4>1. SUFFICES ASSUME result' = "running" PROVE Running'
        OBVIOUS
      <4>2. Len(sent) = alloc /\ alloc > 0
        BY <2>5, <4>1 DEF Delivered
      <4>3. calls' # << >> /\ Len(raw') < size'
        BY <1>2, <2>1, <2>2, <2>5, <4>2
      <4> QED BY <1>2, <2>1, <2>2, <4>3 DEF Running, AtHead
    <3>6. Stages'
      BY <1>2, <2>1, <3>1, <3>5 DEF Stages
    <3>7. Decoding'
      BY <1>2, <2>1, <3>1 DEF Decoding
    <3> QED BY <2>3, <3>2, <3>3, <3>4, <3>6, <3>7
  <2> QED BY <1>4, <2>4, <2>5 DEF ben_enc
<1> QED BY <1>3, <1>4 DEF Encode

\* The first states.
LEMMA BencodeInit == Init => BencodeIInv
<1> SUFFICES ASSUME Init PROVE BencodeIInv
  OBVIOUS
<1>1. /\ alloc = 0 /\ sent = << >> /\ raw = << >> /\ num = << >> /\ calls = <<"r">>
      /\ p = 0 /\ open = <<New("root")>> /\ heads = <<FirstHead>>
  BY DEF Init, New, FirstHead
<1>2. /\ \/ value = << >> /\ size \in 1..MaxSize /\ result = "running"
         \/ value \in Tree /\ doing = <<Caller>> /\ size = 0 /\ result = "sizing"
      /\ MaxSize \in Nat
  BY BencodeAssumption DEF Init
<1>3. /\ <<"r">> \in Seq(CallName) /\ FirstHead \in Head_ /\ <<FirstHead>> \in Seq(Head_)
      /\ <<"r">> # << >>
  BY DEF CallName, FirstHead, Head_
<1>4. /\ Len(<<FirstHead>>) = 1 /\ <<FirstHead>>[1] = FirstHead /\ Len(<<"r">>) = 1
      /\ <<"r">>[1] = "r" /\ FirstHead.at = 0 /\ FirstHead.calls = <<"r">>
  BY DEF FirstHead
<1>5. << >> \in Seq(Octet) /\ << >> \in Seq(Digit) /\ Len(<< >>) = 0
  BY EmptySeq
<1>6. PacketTypeOK
  BY <1>1, <1>2, <1>3, <1>4, <1>5 DEF PacketTypeOK
<1>7. value \in Tree => value # << >>
  BY TreeIs
<1>8. Delivered
  BY <1>2, <1>7 DEF Delivered, Early
<1>9. EncoderOK
  <2>1. SUFFICES ASSUME value # << >> PROVE value \in Tree /\ Stack(doing)
    BY DEF EncoderOK
  <2>2. value \in Tree /\ doing = <<Caller>>
    BY <1>2, <2>1
  <2>3. Caller \in EncFrame
    BY <2>2, CallerIs
  <2>4. /\ <<Caller>> \in Seq(EncFrame) /\ <<Caller>> # << >> /\ Len(<<Caller>>) = 1
        /\ <<Caller>>[1] = Caller
    BY <2>3
  <2>5. Caller.f = "root" /\ Caller.v = <<value>>
    BY DEF Caller, Frame
  <2>6. \A i \in 1..(Len(<<Caller>>) - 1) : FALSE
    BY <2>4
  <2> QED BY <2>2, <2>4, <2>5, <2>6 DEF Stack
<1>10. Neat(<<"r">>)
  <2>1. Last(<<"r">>) = "r" /\ \A i \in 1..(Len(<<"r">>) - 1) : FALSE
    BY <1>4 DEF Last
  <2> QED BY <2>1 DEF Neat
<1>11. HeadsOK
  <2>1. \A j \in 1..Len(heads) : j = 1
    BY <1>1, <1>4
  <2>2. \A j \in 1..(Len(heads) - 1) : FALSE
    BY <1>1, <1>4
  <2> QED BY <1>1, <1>4, <1>5, <1>10, <2>1, <2>2 DEF HeadsOK
<1>12. Hd = FirstHead
  BY <1>1, <1>4 DEF Hd, Last
<1>13. Stages
  <2>1. result = "running" => Running
    <3>1. SUFFICES ASSUME result = "running" PROVE Running
      OBVIOUS
    <3>2. Len(raw) < size /\ calls # << >>
      BY <1>1, <1>2, <1>3, <1>5, <3>1
    <3> QED BY <1>1, <1>4, <1>5, <1>12, <3>2 DEF Running, AtHead
  <2> QED BY <1>1, <1>2, <2>1 DEF Stages, Early, Behind
<1>14. Decoding
  BY <1>1, <1>2 DEF Decoding, Behind
<1> QED BY <1>6, <1>8, <1>9, <1>11, <1>13, <1>14 DEF BencodeIInv

\* A step of any of the functions.
LEMMA BencodeStep == BencodeIInv /\ [Next]_vars => BencodeIInv'
<1> SUFFICES ASSUME BencodeIInv, [Next]_vars PROVE BencodeIInv'
  OBVIOUS
<1>1. CASE Encode
  BY <1>1, EncodeKeepsIInv
<1>2. CASE ben_validate
  BY <1>2, ValidateKeepsIInv
<1>3. CASE ben_dec
  BY <1>3, DecodeKeepsIInv
<1>4. CASE UNCHANGED vars
  <2>1. /\ value' = value /\ doing' = doing /\ alloc' = alloc /\ sent' = sent /\ raw' = raw
        /\ calls' = calls /\ num' = num /\ heads' = heads /\ p' = p /\ open' = open
        /\ size' = size /\ result' = result
    BY <1>4 DEF vars, encvars, valvars, decvars
  <2>2. Hd' = Hd
    BY <2>1 DEF Hd
  <2>3. PacketTypeOK' /\ Delivered' /\ EncoderOK' /\ HeadsOK'
    BY <2>1 DEF BencodeIInv, PacketTypeOK, Delivered, EncoderOK, HeadsOK, Stack
  <2>4. Stages' /\ Decoding'
    BY <2>1, <2>2 DEF BencodeIInv, Stages, Decoding, Running, AtHead, Complete
  <2> QED BY <2>3, <2>4 DEF BencodeIInv
<1> QED BY <1>1, <1>2, <1>3, <1>4 DEF Next

\* ben_dec is in the packet: ben_validate was where it is.
LEMMA IInvDecodes == BencodeIInv => DecodesWithinPacket
<1> SUFFICES ASSUME BencodeIInv, raw # << >>, raw[1] \in {"d", "l"}
             PROVE  /\ result # "lost"
                    /\ Len(raw) <= size /\ p <= Len(raw)
                    /\ result = "decoded" => p = Len(raw)
  BY DEF DecodesWithinPacket
<1>1. Len(raw) \in Nat /\ Len(raw) <= size
  BY LenProperties DEF BencodeIInv, PacketTypeOK
<1>2. CASE result \notin Behind
  <2>1. p = 0 /\ result # "lost" /\ result # "decoded"
    BY <1>2 DEF BencodeIInv, Decoding, Behind
  <2> QED BY <1>1, <2>1
<1>3. CASE result \in Behind
  <2>1. Complete
    BY <1>3 DEF BencodeIInv, Stages
  <2>2. /\ result # "lost"
        /\ \E k \in 1..Len(heads) : /\ p = heads[k].at
                                    /\ result = "decoded" <=> k = Len(heads)
    BY <1>3, <2>1 DEF BencodeIInv, Decoding, Complete
  <2>3. PICK k \in 1..Len(heads) : p = heads[k].at /\ (result = "decoded" <=> k = Len(heads))
    BY <2>2
  <2>4. p <= Len(raw)
    BY <2>3 DEF BencodeIInv, HeadsOK
  <2>5. Hd = heads[Len(heads)]
    BY DEF Hd, Last
  <2>6. result = "decoded" => p = Len(raw)
    BY <2>1, <2>3, <2>5 DEF Complete
  <2> QED BY <1>1, <2>2, <2>4, <2>6
<1> QED BY <1>2, <1>3

\* ben_dec takes no notice of the size of a packet. It does not leave one that ben_validate has
\* accepted, and is not lost in it, if it is a list or a dictionary, whatever the bytes are.
THEOREM DecodeStaysWithinPacket == Spec => []DecodesWithinPacket
<1>1. Spec => []BencodeIInv
  BY BencodeInit, BencodeStep, PTL DEF Spec
<1> QED BY <1>1, IInvDecodes, PTL

(***************************************************************************)
(* ben_enc: what ben_enc_size counts and what ben_enc_rec writes.          *)
(***************************************************************************)

\* What ben_enc_rec writes, when d are its calls.
StepCode(d) == IF ~More(Last(d)) THEN <<"e">>
               ELSE IF Item(Last(d))[1] \in {"s", "i"} THEN Code(Item(Last(d)))
               ELSE <<Item(Last(d))[1]>>

\* A step of ben_enc_size.
MarkStep(m, g) ==
  \/ LeafStep(m.doing, g.doing) /\ g.alloc = m.alloc + LeafSize(Item(Last(m.doing)))
  \/ BeginStep(m.doing, g.doing) /\ g.alloc = m.alloc + 2
  \/ EndStep(m.doing, g.doing) /\ g.alloc = m.alloc

\* How much of the code is in front of m: the ends of what is open are counted,
\* but not written.
Place(m) == m.alloc - (Len(m.doing) - 1)
MarkOK(m) == Stack(m.doing) /\ m.alloc \in Nat /\ Place(m) \in Nat

\* What is written at m is in b.
Written(b, m) ==
  /\ Place(m) + Len(StepCode(m.doing)) <= Len(b)
  /\ \A i \in 1..Len(StepCode(m.doing)) : b[Place(m) + i] = StepCode(m.doing)[i]

\* The walk is through.
Done(d) == ~More(Last(d)) /\ Len(d) = 1

\* What ben_enc_size counts for a step is what ben_enc_rec writes, but for the
\* end of a list or a dictionary, which is counted at its beginning.
LEMMA StepIs ==
  ASSUME NEW m, NEW g, MarkOK(m), MarkStep(m, g)
  PROVE  /\ MarkOK(g) /\ g.alloc >= m.alloc /\ g.alloc > 0
         /\ StepCode(m.doing) \in Seq(Octet) /\ Len(StepCode(m.doing)) \in Nat \ {0}
         /\ Place(g) = Place(m) + Len(StepCode(m.doing))
<1> DEFINE d == m.doing
           e == g.doing
           a == m.alloc
           b == g.alloc
           n == Item(Last(d))
<1>1. /\ Stack(d) /\ a \in Nat /\ a - (Len(d) - 1) \in Nat
      /\ \/ LeafStep(d, e) /\ b = a + LeafSize(n)
         \/ BeginStep(d, e) /\ b = a + 2
         \/ EndStep(d, e) /\ b = a
  BY DEF MarkOK, MarkStep, Place
<1>2. SUFFICES /\ Stack(e) /\ b \in Nat /\ b - (Len(e) - 1) \in Nat /\ b >= a /\ b > 0
               /\ StepCode(d) \in Seq(Octet) /\ Len(StepCode(d)) \in Nat \ {0}
               /\ b - (Len(e) - 1) = a - (Len(d) - 1) + Len(StepCode(d))
  BY DEF MarkOK, Place
<1> HIDE DEF d, e, a, b
<1>3. Len(d) \in Nat /\ Len(d) >= 1 /\ Last(d) \in EncFrame
  BY <1>1, StackIs
<1>4. Stack(e)
  BY <1>1, WalkKeepsStack DEF Walk
<1>5. CASE LeafStep(d, e) /\ b = a + LeafSize(n)
  <2>1. n \in Tree /\ n[1] \in {"s", "i"} /\ More(Last(d)) /\ e = Back(d)
    BY <1>3, <1>5, ItemIs DEF LeafStep
  <2>2. Code(n) \in Seq(Octet) /\ Len(Code(n)) = LeafSize(n) /\ LeafSize(n) \in Nat \ {0}
    BY <2>1, CodeIs
  <2>3. StepCode(d) = Code(n)
    BY <2>1 DEF StepCode
  <2>4. Len(e) = Len(d)
    BY <2>1, <1>1, BackIs
  <2> HIDE DEF n
  <2>5. PICK z \in Nat \ {0} : z = LeafSize(n)
    BY <2>2
  <2>6. b = a + z /\ Len(StepCode(d)) = z
    BY <1>5, <2>2, <2>3, <2>5
  <2>7. b \in Nat /\ b >= a /\ b > 0 /\ b - (Len(d) - 1) = a - (Len(d) - 1) + z
    BY <1>1, <1>3, <2>5, <2>6
  <2>8. a - (Len(d) - 1) + z \in Nat
    BY <1>1, <1>3
  <2> QED BY <1>4, <2>2, <2>3, <2>4, <2>5, <2>6, <2>7, <2>8
<1>6. CASE BeginStep(d, e) /\ b = a + 2
  <2>1. n \in Tree /\ n[1] \in {"d", "l"} /\ More(Last(d)) /\ e = Append(d, Frame(n))
    BY <1>3, <1>6, ItemIs DEF BeginStep
  <2>2. StepCode(d) = <<n[1]>>
    BY <2>1 DEF StepCode
  <2>3. <<n[1]>> \in Seq(Octet) /\ Len(<<n[1]>>) = 1
    BY <2>1 DEF Octet, Mark
  <2>4. Len(e) = Len(d) + 1
    <3>1. d \in Seq(EncFrame) /\ Frame(n) \in EncFrame
      BY <1>1, <2>1, StackIs, FrameIs
    <3> QED BY <2>1, <3>1, Pushed
  <2> HIDE DEF n
  <2>5. b \in Nat /\ b >= a /\ b > 0 /\ b - (Len(d) + 1 - 1) = a - (Len(d) - 1) + 1
    BY <1>1, <1>3, <1>6
  <2>6. a - (Len(d) - 1) + 1 \in Nat
    BY <1>1
  <2> QED BY <1>4, <2>2, <2>3, <2>4, <2>5, <2>6
<1>7. CASE EndStep(d, e) /\ b = a
  <2>1. ~More(Last(d)) /\ Len(d) > 1 /\ e = Back(Front(d))
    BY <1>7 DEF EndStep
  <2>2. StepCode(d) = <<"e">>
    BY <2>1 DEF StepCode
  <2>3. <<"e">> \in Seq(Octet) /\ Len(<<"e">>) = 1
    BY DEF Octet, Mark
  <2>4. Len(e) = Len(d) - 1
    <3>1. Stack(Front(d)) /\ More(Last(Front(d)))
      BY <1>1, <2>1, FrontIs
    <3>2. Len(Back(Front(d))) = Len(Front(d))
      BY <3>1, BackIs
    <3> QED BY <2>1, <3>2, <1>1, StackIs
  <2>5. b \in Nat /\ b >= a /\ b > 0 /\ b - (Len(d) - 1 - 1) = a - (Len(d) - 1) + 1
    BY <1>1, <1>3, <1>7, <2>1
  <2>6. a - (Len(d) - 1) + 1 \in Nat
    BY <1>1
  <2> QED BY <1>4, <2>2, <2>3, <2>4, <2>5, <2>6
<1> QED BY <1>1, <1>5, <1>6, <1>7

\* Both walks take the same way through a value.
LEMMA OneWay ==
  ASSUME NEW d, NEW e, NEW f, Walk(d, e), Walk(d, f)
  PROVE  e = f /\ ~Done(d)
<1>1. ~(Len(d) = 1 /\ Len(d) > 1)
  <2>1. ~(1 > 1)
    OBVIOUS
  <2> QED BY <2>1
<1>2. {"s", "i"} \cap {"d", "l"} = {}
  OBVIOUS
<1>3. ~Done(d)
  BY <1>1 DEF Walk, LeafStep, BeginStep, EndStep, Done
<1>4. e = f
  BY <1>2 DEF Walk, LeafStep, BeginStep, EndStep
<1> QED BY <1>3, <1>4

\* The steps of the walks.
LEMMA EncodeWalks ==
  ASSUME result \in {"sizing", "encoding"}, alloc \in Nat, EncodeLeaf \/ EncodeBegin \/ EncodeEnd
  PROVE  /\ Walk(doing, doing')
         /\ \/ /\ result = "sizing" /\ sent' = sent
               /\ marks' = Append(marks, [doing |-> doing', alloc |-> alloc'])
               /\ MarkStep([doing |-> doing, alloc |-> alloc], [doing |-> doing', alloc |-> alloc'])
            \/ /\ result = "encoding" /\ alloc' = alloc /\ marks' = marks
               /\ sent' = sent \o StepCode(doing)
<1> DEFINE n == Item(Last(doing))
           M == [doing |-> doing, alloc |-> alloc]
           G == [doing |-> doing', alloc |-> alloc']
<1>1. M.doing = doing /\ M.alloc = alloc /\ G.doing = doing' /\ G.alloc = alloc'
  OBVIOUS
<1>2. CASE EncodeLeaf
  <2>1. LeafStep(doing, doing') /\ More(Last(doing)) /\ n[1] \in {"s", "i"}
    BY <1>2 DEF EncodeLeaf, LeafStep
  <2>2. ben_enc_size(LeafSize(n)) \/ ben_enc_rec(Code(n))
    BY <1>2 DEF EncodeLeaf
  <2>3. StepCode(doing) = Code(n)
    BY <2>1 DEF StepCode
  <2>4. alloc' = alloc + LeafSize(n) => MarkStep(M, G)
    BY <1>1, <2>1 DEF MarkStep
  <2> HIDE DEF n, M
  <2> QED BY <2>1, <2>2, <2>3, <2>4 DEF Walk, ben_enc_size, ben_enc_rec, M
<1>3. CASE EncodeBegin
  <2>1. BeginStep(doing, doing') /\ More(Last(doing)) /\ n[1] \in {"d", "l"}
    BY <1>3 DEF EncodeBegin, BeginStep
  <2>2. ben_enc_size(2) \/ ben_enc_rec(<<n[1]>>)
    BY <1>3 DEF EncodeBegin
  <2>3. StepCode(doing) = <<n[1]>>
    BY <2>1 DEF StepCode
  <2>4. alloc' = alloc + 2 => MarkStep(M, G)
    BY <1>1, <2>1 DEF MarkStep
  <2> HIDE DEF n, M
  <2> QED BY <2>1, <2>2, <2>3, <2>4 DEF Walk, ben_enc_size, ben_enc_rec, M
<1>4. CASE EncodeEnd
  <2>1. EndStep(doing, doing') /\ ~More(Last(doing))
    BY <1>4 DEF EncodeEnd, EndStep
  <2>2. ben_enc_size(0) \/ ben_enc_rec(<<"e">>)
    BY <1>4 DEF EncodeEnd
  <2>3. StepCode(doing) = <<"e">>
    BY <2>1 DEF StepCode
  <2>4. alloc' = alloc => MarkStep(M, G)
    BY <1>1, <2>1 DEF MarkStep
  <2> HIDE DEF n, M
  <2>5. ben_enc_size(0) => alloc' = alloc
    <3>1. alloc \in Nat => alloc + 0 = alloc
      OBVIOUS
    <3> QED BY <3>1 DEF ben_enc_size
  <2> QED BY <2>1, <2>2, <2>3, <2>4, <2>5 DEF Walk, ben_enc_size, ben_enc_rec, M
<1> QED BY <1>2, <1>3, <1>4

\* A step of ben_enc_size.
Mark_ == [doing : Seq(EncFrame), alloc : Nat]

\* What ben_enc_size has gone through.
Sized ==
  /\ marks \in Seq(Mark_) /\ marks # << >>
  /\ marks[1] = [doing |-> <<Caller>>, alloc |-> 0]
  /\ \A j \in 1..Len(marks) : /\ MarkOK(marks[j]) /\ marks[j].alloc <= alloc
                              /\ j # 1 => marks[j].alloc > 0
  /\ \A j \in 1..(Len(marks) - 1) : MarkStep(marks[j], marks[j + 1])
  /\ Last(marks).alloc = alloc
  /\ IF result = "sizing" THEN doing = Last(marks).doing ELSE Done(Last(marks).doing)

\* The code in front of marks[k] is written, and nothing else.
Upto(k) == Len(sent) = Place(marks[k]) /\ \A j \in 1..(k - 1) : Written(sent, marks[j])

\* What ben_enc_rec has written in each stage.
Filled ==
  /\ result # "unsent"
  /\ result = "sizing" => sent = << >>
  /\ result = "encoding" => \E k \in 1..Len(marks) : doing = marks[k].doing /\ Upto(k)
  /\ result \notin {"sizing", "encoding"} => Upto(Len(marks))

\* With BencodeIInv, the inductive invariant of EncodeStaysWithinBuffer.
BufferOK == value # << >> => Sized /\ Filled

\* What the marks are.
LEMMA MarksAre ==
  ASSUME Sized
  PROVE  /\ marks \in Seq(Mark_) /\ Len(marks) \in Nat /\ Len(marks) >= 1
         /\ Last(marks) = marks[Len(marks)] /\ 1 \in 1..Len(marks) /\ Len(marks) \in 1..Len(marks)
         /\ alloc \in Nat
         /\ \A j \in 1..Len(marks) : MarkOK(marks[j])
         /\ \A j \in 1..(Len(marks) - 1) : j \in 1..Len(marks) /\ j + 1 \in 1..Len(marks)
<1>1. marks \in Seq(Mark_) /\ marks # << >>
  BY DEF Sized
<1>2. Len(marks) \in Nat /\ Len(marks) >= 1 /\ Last(marks) = marks[Len(marks)]
  BY <1>1, Popped DEF Last
<1>3. 1 \in 1..Len(marks) /\ Len(marks) \in 1..Len(marks)
      /\ \A j \in 1..(Len(marks) - 1) : j \in 1..Len(marks) /\ j + 1 \in 1..Len(marks)
  BY <1>2
<1>4. \A j \in 1..Len(marks) : MarkOK(marks[j])
  BY DEF Sized
<1>5. alloc \in Nat
  BY <1>2, <1>3, <1>4 DEF Sized, MarkOK
<1> QED BY <1>1, <1>2, <1>3, <1>4, <1>5

\* What is written stays.
LEMMA WrittenStays ==
  ASSUME NEW b \in Seq(Octet), NEW c \in Seq(Octet), Extends(b, c),
         NEW m, Place(m) \in Nat, StepCode(m.doing) \in Seq(Octet), Written(b, m)
  PROVE  Written(c, m)
<1>1. Len(b) \in Nat /\ Len(c) \in Nat /\ Len(StepCode(m.doing)) \in Nat
  BY LenProperties
<1>2. PICK a \in Nat, l \in Nat : a = Place(m) /\ l = Len(StepCode(m.doing))
  BY <1>1
<1>3. a + l <= Len(b) /\ Len(b) <= Len(c)
  BY <1>2 DEF Written, Extends
<1>4. a + l <= Len(c)
  BY <1>1, <1>3
<1>5. ASSUME NEW i \in 1..l PROVE c[a + i] = StepCode(m.doing)[i]
  <2>1. a + i \in 1..Len(b)
    BY <1>1, <1>3
  <2> QED BY <2>1, <1>2 DEF Extends, Written
<1> QED BY <1>2, <1>4, <1>5 DEF Written

\* A step of ben_enc_size.
LEMMA SizeKeepsBuffer ==
  ASSUME Sized, Filled, value' = value, result = "sizing", result' = result, sent' = sent,
         Walk(doing, doing'),
         marks' = Append(marks, [doing |-> doing', alloc |-> alloc']),
         MarkStep([doing |-> doing, alloc |-> alloc], [doing |-> doing', alloc |-> alloc'])
  PROVE  Sized' /\ Filled'
<1> DEFINE M == Last(marks)
           G == [doing |-> doing', alloc |-> alloc']
<1>1. G.doing = doing' /\ G.alloc = alloc' /\ M.doing = doing /\ M.alloc = alloc
  BY DEF Sized
<1>2. MarkStep(M, G)
  BY <1>1 DEF MarkStep
<1>3. /\ marks \in Seq(Mark_) /\ Len(marks) \in Nat /\ Len(marks) >= 1 /\ alloc \in Nat
      /\ M = marks[Len(marks)] /\ 1 \in 1..Len(marks) /\ Len(marks) \in 1..Len(marks)
      /\ \A j \in 1..Len(marks) : MarkOK(marks[j])
  BY MarksAre
<1>4. MarkOK(M)
  BY <1>3
<1> HIDE DEF M, G
<1>5. MarkOK(G) /\ G.alloc >= M.alloc /\ G.alloc > 0
  BY <1>2, <1>4, StepIs
<1>6. Stack(doing') /\ alloc' \in Nat /\ alloc <= alloc' /\ doing' \in Seq(EncFrame)
  <2>1. Stack(doing') /\ alloc' \in Nat /\ alloc' >= alloc
    BY <1>1, <1>5 DEF MarkOK
  <2>2. doing' \in Seq(EncFrame)
    BY <2>1, StackIs
  <2> QED BY <1>3, <2>1, <2>2
<1>7. G \in Mark_
  BY <1>6 DEF Mark_, G
<1>8. /\ marks' \in Seq(Mark_) /\ marks' # << >> /\ Len(marks') = Len(marks) + 1
      /\ \A j \in 1..Len(marks) : marks'[j] = marks[j]
      /\ marks'[Len(marks) + 1] = G /\ Last(marks') = G
  BY <1>3, <1>7, Pushed DEF G
<1>9. ASSUME NEW j \in 1..Len(marks')
      PROVE  MarkOK(marks'[j]) /\ marks'[j].alloc <= alloc' /\ (j # 1 => marks'[j].alloc > 0)
  <2>1. CASE j \in 1..Len(marks)
    <3>1. marks'[j] = marks[j] /\ MarkOK(marks[j]) /\ marks[j].alloc <= alloc
          /\ (j # 1 => marks[j].alloc > 0)
      BY <2>1, <1>8 DEF Sized
    <3>2. marks[j].alloc \in Nat
      BY <3>1 DEF MarkOK
    <3>3. marks[j].alloc <= alloc'
      BY <3>1, <3>2, <1>3, <1>6
    <3> QED BY <3>1, <3>3
  <2>2. CASE j = Len(marks) + 1
    BY <2>2, <1>1, <1>5, <1>6, <1>8
  <2>3. j \in 1..Len(marks) \/ j = Len(marks) + 1
    BY <1>3, <1>8
  <2> QED BY <2>1, <2>2, <2>3
<1>10. ASSUME NEW j \in 1..(Len(marks') - 1) PROVE MarkStep(marks'[j], marks'[j + 1])
  <2>1. CASE j \in 1..(Len(marks) - 1)
    <3>1. j \in 1..Len(marks) /\ j + 1 \in 1..Len(marks)
      BY <2>1, <1>3
    <3>2. marks'[j] = marks[j] /\ marks'[j + 1] = marks[j + 1]
      BY <3>1, <1>8
    <3> QED BY <2>1, <3>2 DEF Sized
  <2>2. CASE j = Len(marks)
    <3>1. marks'[j] = M /\ marks'[j + 1] = G
      BY <2>2, <1>3, <1>8
    <3> QED BY <3>1, <1>2
  <2>3. j \in 1..(Len(marks) - 1) \/ j = Len(marks)
    BY <1>3, <1>8
  <2> QED BY <2>1, <2>2, <2>3
<1>11. marks'[1] = [doing |-> <<Caller'>>, alloc |-> 0]
  <2>1. Caller' = Caller
    BY DEF Caller, Frame
  <2> QED BY <2>1, <1>3, <1>8 DEF Sized
<1>12. \A j \in 1..Len(marks') : MarkOK(marks[j])'
  BY <1>9 DEF MarkOK, Stack, Place
<1>13. Sized'
  BY <1>1, <1>8, <1>9, <1>10, <1>11, <1>12 DEF Sized
<1>14. Filled'
  BY DEF Filled
<1> QED BY <1>13, <1>14

\* A step of ben_enc_rec.
LEMMA RecKeepsBuffer ==
  ASSUME Sized, Filled, value' = value, result = "encoding", result' = result, sent \in Seq(Octet),
         Walk(doing, doing'), alloc' = alloc, marks' = marks, sent' = sent \o StepCode(doing)
  PROVE  Sized' /\ Filled'
<1>1. /\ Len(marks) \in Nat /\ Len(marks) >= 1 /\ Last(marks) = marks[Len(marks)]
      /\ \A j \in 1..Len(marks) : MarkOK(marks[j])
      /\ \A j \in 1..(Len(marks) - 1) : j \in 1..Len(marks) /\ j + 1 \in 1..Len(marks)
  BY MarksAre
<1>2. PICK k \in 1..Len(marks) : doing = marks[k].doing /\ Upto(k)
  BY DEF Filled
<1>3. k # Len(marks)
  <2>1. Done(Last(marks).doing)
    BY DEF Sized
  <2>2. ~Done(doing)
    BY OneWay
  <2> QED BY <2>1, <2>2, <1>1, <1>2
<1>4. k \in 1..(Len(marks) - 1) /\ k \in 1..Len(marks) /\ k + 1 \in 1..Len(marks) /\ k + 1 - 1 = k
  BY <1>1, <1>3
<1>5. MarkStep(marks[k], marks[k + 1]) /\ MarkOK(marks[k])
  BY <1>1, <1>4 DEF Sized
<1>6. doing' = marks[k + 1].doing
  <2>1. Walk(doing, marks[k + 1].doing)
    BY <1>2, <1>5 DEF Walk, MarkStep
  <2> QED BY <2>1, OneWay
<1>7. /\ StepCode(doing) \in Seq(Octet) /\ Len(StepCode(doing)) \in Nat
      /\ Place(marks[k + 1]) = Place(marks[k]) + Len(StepCode(doing))
      /\ Place(marks[k]) \in Nat
  BY <1>2, <1>5, StepIs DEF MarkOK
<1>8. Len(sent) = Place(marks[k]) /\ \A j \in 1..(k - 1) : Written(sent, marks[j])
  BY <1>2 DEF Upto
<1>9. /\ sent' \in Seq(Octet) /\ Len(sent') = Len(sent) + Len(StepCode(doing)) /\ Len(sent) \in Nat
      /\ \A i \in 1..Len(sent) : sent'[i] = sent[i]
      /\ \A i \in 1..Len(StepCode(doing)) : sent'[Len(sent) + i] = StepCode(doing)[i]
  BY <1>7, Joined
<1>10. Extends(sent, sent')
  BY <1>7, <1>9 DEF Extends
<1>11. ASSUME NEW j \in 1..k PROVE Written(sent', marks[j])
  <2>1. CASE j \in 1..(k - 1)
    <3>1. j \in 1..(Len(marks) - 1) /\ j \in 1..Len(marks)
      BY <2>1, <1>1, <1>4
    <3>2. MarkOK(marks[j]) /\ MarkStep(marks[j], marks[j + 1])
      BY <3>1, <1>1 DEF Sized
    <3>3. StepCode(marks[j].doing) \in Seq(Octet) /\ Place(marks[j]) \in Nat
      BY <3>2, StepIs DEF MarkOK
    <3> QED BY <2>1, <3>3, <1>8, <1>9, <1>10, WrittenStays
  <2>2. CASE j = k
    <3>1. Place(marks[k]) + Len(StepCode(marks[k].doing)) <= Len(sent')
      BY <1>2, <1>7, <1>8, <1>9
    <3>2. \A i \in 1..Len(StepCode(marks[k].doing)) :
            sent'[Place(marks[k]) + i] = StepCode(marks[k].doing)[i]
      BY <1>2, <1>8, <1>9
    <3> QED BY <2>2, <3>1, <3>2 DEF Written
  <2>3. j \in 1..(k - 1) \/ j = k
    BY <1>1
  <2> QED BY <2>1, <2>2, <2>3
<1>12. Sized'
  <2>1. Caller' = Caller
    BY DEF Caller, Frame
  <2>2. \A j \in 1..Len(marks) : MarkOK(marks[j])'
    BY <1>1 DEF MarkOK, Stack, Place
  <2> QED BY <2>1, <2>2 DEF Sized
<1>13. Upto(k + 1)'
  <2>1. Len(sent') = Place(marks[k + 1])
    BY <1>7, <1>8, <1>9
  <2>2. Place(marks[k + 1])' = Place(marks[k + 1])
    BY DEF Place
  <2>3. ASSUME NEW j \in 1..k PROVE Written(sent, marks[j])'
    BY <1>11 DEF Written, Place
  <2> QED BY <2>1, <2>2, <2>3, <1>4 DEF Upto
<1>14. Filled'
  BY <1>4, <1>6, <1>13 DEF Filled
<1> QED BY <1>12, <1>14

\* What is between the walks, and behind them.
LEMMA EncKeepsBuffer ==
  ASSUME Sized, Filled, ben_enc, result \in {"sizing", "encoding"}
  PROVE  Sized' /\ Filled'
<1>1. /\ value' = value /\ alloc' = alloc /\ sent' = sent /\ marks' = marks
      /\ Done(doing)
      /\ \/ /\ result = "sizing"
            /\ result' = IF alloc > 0 THEN "encoding" ELSE "unsent"
            /\ doing' = <<Caller>>
         \/ /\ result = "encoding"
            /\ result' = IF Len(sent) = alloc THEN "running" ELSE "unsent"
  BY DEF ben_enc, Done
<1>2. /\ Len(marks) \in Nat /\ Len(marks) >= 1 /\ Last(marks) = marks[Len(marks)]
      /\ 1 \in 1..Len(marks) /\ Len(marks) \in 1..Len(marks)
      /\ \A j \in 1..Len(marks) : MarkOK(marks[j])
      /\ \A j \in 1..(Len(marks) - 1) : j \in 1..Len(marks) /\ j + 1 \in 1..Len(marks)
  BY MarksAre
<1>3. Done(Last(marks).doing) /\ Last(marks).alloc = alloc
  BY <1>1 DEF Sized
<1>4. marks[1] = [doing |-> <<Caller>>, alloc |-> 0] /\ Caller' = Caller
  BY <1>1 DEF Sized, Caller, Frame
<1>5. ASSUME result' # "sizing" PROVE Sized'
  <2>1. \A j \in 1..Len(marks) : MarkOK(marks[j])'
    BY <1>1, <1>2 DEF MarkOK, Stack, Place
  <2> QED BY <2>1, <1>1, <1>3, <1>4, <1>5 DEF Sized
<1>6. CASE result = "sizing"
  <2>1. /\ result' = IF alloc > 0 THEN "encoding" ELSE "unsent"
        /\ doing' = <<Caller>> /\ sent = << >>
    BY <1>1, <1>6 DEF Filled
  <2>2. Len(marks) # 1
    <3>1. SUFFICES ASSUME Len(marks) = 1 PROVE FALSE
      OBVIOUS
    <3>2. Done(<<Caller>>)
      BY <3>1, <1>2, <1>3, <1>4
    <3>3. Len(<<Caller>>) = 1 /\ <<Caller>>[1] = Caller
      OBVIOUS
    <3>4. Caller.k = 0 /\ Caller.v = <<value>> /\ Len(<<value>>) = 1
      BY DEF Caller, Frame
    <3>5. More(Caller)
      BY <3>4 DEF More
    <3>6. Last(<<Caller>>) = Caller
      BY <3>3 DEF Last
    <3> QED BY <3>2, <3>5, <3>6 DEF Done
  <2>3. alloc > 0
    BY <2>2, <1>2, <1>3 DEF Sized
  <2>4. result' = "encoding"
    BY <2>1, <2>3
  <2>5. doing' = marks[1].doing
    BY <2>1, <1>4
  <2>6. Len(sent) = Place(marks[1])
    <3>1. Len(<<Caller>>) = 1 /\ Len(<< >>) = 0
      OBVIOUS
    <3> QED BY <3>1, <2>1, <1>4 DEF Place
  <2>7. Upto(1)'
    <3>1. \A j \in 1..(1 - 1) : FALSE
      OBVIOUS
    <3>2. (Len(sent) = Place(marks[1]))'
      BY <2>6, <1>1 DEF Place
    <3> QED BY <3>1, <3>2 DEF Upto
  <2>8. Filled'
    BY <2>4, <2>5, <2>7, <1>1, <1>2 DEF Filled
  <2> QED BY <2>4, <2>8, <1>5
<1>7. CASE result = "encoding"
  <2>1. PICK k \in 1..Len(marks) : doing = marks[k].doing /\ Upto(k)
    BY <1>7 DEF Filled
  <2>2. k = Len(marks)
    <3>1. SUFFICES ASSUME k # Len(marks) PROVE FALSE
      OBVIOUS
    <3>2. k \in 1..(Len(marks) - 1)
      BY <3>1, <1>2
    <3>3. Walk(doing, marks[k + 1].doing)
      BY <3>2, <2>1 DEF Sized, MarkStep, Walk
    <3> QED BY <3>3, <1>1, OneWay
  <2>3. Len(sent) = alloc
    <3>1. Len(doing) = 1 /\ Last(marks).doing = doing
      BY <2>1, <2>2, <1>1, <1>2 DEF Done
    <3>2. Place(Last(marks)) = alloc - (1 - 1) /\ alloc \in Nat
      BY <3>1, <1>3, MarksAre DEF Place
    <3> QED BY <3>2, <2>1, <2>2, <1>2 DEF Upto
  <2>4. result' = "running"
    BY <1>1, <1>7, <2>3
  <2>5. Upto(Len(marks))'
    BY <2>1, <2>2, <1>1 DEF Upto, Place, Written
  <2> QED BY <2>4, <2>5, <1>5 DEF Filled
<1> QED BY <1>6, <1>7

\* ben_validate comes to an end.
LEMMA ValidateResults ==
  ASSUME BencodeIInv, ben_validate
  PROVE  result = "running" /\ result' \notin Early
<1>1. /\ result = "running" /\ Running /\ PacketTypeOK /\ Hd \in Head_
      /\ Hd.calls = <<"r">> => Hd.at = 0
  BY HdIs DEF ben_validate, Stages, BencodeIInv
<1>2. ASSUME Outcome PROVE result' \notin Early
  BY <1>2 DEF Outcome, Arrived, GoesOn, Early
<1>3. CASE /\ Len(raw) < size
           /\ \E c \in NextByte : \/ ValidateValue(c) \/ ben_validate_l(c)
                                  \/ ben_validate_d(c) \/ ben_validate_s(c)
                                  \/ ben_validate_i(c)
  BY <1>1, <1>2, <1>3, ByteRead DEF BencodeIInv
<1>4. CASE OutOfBytes
  <2>1. result' = "broken" \/ result' = "valid"
    BY <1>1, <1>4, OutOfBytesStep
  <2> QED BY <2>1, <1>1 DEF Early
<1> QED BY <1>1, <1>3, <1>4 DEF ben_validate

\* The first states.
LEMMA BufferInit ==
  ASSUME Init, value # << >>
  PROVE  Sized /\ Filled
<1>1. /\ alloc = 0 /\ sent = << >> /\ value \in Tree /\ doing = <<Caller>> /\ result = "sizing"
      /\ marks = <<[doing |-> <<Caller>>, alloc |-> 0]>>
  BY DEF Init
<1> DEFINE M == [doing |-> <<Caller>>, alloc |-> 0]
<1>2. M.doing = <<Caller>> /\ M.alloc = 0
  OBVIOUS
<1>3. Stack(<<Caller>>) /\ Len(<<Caller>>) = 1
  <2>1. Stack(<<Caller>>)
    BY <1>1, BencodeInit, TreeIs DEF BencodeIInv, EncoderOK
  <2>2. Len(<<Caller>>) = 1
    OBVIOUS
  <2> QED BY <2>1, <2>2
<1>4. MarkOK(M)
  BY <1>2, <1>3 DEF MarkOK, Place
<1>5. M \in Mark_
  <2>1. <<Caller>> \in Seq(EncFrame)
    BY <1>3, StackIs
  <2> QED BY <2>1 DEF Mark_
<1> HIDE DEF M
<1>6. marks = <<M>>
  BY <1>1 DEF M
<1>7. marks \in Seq(Mark_) /\ marks # << >> /\ Len(marks) = 1 /\ marks[1] = M
  BY <1>5, <1>6
<1>8. Last(marks) = M
  BY <1>7 DEF Last
<1>9. \A j \in 1..Len(marks) : j = 1
  BY <1>7
<1>10. \A j \in 1..(Len(marks) - 1) : FALSE
  BY <1>7
<1>11. \A j \in 1..Len(marks) : MarkOK(marks[j]) /\ marks[j].alloc <= alloc
  BY <1>1, <1>2, <1>4, <1>7, <1>9
<1>12. Sized
  BY <1>1, <1>2, <1>7, <1>8, <1>9, <1>10, <1>11 DEF Sized, M
<1> QED BY <1>1, <1>12 DEF Filled

\* A step.
LEMMA BufferStep ==
  ASSUME BencodeIInv, BufferOK, [Next]_vars
  PROVE  BufferOK'
<1>1. SUFFICES ASSUME value' # << >> PROVE Sized' /\ Filled'
  BY DEF BufferOK
<1>2. value' = value
  BY DEF Next, Encode, ben_enc, ben_validate, ben_dec, vars, encvars
<1>3. Sized /\ Filled
  BY <1>1, <1>2 DEF BufferOK
<1>4. CASE Encode
  <2>1. result \in {"sizing", "encoding"} /\ alloc \in Nat /\ sent \in Seq(Octet)
    BY <1>3, <1>4, MarksAre DEF Encode, BencodeIInv, PacketTypeOK
  <2>2. CASE (EncodeLeaf \/ EncodeBegin \/ EncodeEnd) /\ result' = result
    <3>1. /\ Walk(doing, doing')
          /\ \/ /\ result = "sizing" /\ sent' = sent
                /\ marks' = Append(marks, [doing |-> doing', alloc |-> alloc'])
                /\ MarkStep([doing |-> doing, alloc |-> alloc], [doing |-> doing', alloc |-> alloc'])
             \/ /\ result = "encoding" /\ alloc' = alloc /\ marks' = marks
                /\ sent' = sent \o StepCode(doing)
      BY <2>1, <2>2, EncodeWalks
    <3> QED BY <3>1, <2>1, <2>2, <1>2, <1>3, SizeKeepsBuffer, RecKeepsBuffer
  <2>3. CASE ben_enc
    BY <2>1, <2>3, <1>3, EncKeepsBuffer
  <2> QED BY <1>4, <2>2, <2>3 DEF Encode
<1>5. ASSUME result \notin Early, result' \notin Early,
             sent' = sent, marks' = marks, alloc' = alloc
      PROVE  Sized' /\ Filled'
  <2>1. Caller' = Caller
    BY <1>2 DEF Caller, Frame
  <2>2. result # "sizing" /\ result # "encoding" /\ result' # "sizing" /\ result' # "encoding"
        /\ result' # "unsent"
    BY <1>5 DEF Early
  <2>3. \A j \in 1..Len(marks) : MarkOK(marks[j])'
    BY <1>2, <1>3, <1>5 DEF Sized, MarkOK, Stack, Place
  <2>4. Sized'
    BY <2>1, <2>2, <2>3, <1>3, <1>5 DEF Sized
  <2>5. Upto(Len(marks))'
    <3>1. Upto(Len(marks))
      BY <2>2, <1>3 DEF Filled
    <3> QED BY <3>1, <1>5 DEF Upto, Place, Written
  <2>6. Filled'
    BY <2>2, <2>5 DEF Filled
  <2> QED BY <2>4, <2>6
<1>6. CASE ben_validate
  <2>1. sent' = sent /\ marks' = marks /\ alloc' = alloc
    BY <1>6 DEF ben_validate, encvars
  <2>2. result \notin Early /\ result' \notin Early
    BY <1>6, ValidateResults DEF Early
  <2> QED BY <2>1, <2>2, <1>5
<1>7. CASE ben_dec
  <2>1. sent' = sent /\ marks' = marks /\ alloc' = alloc /\ result = "valid"
    BY <1>7 DEF ben_dec, encvars
  <2>2. result \notin Early /\ result' \notin Early
    BY <1>7, <2>1, DecodeResults DEF Early, Behind
  <2> QED BY <2>1, <2>2, <1>5
<1>8. CASE UNCHANGED vars
  <2>1. value' = value /\ doing' = doing /\ alloc' = alloc /\ sent' = sent /\ marks' = marks
        /\ result' = result
    BY <1>8 DEF vars, encvars
  <2>2. Caller' = Caller
    BY <2>1 DEF Caller, Frame
  <2>3. \A j \in 1..Len(marks) : MarkOK(marks[j])'
    BY <2>1, <1>3 DEF Sized, MarkOK, Stack, Place
  <2>4. Sized'
    BY <2>1, <2>2, <2>3, <1>3 DEF Sized
  <2>5. \A k \in 1..Len(marks) : Upto(k) => Upto(k)'
    BY <2>1 DEF Upto, Place, Written
  <2>6. result \notin {"sizing", "encoding"} => Upto(Len(marks))'
    BY <2>1, <1>3 DEF Filled, Upto, Place, Written
  <2>7. Filled'
    BY <2>1, <2>5, <2>6, <1>3 DEF Filled
  <2> QED BY <2>4, <2>7
<1> QED BY <1>4, <1>6, <1>7, <1>8 DEF Next

\* The two walks of ben_enc agree about the size of the code: nothing is
\* written behind the end of the buffer, and all of it is filled.
LEMMA BufferWrites ==
  ASSUME BencodeIInv, BufferOK
  PROVE  WritesWithinBuffer
<1>1. value = << >> => result \notin Early
  BY DEF BencodeIInv, Delivered
<1>2. result # "unsent"
  BY <1>1 DEF BufferOK, Filled, Early
<1>3. ASSUME result = "encoding" PROVE Len(sent) <= alloc
  <2>1. Sized /\ Filled
    BY <1>1, <1>3 DEF BufferOK, Early
  <2>2. PICK k \in 1..Len(marks) : Upto(k)
    BY <1>3, <2>1 DEF Filled
  <2>3. MarkOK(marks[k]) /\ marks[k].alloc <= alloc /\ alloc \in Nat
    BY <2>1, MarksAre DEF Sized
  <2>4. Len(marks[k].doing) \in Nat /\ Len(marks[k].doing) >= 1 /\ marks[k].alloc \in Nat
    BY <2>3, StackIs DEF MarkOK
  <2>5. Len(sent) = marks[k].alloc - (Len(marks[k].doing) - 1)
    BY <2>2 DEF Upto, Place
  <2>6. marks[k].alloc - (Len(marks[k].doing) - 1) <= marks[k].alloc
    BY <2>4
  <2> QED BY <2>3, <2>4, <2>5, <2>6
<1> QED BY <1>2, <1>3 DEF WritesWithinBuffer

\* ben_enc_rec fills the buffer of ben_enc_size exactly, and never writes behind its end, whatever
\* the value is.
THEOREM EncodeStaysWithinBuffer == Spec => []WritesWithinBuffer
<1>1. Init => BencodeIInv /\ BufferOK
  BY BencodeInit, BufferInit DEF BufferOK
<1>2. BencodeIInv /\ BufferOK /\ [Next]_vars => (BencodeIInv /\ BufferOK)'
  BY BencodeStep, BufferStep
<1>3. BencodeIInv /\ BufferOK => WritesWithinBuffer
  BY BufferWrites
<1> QED BY <1>1, <1>2, <1>3, PTL DEF Spec

(***************************************************************************)
(* What ben_enc has written, as ben_validate reads it.                     *)
(***************************************************************************)

\* The calls of ben_validate, when those of ben_enc_rec are d.
Names(d) == [i \in 1..(Len(d) - 1) |-> d[i + 1].f]
Room(d)  == IF Len(d) = 1 THEN More(Last(d)) ELSE Last(d).part = "value"
CallsOf(d) == IF Room(d) THEN Append(Names(d), "r") ELSE Names(d)
IsKey(d) == Last(d).f = "d" /\ Last(d).part = "key"

\* The lists and dictionaries that are open.
LEMMA NamesAre ==
  ASSUME NEW d, Stack(d)
  PROVE  /\ Names(d) \in Seq(CallName) /\ Len(Names(d)) = Len(d) - 1
         /\ \A i \in 1..(Len(d) - 1) : Names(d)[i] = d[i + 1].f
         /\ Len(d) = 1 => Names(d) = << >> /\ Last(d).f = "root"
         /\ Len(d) > 1 => /\ Names(d) # << >> /\ Last(Names(d)) = Last(d).f
                          /\ Last(d).f \in {"d", "l"}
<1>1. Len(d) \in Nat /\ Len(d) >= 1 /\ Last(d) = d[Len(d)] /\ \A i \in 1..Len(d) : d[i] \in EncFrame
  BY StackIs
<1>2. ASSUME NEW i \in 1..(Len(d) - 1) PROVE d[i + 1].f \in {"d", "l"}
  <2>1. i + 1 \in 1..Len(d)
    BY <1>1
  <2>2. d[i + 1] \in EncFrame /\ d[i + 1].f # "root"
    BY <2>1, <1>1, <1>2 DEF Stack
  <2> QED BY <2>2 DEF EncFrame
<1>3. Len(d) - 1 \in Nat
  BY <1>1
<1>4. Names(d) \in [1..(Len(d) - 1) -> CallName]
  BY <1>2 DEF Names, CallName
<1>5. Names(d) \in Seq(CallName) /\ Len(Names(d)) = Len(d) - 1
  <2>1. PICK n \in Nat : n = Len(d) - 1
    BY <1>3
  <2> QED BY <2>1, <1>4, ASeq
<1>6. \A i \in 1..(Len(d) - 1) : Names(d)[i] = d[i + 1].f
  BY DEF Names
<1>7. Len(d) = 1 => Names(d) = << >> /\ Last(d).f = "root"
  <2>1. Len(d) = 1 => Len(Names(d)) = 0
    BY <1>5
  <2> QED BY <2>1, <1>1, <1>5, EmptySeq DEF Stack
<1>8. ASSUME Len(d) > 1
      PROVE  Names(d) # << >> /\ Last(Names(d)) = Last(d).f /\ Last(d).f \in {"d", "l"}
  <2>1. Len(d) - 1 \in 1..(Len(d) - 1) /\ Len(d) - 1 + 1 = Len(d)
    BY <1>1, <1>8
  <2>2. Last(d).f \in {"d", "l"} /\ Names(d)[Len(Names(d))] = Last(d).f
    BY <2>1, <1>1, <1>2, <1>5, <1>6
  <2>3. Names(d) # << >>
    BY <2>1, <1>5, EmptySeq
  <2> QED BY <2>2, <2>3 DEF Last
<1> QED BY <1>5, <1>6, <1>7, <1>8

\* ben_validate has returned when ben_enc_rec is through.
LEMMA CallsOfIs ==
  ASSUME NEW d, Stack(d)
  PROVE  /\ CallsOf(d) \in Seq(CallName)
         /\ CallsOf(d) # << >> <=> ~Done(d)
         /\ ~Done(d) => /\ Base(CallsOf(d)) = Names(d)
                        /\ Last(CallsOf(d)) = IF Room(d) THEN "r" ELSE Last(d).f
<1>1. Len(d) \in Nat /\ Len(d) >= 1
  BY StackIs
<1>2. Names(d) \in Seq(CallName) /\ "r" \in CallName
  BY NamesAre DEF CallName
<1>3. CASE Room(d)
  <2>1. CallsOf(d) = Append(Names(d), "r")
    BY <1>3 DEF CallsOf
  <2>2. /\ CallsOf(d) \in Seq(CallName) /\ CallsOf(d) # << >>
        /\ Last(CallsOf(d)) = "r" /\ Front(CallsOf(d)) = Names(d)
    BY <2>1, <1>2, Pushed
  <2>3. ~Done(d)
    BY <1>3 DEF Room, Done
  <2> QED BY <2>2, <2>3, <1>3 DEF Base
<1>4. CASE ~Room(d)
  <2>1. CallsOf(d) = Names(d)
    BY <1>4 DEF CallsOf
  <2>2. CASE Len(d) = 1
    <3>1. Done(d) /\ Names(d) = << >>
      BY <2>2, <1>4, NamesAre DEF Room, Done
    <3> QED BY <3>1, <2>1, <1>2
  <2>3. CASE Len(d) > 1
    <3>1. ~(Len(d) = 1)
      BY <2>3, <1>1
    <3>2. Names(d) # << >> /\ Last(Names(d)) = Last(d).f /\ Last(d).f \in {"d", "l"}
      BY <2>3, NamesAre
    <3>3. Last(d).f # "r"
      BY <3>2
    <3> QED BY <2>1, <3>1, <3>2, <3>3, <1>2, <1>4 DEF Done, Base
  <2>4. Len(d) = 1 \/ Len(d) > 1
    <3>1. \A x \in Nat : x >= 1 => x = 1 \/ x > 1
      OBVIOUS
    <3> QED BY <3>1, <1>1
  <2> QED BY <2>2, <2>3, <2>4
<1> QED BY <1>3, <1>4

\* A call that has an item left.
LEMMA RoomIs ==
  ASSUME NEW d, Stack(d), More(Last(d))
  PROVE  /\ CallsOf(d) # << >> /\ Base(CallsOf(d)) = Names(d)
         /\ IsKey(d) => Last(CallsOf(d)) = "d" /\ CallsOf(d) = Names(d)
         /\ ~IsKey(d) => Last(CallsOf(d)) \in {"r", "l"}
<1>1. ~Done(d)
  BY DEF Done
<1>2. /\ CallsOf(d) # << >> /\ Base(CallsOf(d)) = Names(d)
      /\ Last(CallsOf(d)) = IF Room(d) THEN "r" ELSE Last(d).f
  BY <1>1, CallsOfIs
<1>3. Len(d) = 1 => Room(d) /\ ~IsKey(d)
  BY NamesAre DEF Room, IsKey
<1>4. ASSUME Len(d) # 1, IsKey(d) PROVE Last(CallsOf(d)) = "d" /\ CallsOf(d) = Names(d)
  BY <1>2, <1>4 DEF IsKey, Room, CallsOf
<1>5. ASSUME Len(d) # 1, ~IsKey(d) PROVE Last(CallsOf(d)) \in {"r", "l"}
  <2>1. Len(d) > 1
    <3>1. \A x \in Nat : x >= 1 => x = 1 \/ x > 1
      OBVIOUS
    <3> QED BY <3>1, <1>5, StackIs
  <2>2. Last(d) \in EncFrame /\ Last(d).f \in {"d", "l"}
    BY <2>1, StackIs, NamesAre
  <2>3. Last(d).f = "d" => Last(d).part = "value"
    BY <2>2, <1>5 DEF IsKey, EncFrame
  <2> QED BY <1>2, <1>5, <2>2, <2>3 DEF Room
<1> QED BY <1>2, <1>3, <1>4, <1>5

\* The calls behind an item.
LEMMA BackCalls ==
  ASSUME NEW d, Stack(d), More(Last(d))
  PROVE  /\ CallsOf(Back(d)) = IF IsKey(d) THEN Append(Names(d), "r") ELSE Names(d)
         /\ AfterStr(CallsOf(d)) = CallsOf(Back(d))
<1> DEFINE e == Back(d)
<1>1. /\ Len(d) \in Nat /\ Len(d) >= 1 /\ Last(d) \in EncFrame /\ Last(d) = d[Len(d)]
      /\ \A i \in 1..Len(d) : d[i] \in EncFrame
  BY StackIs
<1>2. /\ Stack(e) /\ Len(e) = Len(d)
      /\ \A i \in 1..(Len(d) - 1) : e[i] = d[i]
      /\ e[Len(d)] = Through(Last(d)) /\ Last(e) = Through(Last(d))
  BY BackIs
<1> HIDE DEF e
<1>3. Through(Last(d)).f = Last(d).f /\ Through(Last(d)).v = Last(d).v
  BY <1>1, ThroughIs
<1>4. Names(e) = Names(d)
  <2>1. ASSUME NEW i \in 1..(Len(d) - 1) PROVE e[i + 1].f = d[i + 1].f
    <3>1. CASE i + 1 \in 1..(Len(d) - 1)
      BY <3>1, <1>2
    <3>2. CASE i + 1 = Len(d)
      BY <3>2, <1>1, <1>2, <1>3
    <3> QED BY <3>1, <3>2, <1>1
  <2> QED BY <2>1, <1>2 DEF Names
<1>5. Room(e) <=> IsKey(d)
  <2>1. CASE Len(d) = 1
    <3>1. Last(d).f = "root" /\ Last(d).v = <<value>> /\ Len(<<value>>) = 1
      BY <2>1, <1>1 DEF Stack
    <3>2. Last(d).k \in Nat /\ Last(d).k < 1
      BY <3>1, <1>1, ItemIs DEF More
    <3>3. Through(Last(d)) = [Last(d) EXCEPT !.k = @ + 1, !.part = "key"]
      BY <3>1 DEF Through
    <3>4. Through(Last(d)).k = 1
      BY <3>1, <3>2, <3>3, <1>1 DEF EncFrame
    <3>5. ~More(Through(Last(d)))
      BY <3>1, <3>4, <1>3 DEF More
    <3> QED BY <3>1, <3>5, <2>1, <1>2 DEF Room, IsKey
  <2>2. CASE Len(d) # 1
    <3>1. Through(Last(d)).part = "value" <=> IsKey(d)
      BY <1>1 DEF EncFrame, IsKey, Through
    <3> QED BY <3>1, <2>2, <1>2 DEF Room
  <2> QED BY <2>1, <2>2
<1>6. CallsOf(e) = IF IsKey(d) THEN Append(Names(d), "r") ELSE Names(d)
  BY <1>4, <1>5 DEF CallsOf
<1>7. AfterStr(CallsOf(d)) = CallsOf(e)
  <2>1. CASE IsKey(d)
    BY <2>1, <1>6, RoomIs DEF AfterStr
  <2>2. CASE ~IsKey(d)
    <3>1. Last(CallsOf(d)) # "d" /\ Base(CallsOf(d)) = Names(d)
      BY <2>2, RoomIs
    <3> QED BY <2>2, <3>1, <1>6 DEF AfterStr
  <2> QED BY <2>1, <2>2
<1> QED BY <1>6, <1>7 DEF e

\* The code of a string is read as this string.
LEMMA StringRead ==
  ASSUME NEW t \in Tree, t[1] = "s", NEW b \in Seq(Octet), NEW a \in Nat,
         a + Len(Code(t)) <= Len(b), \A i \in 1..Len(Code(t)) : b[a + i] = Code(t)[i]
  PROVE  \E n, l \in Nat : /\ StringAt(b, a, n, l) /\ a + n + 1 + l = a + Len(Code(t))
                           /\ StrVal(b, a, n, l) = t
<1> DEFINE s == t[2]
           D == Decimal[Len(s)]
           H == D \o <<":">>
<1>1. s \in Seq(Payload) /\ Len(s) \in 1..StrMaxSize /\ t = <<"s", s>>
  BY TreeIs
<1>2. /\ IntMaxSize \in Nat /\ StrMaxSize \in Nat /\ StrMaxSize <= IntMaxSize /\ StrMaxLen \in Nat
      /\ ":" \in Octet /\ Digit \subseteq Octet /\ Payload \subseteq Octet
  BY BencodeAssumption DEF Octet, Mark
<1>3. Len(s) \in 0..IntMaxSize
  BY <1>1, <1>2
<1>4. /\ D \in Seq(Digit) /\ atol(D) = Len(s) /\ Len(D) \in 1..IntMaxLen /\ Len(D) <= StrMaxLen
  BY <1>1, <1>3, DecimalIs, BencodeAssumption
<1> HIDE DEF D, s
<1>5. D \in Seq(Octet) /\ s \in Seq(Octet) /\ <<":">> \in Seq(Octet) /\ Len(<<":">>) = 1 /\ <<":">>[1] = ":"
  BY <1>1, <1>2, <1>4, SeqMonotonic
<1>6. /\ H \in Seq(Octet) /\ Len(H) = Len(D) + 1
      /\ \A i \in 1..Len(D) : H[i] = D[i]
      /\ H[Len(D) + 1] = ":"
  <2>1. /\ H \in Seq(Octet) /\ Len(H) = Len(D) + Len(<<":">>)
        /\ \A i \in 1..Len(D) : H[i] = D[i]
        /\ \A i \in 1..Len(<<":">>) : H[Len(D) + i] = <<":">>[i]
    BY <1>5, Joined
  <2>2. 1 \in 1..Len(<<":">>)
    BY <1>5
  <2> QED BY <2>1, <2>2, <1>5
<1> HIDE DEF H
<1>7. /\ Code(t) = H \o s
      /\ Len(Code(t)) = Len(H) + Len(s)
      /\ \A i \in 1..Len(H) : Code(t)[i] = H[i]
      /\ \A i \in 1..Len(s) : Code(t)[Len(H) + i] = s[i]
  <2>1. Code(t) = H \o s
    BY DEF Code, H, D, s
  <2>2. /\ Len(H \o s) = Len(H) + Len(s)
        /\ \A i \in 1..Len(H) : (H \o s)[i] = H[i]
        /\ \A i \in 1..Len(s) : (H \o s)[Len(H) + i] = s[i]
    <3>1. H \in Seq(Octet) /\ s \in Seq(Octet)
      BY <1>5, <1>6
    <3> QED BY <3>1, Joined
  <2> QED BY <2>1, <2>2
<1>8. PICK n \in Nat, l \in Nat : n = Len(D) /\ l = Len(s)
  BY <1>1, <1>2, <1>4, BencodeAssumption
<1>9. Len(H) = n + 1 /\ Len(Code(t)) = n + 1 + l
  BY <1>6, <1>7, <1>8
<1>10. a + n + 1 + l = a + Len(Code(t)) /\ a + n + 1 + l <= Len(b)
  BY <1>8, <1>9
<1>11. ASSUME NEW i \in 1..n PROVE b[a + i] = D[i]
  <2>1. i \in 1..Len(Code(t)) /\ i \in 1..Len(H) /\ i \in 1..Len(D)
    BY <1>8, <1>9
  <2> QED BY <2>1, <1>6, <1>7
<1>12. b[a + n + 1] = ":"
  <2>1. n + 1 \in 1..Len(Code(t)) /\ n + 1 \in 1..Len(H) /\ a + (n + 1) = a + n + 1
    BY <1>8, <1>9
  <2>2. b[a + (n + 1)] = ":"
    BY <2>1, <1>6, <1>7, <1>8
  <2> QED BY <2>1, <2>2
<1>13. ASSUME NEW i \in 1..l PROVE b[a + n + 1 + i] = s[i]
  <2>1. n + 1 + i \in 1..Len(Code(t)) /\ a + (n + 1 + i) = a + n + 1 + i
    BY <1>8, <1>9
  <2>2. b[a + (n + 1 + i)] = Code(t)[n + 1 + i]
    BY <2>1
  <2>3. Code(t)[n + 1 + i] = s[i]
    BY <1>7, <1>8, <1>9
  <2> QED BY <2>1, <2>2, <2>3
<1>14. SubSeq(b, a + 1, a + n) = D
  <2>1. a + n <= Len(b)
    BY <1>10
  <2> QED BY <2>1, <1>5, <1>8, <1>11, SliceEq
<1>15. SubSeq(b, a + n + 2, a + n + 1 + l) = s
  <2>1. PICK x \in Nat : x = a + n + 1
    BY <1>8
  <2>2. x + l <= Len(b) /\ \A i \in 1..l : b[x + i] = s[i]
    BY <2>1, <1>10, <1>13
  <2>3. SubSeq(b, x + 1, x + l) = s
    BY <2>2, <1>5, <1>8, SliceEq
  <2>4. x + 1 = a + n + 2 /\ x + l = a + n + 1 + l
    BY <2>1
  <2> QED BY <2>3, <2>4
<1>16. StringAt(b, a, n, l)
  <2>1. n \in Nat \ {0} /\ n <= StrMaxLen /\ l \in 1..StrMaxSize
    BY <1>1, <1>4, <1>8
  <2>2. \A k \in 1..n : b[a + k] \in Digit
    BY <1>4, <1>8, <1>11, ElementOfSeq
  <2> QED BY <2>1, <2>2, <1>4, <1>8, <1>10, <1>12, <1>14 DEF StringAt
<1>17. StrVal(b, a, n, l) = t
  BY <1>1, <1>15 DEF StrVal
<1> QED BY <1>10, <1>16, <1>17

\* The code of a number is read as this number.
LEMMA NumberRead ==
  ASSUME NEW t \in Tree, t[1] = "i", NEW b \in Seq(Octet), NEW a \in Nat,
         a + Len(Code(t)) <= Len(b), \A i \in 1..Len(Code(t)) : b[a + i] = Code(t)[i]
  PROVE  \E m, n \in Nat : /\ NumberAt(b, a, m, n) /\ a + m + n + 2 = a + Len(Code(t))
                           /\ IntVal(b, a, m, n) = t
<1> DEFINE v == t[2]
           w == IF v < 0 THEN -v ELSE v
           D == Decimal[w]
           P == Printed(v)
           H == <<"i">> \o P
<1>1. /\ t = <<"i", v>> /\ v \in Int /\ w \in 0..IntMaxSize
      /\ IntMaxSize \in Nat
      /\ v = IF v < 0 THEN -w ELSE w
  <2>1. v \in (-IntMaxSize)..IntMaxSize /\ IntMaxSize \in Nat /\ t = <<"i", v>>
    BY TreeIs, BencodeAssumption
  <2> HIDE DEF v
  <2> QED BY <2>1
<1> HIDE DEF w, v
<1>2. /\ D \in Seq(Digit) /\ atol(D) = w /\ Len(D) \in 1..IntMaxLen /\ IntMaxLen \in Nat
  BY <1>1, DecimalIs, BencodeAssumption
<1>3. P = IF v < 0 THEN <<"-">> \o D ELSE D
  BY DEF Printed, w
<1> HIDE DEF D, P
<1>4. "i" \in Octet /\ "e" \in Octet /\ "-" \in Octet /\ Digit \subseteq Octet
  BY DEF Octet, Mark
<1>5. /\ D \in Seq(Octet) /\ <<"i">> \in Seq(Octet) /\ Len(<<"i">>) = 1 /\ <<"i">>[1] = "i"
      /\ <<"e">> \in Seq(Octet) /\ Len(<<"e">>) = 1 /\ <<"e">>[1] = "e"
      /\ <<"-">> \in Seq(Octet) /\ Len(<<"-">>) = 1 /\ <<"-">>[1] = "-"
      /\ 1 \in 1..1
  BY <1>2, <1>4, SeqMonotonic
<1>6. PICK n \in Nat : n = Len(D)
  BY <1>2
<1>7. PICK m \in Nat : m = IF v < 0 THEN 1 ELSE 0
  OBVIOUS
<1>8. /\ P \in Seq(Octet) /\ Len(P) = m + n
      /\ m = 1 => P[1] = "-"
      /\ \A i \in 1..n : P[m + i] = D[i]
  <2>1. CASE v < 0
    <3>1. /\ <<"-">> \o D \in Seq(Octet) /\ Len(<<"-">> \o D) = 1 + n
          /\ (<<"-">> \o D)[1] = "-"
          /\ \A i \in 1..n : (<<"-">> \o D)[1 + i] = D[i]
      <4>1. /\ <<"-">> \o D \in Seq(Octet) /\ Len(<<"-">> \o D) = Len(<<"-">>) + Len(D)
            /\ \A i \in 1..Len(<<"-">>) : (<<"-">> \o D)[i] = <<"-">>[i]
            /\ \A i \in 1..Len(D) : (<<"-">> \o D)[Len(<<"-">>) + i] = D[i]
        BY <1>5, Joined
      <4> QED BY <4>1, <1>5, <1>6
    <3> QED BY <3>1, <2>1, <1>3, <1>7
  <2>2. CASE ~(v < 0)
    <3>1. P = D /\ m = 0
      BY <2>2, <1>3, <1>7
    <3>2. \A i \in 1..n : 0 + i = i
      OBVIOUS
    <3> QED BY <3>1, <3>2, <1>5, <1>6
  <2> QED BY <2>1, <2>2
<1>9. /\ H \in Seq(Octet) /\ Len(H) = 1 + (m + n) /\ H[1] = "i"
      /\ \A i \in 1..(m + n) : H[1 + i] = P[i]
  <2>1. /\ H \in Seq(Octet) /\ Len(H) = Len(<<"i">>) + Len(P)
        /\ \A i \in 1..Len(<<"i">>) : H[i] = <<"i">>[i]
        /\ \A i \in 1..Len(P) : H[Len(<<"i">>) + i] = P[i]
    <3>1. <<"i">> \in Seq(Octet) /\ P \in Seq(Octet)
      BY <1>5, <1>8
    <3> QED BY <3>1, Joined
  <2> QED BY <2>1, <1>5, <1>8
<1>10. Code(t) = H \o <<"e">>
  <2>1. t[1] # "s"
    OBVIOUS
  <2> QED BY <2>1 DEF Code, H, P, v
<1> HIDE DEF H
<1>11. PICK x \in Nat : x = m + n
  OBVIOUS
<1>12. /\ Len(Code(t)) = x + 2
       /\ \A i \in 1..(x + 1) : b[a + i] = H[i]
       /\ b[a + (x + 2)] = "e"
  <2>1. /\ Len(H \o <<"e">>) = Len(H) + Len(<<"e">>)
        /\ \A i \in 1..Len(H) : (H \o <<"e">>)[i] = H[i]
        /\ \A i \in 1..Len(<<"e">>) : (H \o <<"e">>)[Len(H) + i] = <<"e">>[i]
    BY <1>5, <1>9, Joined
  <2>2. Len(H) = x + 1 /\ x + 1 + 1 = x + 2
    BY <1>9, <1>11
  <2>3. Len(Code(t)) = x + 2 /\ Code(t)[x + 2] = "e"
    BY <2>1, <2>2, <1>5, <1>10
  <2>4. \A i \in 1..(x + 1) : Code(t)[i] = H[i] /\ i \in 1..Len(Code(t))
    BY <2>1, <2>2, <2>3, <1>10
  <2>5. x + 2 \in 1..Len(Code(t))
    BY <2>3
  <2> QED BY <2>3, <2>4, <2>5
<1>13. a + m + n + 2 = a + Len(Code(t)) /\ a + m + n + 2 <= Len(b)
  BY <1>11, <1>12
<1>14. b[a + 1] = "i"
  <2>1. 1 \in 1..(x + 1)
    OBVIOUS
  <2> QED BY <2>1, <1>9, <1>12
<1>15. ASSUME NEW i \in 1..(m + n) PROVE b[a + 1 + i] = P[i]
  <2>1. 1 + i \in 1..(x + 1) /\ a + (1 + i) = a + 1 + i
    BY <1>11
  <2> QED BY <2>1, <1>9, <1>12
<1>16. m = 1 => b[a + 2] = "-"
  <2>1. SUFFICES ASSUME m = 1 PROVE b[a + 2] = "-"
    OBVIOUS
  <2>2. 1 \in 1..(m + n) /\ a + 1 + 1 = a + 2
    BY <2>1
  <2>3. b[a + 1 + 1] = P[1]
    BY <2>2, <1>15
  <2> QED BY <2>1, <2>2, <2>3, <1>8
<1>17. ASSUME NEW k \in 1..n PROVE b[a + 1 + m + k] = D[k]
  <2>1. m + k \in 1..(m + n) /\ a + 1 + (m + k) = a + 1 + m + k
    OBVIOUS
  <2>2. b[a + 1 + (m + k)] = P[m + k]
    BY <2>1, <1>15
  <2> QED BY <2>1, <2>2, <1>8
<1>18. SubSeq(b, a + m + 2, a + m + n + 1) = D
  <2>1. PICK y \in Nat : y = a + 1 + m
    OBVIOUS
  <2>2. y + n <= Len(b)
    <3>1. y + n <= a + m + n + 2
      BY <2>1
    <3>2. Len(b) \in Nat
      BY LenProperties
    <3> QED BY <3>1, <3>2, <1>13
  <2>3. SubSeq(b, y + 1, y + n) = D
    BY <2>1, <2>2, <1>5, <1>6, <1>17, SliceEq
  <2>4. y + 1 = a + m + 2 /\ y + n = a + m + n + 1
    BY <2>1
  <2> QED BY <2>3, <2>4
<1>19. NumberAt(b, a, m, n)
  <2>1. m \in 0..1
    BY <1>7
  <2>2. n \in Nat \ {0} /\ n <= IntMaxLen /\ w <= IntMaxSize
    BY <1>1, <1>2, <1>6
  <2>3. \A k \in 1..n : b[a + 1 + m + k] \in Digit
    BY <1>2, <1>6, <1>17, ElementOfSeq
  <2>4. a + (x + 2) = a + m + n + 2
    BY <1>11
  <2> QED BY <2>1, <2>2, <2>3, <2>4, <1>2, <1>12, <1>13, <1>14, <1>16, <1>18 DEF NumberAt
<1>20. IntVal(b, a, m, n) = t
  <2>1. (IF m = 1 THEN -w ELSE w) = v
    BY <1>1, <1>7
  <2> QED BY <2>1, <1>1, <1>2, <1>18 DEF IntVal
<1> QED BY <1>13, <1>19, <1>20

\* There is one way to read a string or a number.
LEMMA StringOnce ==
  ASSUME NEW b, NEW a \in Nat, NEW n \in Nat, NEW l \in Nat, NEW k \in Nat, NEW j \in Nat,
         StringAt(b, a, n, l), StringAt(b, a, k, j)
  PROVE  n = k /\ l = j
<1>1. ASSUME NEW x \in Nat, NEW y \in Nat, NEW u, NEW v, StringAt(b, a, x, u), StringAt(b, a, y, v), x < y
      PROVE  FALSE
  <2>1. x + 1 \in 1..y /\ a + (x + 1) = a + x + 1
    BY <1>1
  <2>2. b[a + x + 1] = ":" /\ b[a + (x + 1)] \in Digit
    BY <2>1, <1>1 DEF StringAt
  <2> QED BY <2>1, <2>2, DigitIs DEF Mark
<1>2. n = k
  BY <1>1
<1> QED BY <1>2 DEF StringAt

\* There is one way to read a number.
LEMMA NumberOnce ==
  ASSUME NEW b, NEW a \in Nat, NEW m \in Nat, NEW n \in Nat, NEW k \in Nat, NEW j \in Nat,
         NumberAt(b, a, m, n), NumberAt(b, a, k, j)
  PROVE  m = k /\ n = j
<1>1. ASSUME NEW x \in Nat, NEW y \in Nat, NumberAt(b, a, 1, x), NumberAt(b, a, 0, y)
      PROVE  FALSE
  <2>1. 1 \in 1..y /\ a + 1 + 0 + 1 = a + 2
    BY <1>1 DEF NumberAt
  <2>2. b[a + 2] = "-" /\ b[a + 1 + 0 + 1] \in Digit
    BY <2>1, <1>1 DEF NumberAt
  <2> QED BY <2>1, <2>2, DigitIs DEF Mark
<1>2. m \in 0..1 /\ k \in 0..1
  BY DEF NumberAt
<1>3. m = k
  BY <1>1, <1>2
<1>4. ASSUME NEW x \in Nat, NEW y \in Nat, NumberAt(b, a, m, x), NumberAt(b, a, m, y), x < y
      PROVE  FALSE
  <2>1. x + 1 \in 1..y /\ a + 1 + m + (x + 1) = a + m + x + 2
    BY <1>4
  <2>2. b[a + m + x + 2] = "e" /\ b[a + 1 + m + (x + 1)] \in Digit
    BY <2>1, <1>4 DEF NumberAt
  <2> QED BY <2>1, <2>2, DigitIs DEF Mark
<1>5. n = j
  BY <1>3, <1>4
<1> QED BY <1>3, <1>5

\* The first byte says what comes next.
LEMMA FirstByte ==
  ASSUME NEW b, NEW h \in Head_, NEW g
  PROVE  /\ Begins(b, h, g) => b[h.at + 1] \in {"d", "l"}
         /\ Ends(b, h, g) => b[h.at + 1] = "e"
         /\ IsString(b, h, g) => b[h.at + 1] \in Digit
         /\ IsNumber(b, h, g) => b[h.at + 1] = "i"
         /\ \A c \in Digit : c \notin {"d", "l"} /\ c # "e" /\ c # "i" /\ c # "-" /\ c # ":"
<1>1. ASSUME IsString(b, h, g) PROVE b[h.at + 1] \in Digit
  <2>1. PICK n, l \in Nat : StringAt(b, h.at, n, l)
    BY <1>1 DEF IsString
  <2>2. 1 \in 1..n
    BY <2>1 DEF StringAt
  <2> QED BY <2>1, <2>2 DEF StringAt
<1>2. \A c \in Digit : c \notin {"d", "l"} /\ c # "e" /\ c # "i" /\ c # "-" /\ c # ":"
  BY DigitIs DEF Mark
<1>3. IsNumber(b, h, g) => b[h.at + 1] = "i"
  BY DEF IsNumber, NumberAt
<1> QED BY <1>1, <1>2, <1>3 DEF Begins, Ends

\* There is one way to read a packet.
LEMMA TokenOnce ==
  ASSUME NEW b, NEW h \in Head_, NEW g \in Head_, NEW f \in Head_,
         Token(b, h, g), Token(b, h, f)
  PROVE  g = f
<1>1. SUFFICES g.at = f.at /\ g.calls = f.calls
  BY DEF Head_
<1>2. h.at \in Nat
  BY DEF Head_
<1>3. CASE Begins(b, h, g)
  <2>1. Begins(b, h, f)
    BY <1>3, FirstByte DEF Token
  <2> QED BY <1>3, <2>1 DEF Begins
<1>4. CASE Ends(b, h, g)
  <2>1. Ends(b, h, f)
    BY <1>4, FirstByte DEF Token
  <2> QED BY <1>4, <2>1 DEF Ends
<1>5. CASE IsString(b, h, g)
  <2>1. IsString(b, h, f)
    BY <1>5, FirstByte DEF Token
  <2>2. PICK n, l \in Nat : /\ StringAt(b, h.at, n, l) /\ g.at = h.at + n + 1 + l
                            /\ g.calls = AfterStr(h.calls)
    BY <1>5 DEF IsString
  <2>3. PICK k, j \in Nat : /\ StringAt(b, h.at, k, j) /\ f.at = h.at + k + 1 + j
                            /\ f.calls = AfterStr(h.calls)
    BY <2>1 DEF IsString
  <2>4. n = k /\ l = j
    BY <1>2, <2>2, <2>3, StringOnce
  <2> QED BY <2>2, <2>3, <2>4
<1>6. CASE IsNumber(b, h, g)
  <2>1. IsNumber(b, h, f)
    BY <1>6, FirstByte DEF Token
  <2>2. PICK m, n \in Nat : NumberAt(b, h.at, m, n) /\ g.at = h.at + m + n + 2
    BY <1>6 DEF IsNumber
  <2>3. PICK k, j \in Nat : NumberAt(b, h.at, k, j) /\ f.at = h.at + k + j + 2
    BY <2>1 DEF IsNumber
  <2>4. m = k /\ n = j
    BY <1>2, <2>2, <2>3, NumberOnce
  <2>5. g.calls = Base(h.calls) /\ f.calls = Base(h.calls)
    BY <1>6, <2>1 DEF IsNumber
  <2> QED BY <2>2, <2>3, <2>4, <2>5
<1> QED BY <1>3, <1>4, <1>5, <1>6 DEF Token

\* ben_validate at the beginning of what ben_enc_rec writes at m.
HeadAt(m) == [at |-> Place(m), calls |-> CallsOf(m.doing)]

\* The place is one where ben_validate can be.
LEMMA HeadAtIs ==
  ASSUME NEW m, MarkOK(m)
  PROVE  /\ HeadAt(m) \in Head_ /\ HeadAt(m).at = Place(m) /\ HeadAt(m).calls = CallsOf(m.doing)
         /\ Place(m) \in Nat /\ CallsOf(m.doing) \in Seq(CallName)
<1>1. Place(m) \in Nat /\ Stack(m.doing)
  BY DEF MarkOK
<1>2. CallsOf(m.doing) \in Seq(CallName)
  BY <1>1, CallsOfIs
<1> QED BY <1>1, <1>2 DEF HeadAt, Head_

\* The calls of ben_validate in front of an item that is not a key, and behind it.
LEMMA BehindValue ==
  ASSUME NEW d, Stack(d), More(Last(d)), Item(Last(d))[1] # "s"
  PROVE  /\ ~IsKey(d)
         /\ Last(CallsOf(d)) \in {"r", "l"} /\ Base(CallsOf(d)) = Names(d)
         /\ CallsOf(Back(d)) = Names(d)
<1>1. Last(d) \in EncFrame
  BY StackIs
<1>2. ~IsKey(d)
  <2>1. SUFFICES ASSUME IsKey(d) PROVE FALSE
    OBVIOUS
  <2>2. IsStr(Item(Last(d)))
    BY <1>1, <2>1, ItemIs DEF IsKey
  <2> QED BY <2>2 DEF IsStr
<1> QED BY <1>2, RoomIs, BackCalls

\* A list or a dictionary is open.
LEMMA PushCalls ==
  ASSUME NEW d, Stack(d), More(Last(d)), Item(Last(d))[1] \in {"d", "l"}
  PROVE  CallsOf(Append(d, Frame(Item(Last(d))))) = Append(Names(d), Item(Last(d))[1])
<1> DEFINE n == Item(Last(d))
           e == Append(d, Frame(n))
<1>1. Stack(e)
  BY PushIs
<1>2. /\ Len(d) \in Nat /\ Len(d) >= 1 /\ d \in Seq(EncFrame) /\ Last(d) \in EncFrame
  BY StackIs
<1>3. n \in Tree /\ Frame(n) \in EncFrame /\ Frame(n).f = n[1] /\ Frame(n).part = "key"
  <2>1. n \in Tree
    BY <1>2, ItemIs
  <2> QED BY <2>1, FrameIs DEF Frame
<1> HIDE DEF n
<1>4. /\ e \in Seq(EncFrame) /\ Len(e) = Len(d) + 1
      /\ \A i \in 1..Len(d) : e[i] = d[i]
      /\ e[Len(d) + 1] = Frame(n) /\ Last(e) = Frame(n)
  BY <1>2, <1>3, Pushed
<1> HIDE DEF e
<1>5. ~Room(e)
  <2>1. Len(e) # 1
    BY <1>2, <1>4
  <2> QED BY <2>1, <1>3, <1>4 DEF Room
<1>6. CallsOf(e) = Names(e)
  BY <1>5 DEF CallsOf
<1>7. n[1] \in CallName
  BY DEF CallName, n
<1>8. /\ Names(d) \in Seq(CallName) /\ Len(Names(d)) = Len(d) - 1
      /\ \A i \in 1..(Len(d) - 1) : Names(d)[i] = d[i + 1].f
      /\ Names(e) \in Seq(CallName) /\ Len(Names(e)) = Len(e) - 1
      /\ \A i \in 1..(Len(e) - 1) : Names(e)[i] = e[i + 1].f
  BY <1>1, NamesAre
<1> DEFINE N == Names(d)
           A == Append(N, n[1])
<1>9. /\ A \in Seq(CallName) /\ Len(A) = Len(N) + 1
      /\ \A i \in 1..Len(N) : A[i] = N[i]
      /\ A[Len(N) + 1] = n[1]
  BY <1>7, <1>8, Pushed
<1> HIDE DEF A
<1>10. Len(A) = Len(d) /\ Len(Names(e)) = Len(d)
  BY <1>2, <1>4, <1>8, <1>9
<1>11. ASSUME NEW i \in 1..Len(d) PROVE A[i] = Names(e)[i]
  <2>1. Names(e)[i] = e[i + 1].f
    BY <1>8, <1>10
  <2>2. CASE i = Len(d)
    <3>1. A[i] = n[1]
      BY <2>2, <1>2, <1>8, <1>9
    <3> QED BY <3>1, <2>1, <2>2, <1>3, <1>4
  <2>3. CASE i # Len(d)
    <3>1. i \in 1..(Len(d) - 1) /\ i + 1 \in 1..Len(d)
      BY <2>3, <1>2
    <3>2. A[i] = d[i + 1].f
      BY <3>1, <1>8, <1>9
    <3> QED BY <3>1, <3>2, <2>1, <1>4
  <2> QED BY <2>2, <2>3
<1>12. A = Names(e)
  BY <1>8, <1>9, <1>10, <1>11, SeqEqual
<1> QED BY <1>6, <1>12 DEF A, e, n

\* A list or a dictionary is closed.
LEMMA PopCalls ==
  ASSUME NEW d, Stack(d), ~More(Last(d)), Len(d) > 1
  PROVE  /\ CallsOf(d) # << >> /\ Last(CallsOf(d)) \in {"d", "l"}
         /\ CallsOf(Back(Front(d))) = Front(CallsOf(d))
<1> DEFINE e == Front(d)
<1>1. /\ Len(d) \in Nat /\ Last(d) \in EncFrame
      /\ Len(e) = Len(d) - 1 /\ \A i \in 1..(Len(d) - 1) : e[i] = d[i]
  BY StackIs
<1>2. /\ Stack(e) /\ More(Last(e)) /\ Item(Last(e)) = <<Last(d).f, Last(d).v>>
  BY FrontIs
<1> HIDE DEF e
<1>3. Names(d) # << >> /\ Last(Names(d)) = Last(d).f /\ Last(d).f \in {"d", "l"}
  BY NamesAre
<1>4. ~Room(d)
  <2>1. Len(d) # 1
    BY <1>1
  <2>2. Last(d).part # "value"
    BY <1>1 DEF EncFrame, More
  <2> QED BY <2>1, <2>2 DEF Room
<1>5. CallsOf(d) = Names(d)
  BY <1>4 DEF CallsOf
<1>6. CallsOf(Back(e)) = Names(e)
  <2>1. Item(Last(e))[1] # "s"
    BY <1>2, <1>3
  <2> QED BY <2>1, <1>2, BehindValue
<1>7. Names(e) = Front(Names(d))
  <2>1. /\ Names(d) \in Seq(CallName) /\ Len(Names(d)) = Len(d) - 1
        /\ \A i \in 1..(Len(d) - 1) : Names(d)[i] = d[i + 1].f
    BY NamesAre
  <2>2. /\ Names(e) \in Seq(CallName) /\ Len(Names(e)) = Len(e) - 1
        /\ \A i \in 1..(Len(e) - 1) : Names(e)[i] = e[i + 1].f
    BY <1>2, NamesAre
  <2> DEFINE N == Names(d)
             F == Front(N)
             E == Names(e)
  <2>3. /\ F \in Seq(CallName) /\ Len(F) = Len(N) - 1
        /\ \A i \in 1..(Len(N) - 1) : F[i] = N[i]
    BY <2>1, <1>3, Popped
  <2> HIDE DEF F, N, E
  <2>4. Len(F) = Len(E) /\ Len(F) = Len(d) - 1 - 1
    BY <2>1, <2>2, <2>3, <1>1 DEF N, E
  <2>5. ASSUME NEW i \in 1..Len(F) PROVE F[i] = E[i]
    <3>1. i \in 1..(Len(N) - 1) /\ i \in 1..(Len(d) - 1) /\ i + 1 \in 1..(Len(d) - 1) /\ i \in 1..(Len(e) - 1)
      BY <2>1, <2>4, <1>1 DEF N
    <3> QED BY <3>1, <2>1, <2>2, <2>3, <1>1 DEF N, E
  <2>6. E = F
    <3>1. E \in Seq(CallName)
      BY <2>2 DEF E
    <3> QED BY <3>1, <2>3, <2>4, <2>5, SeqEqual
  <2> QED BY <2>6 DEF E, F, N
<1> QED BY <1>3, <1>5, <1>6, <1>7 DEF e

\* A string, a number or an end that ben_enc_rec writes is one for ben_validate.
LEMMA MarkToken ==
  ASSUME NEW m, NEW g, MarkOK(m), MarkStep(m, g), NEW b \in Seq(Octet), Written(b, m)
  PROVE  Token(b, HeadAt(m), HeadAt(g)) /\ MarkOK(g)
<1> DEFINE d == m.doing
           e == g.doing
           a == Place(m)
           C == StepCode(d)
           n == Item(Last(d))
           h == HeadAt(m)
           f == HeadAt(g)
<1>1. /\ MarkOK(g) /\ C \in Seq(Octet) /\ Len(C) \in Nat \ {0}
      /\ Place(g) = a + Len(C)
  BY StepIs
<1>2. /\ h \in Head_ /\ f \in Head_
      /\ h.at = a /\ f.at = a + Len(C) /\ h.calls = CallsOf(d) /\ f.calls = CallsOf(e)
      /\ a \in Nat
  <2>1. h \in Head_ /\ h.at = a /\ h.calls = CallsOf(d) /\ a \in Nat
    BY HeadAtIs
  <2>2. f \in Head_ /\ f.at = Place(g) /\ f.calls = CallsOf(e)
    BY <1>1, HeadAtIs
  <2> QED BY <2>1, <2>2, <1>1
<1>3. /\ Stack(d)
      /\ LeafStep(d, e) \/ BeginStep(d, e) \/ EndStep(d, e)
      /\ a + Len(C) <= Len(b) /\ \A i \in 1..Len(C) : b[a + i] = C[i]
  BY DEF MarkOK, MarkStep, Written
<1>4. Last(d) \in EncFrame
  BY <1>3, StackIs
<1>5. SUFFICES Token(b, h, f)
  BY <1>1
<1> HIDE DEF d, e, a, C, h, f
<1>6. CASE LeafStep(d, e)
  <2>1. More(Last(d)) /\ n \in Tree /\ n[1] \in {"s", "i"} /\ e = Back(d)
    BY <1>4, <1>6, ItemIs DEF LeafStep
  <2>2. C = Code(n)
    BY <2>1 DEF C, StepCode
  <2>3. h.calls # << >>
    BY <1>2, <1>3, <2>1, RoomIs
  <2> HIDE DEF n
  <2>4. CASE n[1] = "s"
    <3>1. PICK k, l \in Nat : StringAt(b, a, k, l) /\ a + k + 1 + l = a + Len(Code(n))
      BY <1>2, <1>3, <2>1, <2>2, <2>4, StringRead
    <3>2. f.calls = AfterStr(h.calls)
      BY <1>2, <1>3, <2>1, BackCalls
    <3>3. IsString(b, h, f)
      BY <3>1, <3>2, <1>2, <2>2 DEF IsString
    <3> QED BY <3>3, <2>3 DEF Token
  <2>5. CASE n[1] = "i"
    <3>1. PICK k, l \in Nat : NumberAt(b, a, k, l) /\ a + k + l + 2 = a + Len(Code(n))
      BY <1>2, <1>3, <2>1, <2>2, <2>5, NumberRead
    <3>2. Last(h.calls) \in {"r", "l"} /\ f.calls = Base(h.calls)
      <4>1. n[1] # "s"
        BY <2>5
      <4> QED BY <4>1, <1>2, <1>3, <2>1, BehindValue DEF n
    <3>3. IsNumber(b, h, f)
      BY <3>1, <3>2, <1>2, <2>2 DEF IsNumber
    <3> QED BY <3>3, <2>3 DEF Token
  <2> QED BY <2>1, <2>4, <2>5
<1>7. CASE BeginStep(d, e)
  <2>1. More(Last(d)) /\ n[1] \in {"d", "l"} /\ e = Append(d, Frame(n))
    BY <1>7 DEF BeginStep
  <2>2. C = <<n[1]>>
    BY <2>1 DEF C, StepCode
  <2>3. Len(C) = 1 /\ C[1] = n[1] /\ 1 \in 1..1
    BY <2>2
  <2>4. n[1] # "s"
    BY <2>1
  <2>5. Last(h.calls) \in {"r", "l"} /\ Base(h.calls) = Names(d) /\ h.calls # << >>
    BY <1>2, <1>3, <2>1, <2>4, BehindValue, RoomIs
  <2>6. f.calls = Append(Names(d), n[1])
    BY <1>2, <1>3, <2>1, PushCalls
  <2>7. b[a + 1] = n[1] /\ f.at = a + 1 /\ f.at <= Len(b)
    BY <2>3, <1>2, <1>3
  <2> HIDE DEF n
  <2>8. Begins(b, h, f)
    BY <2>1, <2>5, <2>6, <2>7, <1>2 DEF Begins
  <2> QED BY <2>5, <2>8 DEF Token
<1>8. CASE EndStep(d, e)
  <2>1. ~More(Last(d)) /\ Len(d) > 1 /\ e = Back(Front(d))
    BY <1>8 DEF EndStep
  <2>2. C = <<"e">>
    BY <2>1 DEF C, StepCode
  <2>3. Len(C) = 1 /\ C[1] = "e" /\ 1 \in 1..1
    BY <2>2
  <2>4. h.calls # << >> /\ Last(h.calls) \in {"d", "l"} /\ f.calls = Front(h.calls)
    BY <1>2, <1>3, <2>1, PopCalls
  <2>5. b[a + 1] = "e" /\ f.at = a + 1 /\ f.at <= Len(b)
    BY <2>3, <1>2, <1>3
  <2>6. Ends(b, h, f)
    BY <2>4, <2>5, <1>2 DEF Ends
  <2> QED BY <2>4, <2>6 DEF Token
<1> QED BY <1>3, <1>6, <1>7, <1>8

\* ben_validate has read a part of what ben_enc has written, and g is what comes next.
Receiving == value # << >> /\ result = "running" /\ size = Len(sent) /\ Extends(raw, sent)
Expects(g) == /\ g \in Head_ /\ Token(sent, Hd, g)
              /\ g.calls # << >> => g.at < size
Accepted == result' # "broken" /\ Extends(raw', sent)

\* The next byte is the one that has been written.
LEMMA ByteFollows ==
  ASSUME PacketTypeOK, Receiving, Len(raw) < size, NEW c \in NextByte, Read(c)
  PROVE  /\ c = sent[Len(raw) + 1] /\ c \in Octet /\ Extends(raw', sent)
         /\ Len(raw') = Len(raw) + 1 /\ Len(raw) \in Nat
<1>1. c = sent[Len(raw) + 1]
  BY DEF NextByte, Receiving
<1>2. raw \in Seq(Octet) /\ sent \in Seq(Octet)
  BY DEF PacketTypeOK
<1>3. Len(raw) \in Nat /\ Len(sent) \in Nat /\ size = Len(sent)
  BY <1>2, LenProperties DEF Receiving
<1>4. Len(raw) + 1 \in 1..Len(sent)
  BY <1>3
<1>5. c \in Octet
  BY <1>1, <1>2, <1>4, ElementOfSeq
<1>6. /\ Len(raw') = Len(raw) + 1
      /\ \A i \in 1..Len(raw) : raw'[i] = raw[i]
      /\ raw'[Len(raw) + 1] = c
  BY <1>5, ReadsByte
<1>7. ASSUME NEW i \in 1..Len(raw') PROVE sent[i] = raw'[i]
  <2>1. CASE i \in 1..Len(raw)
    BY <2>1, <1>6 DEF Receiving, Extends
  <2>2. CASE i = Len(raw) + 1
    BY <2>2, <1>1, <1>6
  <2> QED BY <2>1, <2>2, <1>3, <1>6
<1>8. Extends(raw', sent)
  BY <1>3, <1>4, <1>6, <1>7 DEF Extends
<1> QED BY <1>1, <1>3, <1>5, <1>6, <1>8

\* A function returns.
LEMMA ReturnAccepted ==
  ASSUME result = "running", Return, Front(calls) # << >> => Len(raw') < size
  PROVE  result' # "broken"
BY DEF Return, Enter, Call

\* ben_validate_r at a value.
LEMMA ValueAccepted ==
  ASSUME PacketTypeOK, Receiving, AtHead, Hd \in Head_, Len(raw) < size, NEW g, Expects(g),
         NEW c \in NextByte, Read(c), Last(calls) = "r" \/ (Last(calls) = "l" /\ c # "e"),
         ben_validate_r(Base(calls), c)
  PROVE  Accepted
<1>1. /\ c = sent[Len(raw) + 1] /\ Extends(raw', sent)
      /\ Len(raw') = Len(raw) + 1 /\ Len(raw) \in Nat
  BY ByteFollows
<1>2. Hd.at = Len(raw) /\ Hd.calls = calls /\ c = sent[Hd.at + 1] /\ Hd.at \in Nat
      /\ calls \in Seq(CallName) /\ calls # << >>
  BY <1>1 DEF AtHead, Expects, Token, PacketTypeOK
<1>3. Token(sent, Hd, g) /\ g \in Head_ /\ size = Len(sent) /\ Len(sent) \in Nat
  BY LenProperties DEF Expects, Receiving, PacketTypeOK
<1>4. ~Ends(sent, Hd, g)
  BY <1>2 DEF Ends
<1>5. CASE Begins(sent, Hd, g)
  <2>1. c \in {"d", "l"} /\ g.at = Len(raw) + 1 /\ g.calls = Append(Base(calls), c)
    BY <1>2, <1>5 DEF Begins
  <2>2. c \notin Digit
    BY <2>1, <1>3, FirstByte
  <2>3. g.calls # << >>
    <3>1. c \in CallName
      BY <2>1 DEF CallName
    <3> QED BY <3>1, <2>1, <1>2, CallsAre
  <2>4. Len(raw') < size
    BY <2>1, <2>3, <1>1 DEF Expects
  <2>5. Enter(Append(Base(calls), c))
    BY <2>1, <2>2 DEF ben_validate_r
  <2> QED BY <2>4, <2>5, <1>1 DEF Enter, Call, Accepted, Receiving
<1>6. CASE IsString(sent, Hd, g)
  <2>1. c \in Digit
    BY <1>2, <1>3, <1>6, FirstByte
  <2> QED BY <2>1, <1>1 DEF ben_validate_r, Call, Accepted, Receiving
<1>7. CASE IsNumber(sent, Hd, g)
  <2>1. c = "i"
    BY <1>2, <1>3, <1>7, FirstByte
  <2>2. c \notin Digit
    BY <2>1, <1>3, FirstByte
  <2>3. PICK m, n \in Nat : NumberAt(sent, Hd.at, m, n)
    BY <1>7 DEF IsNumber
  <2>4. Hd.at + m + n + 2 <= Len(sent)
    BY <2>3 DEF NumberAt
  <2>5. Len(raw') < size
    BY <2>4, <1>1, <1>2, <1>3
  <2>6. Enter(Append(Base(calls), c))
    BY <2>1, <2>2 DEF ben_validate_r
  <2> QED BY <2>5, <2>6, <1>1 DEF Enter, Call, Accepted, Receiving
<1> QED BY <1>3, <1>4, <1>5, <1>6, <1>7 DEF Token

\* The end of a list or a dictionary.
LEMMA EndAccepted ==
  ASSUME PacketTypeOK, Receiving, AtHead, Hd \in Head_, Len(raw) < size, NEW g, Expects(g),
         NEW c \in NextByte, Read(c), c = "e", Return
  PROVE  Accepted
<1>1. /\ c = sent[Len(raw) + 1] /\ Extends(raw', sent)
      /\ Len(raw') = Len(raw) + 1 /\ Len(raw) \in Nat
  BY ByteFollows
<1>2. Hd.at = Len(raw) /\ Hd.calls = calls /\ sent[Hd.at + 1] = "e"
  BY <1>1 DEF AtHead
<1>3. Ends(sent, Hd, g)
  BY <1>2, FirstByte DEF Expects, Token
<1>4. g.at = Len(raw') /\ g.calls = Front(calls)
  BY <1>1, <1>2, <1>3 DEF Ends
<1>5. result' # "broken"
  BY <1>4, ReturnAccepted DEF Expects, Receiving
<1> QED BY <1>1, <1>5 DEF Accepted

\* The text of a string is the one that has been written.
LEMMA TextFollows ==
  ASSUME PacketTypeOK, Receiving, NEW l \in Nat \ {0}, Len(raw) + 1 + l <= size,
         sent[Len(raw) + 1] = ":",
         NEW s \in Text(l), raw' = Append(raw, ":") \o s
  PROVE  Extends(raw', sent) /\ Len(raw') = Len(raw) + 1 + l
<1>1. raw \in Seq(Octet) /\ sent \in Seq(Octet) /\ ":" \in Octet
  BY DEF PacketTypeOK, Octet, Mark
<1>2. Len(raw) \in Nat /\ Len(sent) \in Nat /\ size = Len(sent) /\ l \in Nat
  BY <1>1, LenProperties DEF Receiving
<1>3. s = SubSeq(sent, Len(raw) + 2, Len(raw) + 1 + l)
  BY DEF Text, Receiving
<1> DEFINE A == Append(raw, ":")
<1>4. /\ A \in Seq(Octet) /\ Len(A) = Len(raw) + 1
      /\ \A i \in 1..Len(raw) : A[i] = raw[i]
      /\ A[Len(raw) + 1] = ":"
  BY <1>1, Pushed
<1> HIDE DEF A
<1>5. PICK x \in Nat : x = Len(raw) + 1
  BY <1>2
<1>6. s \in Seq(Octet) /\ Len(s) = l /\ \A i \in 1..l : s[i] = sent[x + i]
  <2>1. PICK lo \in Nat \ {0}, hi \in Nat : lo = x + 1 /\ hi = x + l
    <3>1. x + 1 \in Nat \ {0} /\ x + l \in Nat
      BY <1>2
    <3> QED BY <3>1
  <2>2. hi <= Len(sent) /\ lo <= hi + 1 /\ hi + 1 - lo = l
    <3>1. hi <= Len(sent)
      BY <2>1, <1>2, <1>5
    <3>2. \A u, w \in Nat : u + 1 <= u + w + 1 /\ u + w + 1 - (u + 1) = w
      OBVIOUS
    <3> QED BY <3>1, <3>2, <2>1, <1>2
  <2>3. s = SubSeq(sent, lo, hi)
    <3>1. lo = Len(raw) + 2 /\ hi = Len(raw) + 1 + l
      BY <2>1, <1>2, <1>5
    <3> QED BY <3>1, <1>3
  <2>4. /\ s \in Seq(Octet) /\ Len(s) = hi + 1 - lo
        /\ \A i \in 1..(hi + 1 - lo) : s[i] = sent[lo + i - 1]
    <3>1. sent \in Seq(Octet) /\ hi <= Len(sent) /\ lo <= hi + 1
      BY <2>2, <1>1
    <3>2. /\ SubSeq(sent, lo, hi) \in Seq(Octet) /\ Len(SubSeq(sent, lo, hi)) = hi + 1 - lo
          /\ \A i \in 1..(hi + 1 - lo) : SubSeq(sent, lo, hi)[i] = sent[lo + i - 1]
      BY <3>1, SliceIs
    <3> QED BY <3>2, <2>3
  <2>5. \A i \in 1..l : lo + i - 1 = x + i
    BY <2>1
  <2> QED BY <2>2, <2>4, <2>5
<1>7. /\ Len(raw') = x + l
      /\ \A i \in 1..x : raw'[i] = A[i]
      /\ \A i \in 1..l : raw'[x + i] = s[i]
  <2>1. raw' = A \o s
    BY DEF A
  <2>2. /\ Len(A \o s) = Len(A) + Len(s)
        /\ \A i \in 1..Len(A) : (A \o s)[i] = A[i]
        /\ \A i \in 1..Len(s) : (A \o s)[Len(A) + i] = s[i]
    <3>1. A \in Seq(Octet) /\ s \in Seq(Octet)
      BY <1>4, <1>6
    <3> QED BY <3>1, Joined
  <2> QED BY <2>1, <2>2, <1>4, <1>5, <1>6
<1>8. ASSUME NEW i \in 1..(x + l) PROVE sent[i] = raw'[i]
  <2>1. CASE i \in 1..Len(raw)
    <3>1. i \in 1..x
      BY <2>1, <1>2, <1>5
    <3> QED BY <3>1, <2>1, <1>4, <1>7 DEF Receiving, Extends
  <2>2. CASE i = x
    <3>1. i \in 1..x
      BY <2>2, <1>2, <1>5
    <3> QED BY <3>1, <2>2, <1>4, <1>5, <1>7
  <2>3. CASE i > x
    <3>1. i - x \in 1..l /\ x + (i - x) = i
      BY <2>3
    <3>2. s[i - x] = sent[x + (i - x)] /\ raw'[x + (i - x)] = s[i - x]
      BY <3>1, <1>6, <1>7
    <3> QED BY <3>1, <3>2
  <2>4. i \in 1..Len(raw) \/ i = x \/ i > x
    BY <1>2, <1>5
  <2> QED BY <2>1, <2>2, <2>3, <2>4
<1>9. x + l <= Len(sent) /\ x + l = Len(raw) + 1 + l
  BY <1>2, <1>5
<1> QED BY <1>7, <1>8, <1>9 DEF Extends

\* The digits and the text of a string.
LEMMA StringAccepted ==
  ASSUME PacketTypeOK, Receiving, calls # << >>, Hd \in Head_, Hd.calls # << >>,
         InString(raw, calls, num, Hd), Len(raw) < size, NEW g, Expects(g),
         NEW c \in NextByte, ben_validate_s(c)
  PROVE  Accepted
<1>1. c = sent[Len(raw) + 1] /\ (Read(c) => Extends(raw', sent))
  <2>1. c = sent[Len(raw) + 1]
    BY DEF NextByte, Receiving
  <2> QED BY <2>1, ByteFollows
<1>2. /\ Hd.at \in Nat /\ Len(num) \in Nat /\ Len(num) >= 1 /\ Len(raw) = Hd.at + Len(num)
      /\ \A k \in 1..Len(num) : num[k] = raw[Hd.at + k] /\ num[k] \in Digit
  BY DigitsAre
<1>3. raw \in Seq(Octet) /\ sent \in Seq(Octet) /\ Len(sent) \in Nat /\ size = Len(sent)
      /\ Hd.calls \in Seq(CallName)
  BY LenProperties DEF PacketTypeOK, Receiving, Head_
<1>4. PICK a \in Nat, N \in Nat : a = Hd.at /\ N = Len(num)
  BY <1>2
<1>5. \A k \in 1..N : sent[a + k] = num[k] /\ num[k] \in Digit
  <2>1. \A k \in 1..N : a + k \in 1..Len(raw)
    BY <1>2, <1>4
  <2> QED BY <2>1, <1>2, <1>4 DEF Receiving, Extends
<1>6. IsString(sent, Hd, g)
  <2>1. 1 \in 1..N
    BY <1>2, <1>4
  <2>2. sent[Hd.at + 1] \in Digit
    BY <2>1, <1>4, <1>5
  <2> QED BY <2>2, FirstByte DEF Expects, Token
<1>7. PICK n, l \in Nat : /\ StringAt(sent, a, n, l) /\ g.at = a + n + 1 + l
                          /\ g.calls = AfterStr(Hd.calls)
  BY <1>4, <1>6 DEF IsString
<1>8. /\ n >= 1 /\ n <= StrMaxLen /\ l \in 1..StrMaxSize /\ a + n + 1 + l <= Len(sent)
      /\ \A k \in 1..n : sent[a + k] \in Digit
      /\ sent[a + n + 1] = ":"
      /\ atol(SubSeq(sent, a + 1, a + n)) = l
  BY <1>7 DEF StringAt
<1>9. N <= n
  <2>1. SUFFICES ASSUME n < N PROVE FALSE
    BY <1>2, <1>4
  <2>2. n + 1 \in 1..N /\ a + (n + 1) = a + n + 1
    BY <2>1
  <2>3. sent[a + (n + 1)] \in Digit
    BY <2>2, <1>5
  <2> QED BY <2>2, <2>3, <1>8, DigitIs DEF Mark
<1>10. CASE N < n
  <2>1. Len(raw) = a + N
    BY <1>2, <1>4
  <2>2. N + 1 \in 1..n /\ a + (N + 1) = Len(raw) + 1
    BY <2>1, <1>10
  <2>3. c \in Digit
    BY <2>2, <1>1, <1>8
  <2>4. Read(c) /\ Call(calls, Append(num, c))
    BY <2>3, DigitIs DEF ben_validate_s, Mark
  <2> QED BY <2>4, <1>1 DEF Call, Accepted, Receiving
<1>11. CASE N = n
  <2>1. a + n + 1 = Len(raw) + 1
    BY <1>11, <1>2, <1>4
  <2>2. c = ":" /\ c \notin Digit /\ sent[Len(raw) + 1] = ":"
    BY <2>1, <1>1, <1>8, DigitIs DEF Mark
  <2>3. SubSeq(sent, a + 1, a + n) = num
    <3>1. num \in Seq(Octet)
      <4>1. num \in Seq(Digit) /\ Digit \subseteq Octet
        BY DEF PacketTypeOK, Octet
      <4> QED BY <4>1, SeqMonotonic
    <3>2. a + Len(num) <= Len(sent) /\ \A i \in 1..Len(num) : sent[a + i] = num[i]
      <4>1. N + a <= Len(sent)
        <5>1. PICK y \in Nat : y = l
          BY <1>8, BencodeAssumption
        <5>2. a + n + 1 + y <= Len(sent)
          BY <5>1, <1>8
        <5> QED BY <5>2, <1>3, <1>11
      <4> QED BY <4>1, <1>4, <1>5
    <3>3. SubSeq(sent, a + 1, a + Len(num)) = num
      BY <3>1, <3>2, <1>3, SliceEq
    <3> QED BY <3>3, <1>4, <1>11
  <2>4. StrLenOk /\ atol(num) = l
    BY <2>3, <1>4, <1>8, <1>11 DEF StrLenOk
  <2>5. Len(raw) + 1 + l <= size /\ g.at = Len(raw) + 1 + l /\ l \in Nat \ {0}
    <3>1. l \in Nat \ {0}
      BY <1>8, BencodeAssumption
    <3>2. Len(raw) + 1 + l = a + n + 1 + l
      BY <2>1
    <3>3. g.at = Len(raw) + 1 + l
      BY <3>2, <1>7
    <3>4. Len(raw) + 1 + l <= size
      BY <3>2, <1>3, <1>8
    <3> QED BY <3>1, <3>3, <3>4
  <2>6. ~(Len(raw) + 1 + atol(num) > size)
    <3>1. \A x, y \in Nat : x <= y => ~(x > y)
      OBVIOUS
    <3>2. Len(raw) + 1 + l \in Nat /\ size \in Nat
      BY <1>2, <1>3, <1>7
    <3> QED BY <3>1, <3>2, <2>4, <2>5
  <2>7. PICK s \in Text(l) : raw' = Append(raw, ":") \o s
    BY <2>2, <2>4, <2>6 DEF ben_validate_s
  <2>8. Return
    BY <2>2, <2>4, <2>6 DEF ben_validate_s
  <2>9. Extends(raw', sent) /\ Len(raw') = g.at
    BY <2>2, <2>5, <2>7, TextFollows
  <2>10. Front(calls) = g.calls
    <3>1. "s" \in CallName
      BY DEF CallName
    <3> QED BY <3>1, <1>3, <1>7, CallsAre DEF InString
  <2>11. result' # "broken"
    BY <2>8, <2>9, <2>10, ReturnAccepted DEF Expects, Receiving
  <2> QED BY <2>9, <2>11 DEF Accepted
<1> QED BY <1>9, <1>10, <1>11

\* The digits of a number, and its end.
LEMMA NumberAccepted ==
  ASSUME PacketTypeOK, Receiving, calls # << >>, Hd \in Head_, Hd.calls # << >>,
         InNumber(raw, calls, num, Hd), Len(raw) < size, NEW g, Expects(g),
         NEW c \in NextByte, ben_validate_i(c)
  PROVE  Accepted
<1>1. /\ c = sent[Len(raw) + 1] /\ Extends(raw', sent)
      /\ Len(raw') = Len(raw) + 1 /\ Len(raw) \in Nat
  <2>1. Read(c)
    BY DEF ben_validate_i
  <2> QED BY <2>1, ByteFollows
<1>2. /\ raw \in Seq(Octet) /\ sent \in Seq(Octet) /\ Len(sent) \in Nat /\ size = Len(sent)
      /\ Hd.calls \in Seq(CallName) /\ num \in Seq(Digit) /\ Len(num) \in Nat /\ Hd.at \in Nat
  BY LenProperties DEF PacketTypeOK, Receiving, Head_
<1>3. PICK a \in Nat, N \in Nat : a = Hd.at /\ N = Len(num)
  BY <1>2
<1>4. PICK k \in 0..1 : /\ Len(raw) = a + 1 + k + N
                        /\ raw[a + 1] = "i" /\ (k = 1 => raw[a + 2] = "-")
                        /\ \A i \in 1..N : raw[a + 1 + k + i] = num[i]
  BY <1>3 DEF InNumber
<1>5. /\ sent[a + 1] = "i" /\ (k = 1 => sent[a + 2] = "-")
      /\ \A i \in 1..N : sent[a + 1 + k + i] = num[i] /\ num[i] \in Digit
  <2>1. a + 1 \in 1..Len(raw) /\ (k = 1 => a + 2 \in 1..Len(raw))
    BY <1>4
  <2>2. \A i \in 1..N : a + 1 + k + i \in 1..Len(raw)
    BY <1>4
  <2>3. \A i \in 1..N : num[i] \in Digit
    BY <1>2, <1>3, ElementOfSeq
  <2> QED BY <2>1, <2>2, <2>3, <1>4 DEF Receiving, Extends
<1>6. IsNumber(sent, Hd, g)
  BY <1>3, <1>5, FirstByte DEF Expects, Token
<1>7. PICK m, n \in Nat : /\ NumberAt(sent, a, m, n) /\ g.at = a + m + n + 2
                          /\ g.calls = Base(Hd.calls)
  BY <1>3, <1>6 DEF IsNumber
<1>8. /\ m \in 0..1 /\ n >= 1 /\ n <= IntMaxLen /\ a + m + n + 2 <= Len(sent)
      /\ (m = 1 => sent[a + 2] = "-")
      /\ \A i \in 1..n : sent[a + 1 + m + i] \in Digit
      /\ sent[a + m + n + 2] = "e"
      /\ atol(SubSeq(sent, a + m + 2, a + m + n + 1)) <= IntMaxSize
  <2>1. n >= 1
    BY <1>7 DEF NumberAt
  <2> QED BY <2>1, <1>7 DEF NumberAt
<1>9. m = 0 => sent[a + 2] \in Digit
  <2>1. m = 0 => 1 \in 1..n /\ a + 1 + m + 1 = a + 2
    BY <1>8
  <2> QED BY <2>1, <1>8
<1>10. "-" \notin Digit /\ "e" \notin Digit
  BY DigitIs DEF Mark
<1>11. k <= m /\ (k < m => N = 0)
  <2>1. ~(k = 1 /\ m = 0)
    BY <1>5, <1>9, <1>10
  <2>2. ASSUME k = 0, m = 1, N # 0 PROVE FALSE
    <3>1. 1 \in 1..N /\ a + 1 + k + 1 = a + 2
      BY <2>2
    <3>2. sent[a + 2] \in Digit
      BY <3>1, <1>5
    <3> QED BY <3>2, <2>2, <1>8, <1>10
  <2> QED BY <2>1, <2>2, <1>8
<1>12. CASE k < m
  <2>1. k = 0 /\ m = 1 /\ N = 0
    BY <1>8, <1>11, <1>12
  <2>2. Len(raw) = a + 1 /\ Len(raw) + 1 = a + 2
    BY <2>1, <1>4
  <2>3. c = "-" /\ Last(raw) = "i"
    BY <2>1, <2>2, <1>1, <1>4, <1>8 DEF Last
  <2>4. Enter(calls)
    BY <2>3, <1>10 DEF ben_validate_i
  <2>5. Len(raw') < size
    BY <2>1, <2>2, <1>1, <1>2, <1>8
  <2> QED BY <2>4, <2>5, <1>1 DEF Enter, Call, Accepted, Receiving
<1>13. CASE k = m
  <2>1. PICK x \in Nat : x = a + 1 + m
    OBVIOUS
  <2>2. Len(raw) = x + N
    BY <2>1, <1>4, <1>13
  <2>3. N <= n
    <3>1. SUFFICES ASSUME n < N PROVE FALSE
      OBVIOUS
    <3>2. n + 1 \in 1..N /\ a + 1 + k + (n + 1) = a + m + n + 2
      BY <3>1, <1>13
    <3>3. sent[a + 1 + k + (n + 1)] \in Digit
      BY <3>2, <1>5
    <3> QED BY <3>2, <3>3, <1>8, <1>10
  <2>4. CASE N < n
    <3>1. N + 1 \in 1..n /\ x + (N + 1) = Len(raw) + 1
      BY <2>2, <2>4
    <3>2. c \in Digit
      BY <3>1, <2>1, <1>1, <1>8
    <3>3. Call(calls, Append(num, c))
      BY <3>2, <1>10 DEF ben_validate_i
    <3> QED BY <3>3, <1>1 DEF Call, Accepted, Receiving
  <2>5. CASE N = n
    <3>1. a + m + n + 2 = Len(raw) + 1 /\ g.at = Len(raw')
      BY <2>1, <2>2, <2>5, <1>1, <1>7
    <3>2. c = "e" /\ c \notin Digit /\ c # "-"
      BY <3>1, <1>1, <1>8, <1>10
    <3>3. SubSeq(sent, a + m + 2, a + m + n + 1) = num
      <4>1. num \in Seq(Octet)
        <5>1. num \in Seq(Digit) /\ Digit \subseteq Octet
          BY DEF PacketTypeOK, Octet
        <5> QED BY <5>1, SeqMonotonic
      <4>2. x + N <= Len(sent)
        BY <2>1, <2>5, <1>2, <1>8
      <4>3. \A i \in 1..N : a + 1 + k + i = x + i
        BY <2>1, <1>13
      <4>4. x + Len(num) <= Len(sent) /\ \A i \in 1..Len(num) : sent[x + i] = num[i]
        BY <4>2, <4>3, <1>3, <1>5
      <4>5. SubSeq(sent, x + 1, x + Len(num)) = num
        BY <4>1, <4>4, <1>2, SliceEq
      <4>6. x + 1 = a + m + 2 /\ x + Len(num) = a + m + n + 1
        BY <2>1, <2>5, <1>3
      <4> QED BY <4>5, <4>6
    <3>4. IntLenOk
      <4>1. n \in 1..IntMaxLen
        BY <1>8, BencodeAssumption
      <4>2. atol(num) <= IntMaxSize
        BY <3>3, <1>8
      <4> QED BY <4>1, <4>2, <2>5, <1>3 DEF IntLenOk
    <3>5. Return
      BY <3>2, <3>4 DEF ben_validate_i
    <3>6. Front(calls) = g.calls
      <4>1. "i" \in CallName
        BY DEF CallName
      <4> QED BY <4>1, <1>2, <1>7, CallsAre DEF InNumber
    <3>7. result' # "broken"
      BY <3>1, <3>5, <3>6, ReturnAccepted DEF Expects, Receiving
    <3> QED BY <3>7, <1>1 DEF Accepted
  <2> QED BY <2>3, <2>4, <2>5
<1> QED BY <1>8, <1>11, <1>12, <1>13

\* ben_validate does not come to the end of the packet inside of a string or a number.
LEMMA BytesLeft ==
  ASSUME PacketTypeOK, Receiving, Running, Hd \in Head_, NEW g, Expects(g)
  PROVE  Len(raw) < size
<1>1. /\ Len(raw) \in Nat /\ sent \in Seq(Octet) /\ Len(sent) \in Nat /\ size = Len(sent)
      /\ Hd.at \in Nat /\ Len(num) \in Nat /\ num \in Seq(Digit)
      /\ \A i \in 1..Len(raw) : sent[i] = raw[i]
  BY LenProperties DEF PacketTypeOK, Receiving, Head_, Extends
<1>2. ":" \notin Digit /\ "e" \notin Digit
  BY DigitIs DEF Mark
<1>3. CASE InString(raw, calls, num, Hd)
  <2>1. /\ Len(num) >= 1 /\ Len(raw) = Hd.at + Len(num)
        /\ \A k \in 1..Len(num) : num[k] = raw[Hd.at + k] /\ num[k] \in Digit
    BY <1>3, DigitsAre
  <2>2. IsString(sent, Hd, g)
    <3>1. 1 \in 1..Len(num) /\ Hd.at + 1 \in 1..Len(raw)
      BY <2>1, <1>1
    <3>2. sent[Hd.at + 1] \in Digit
      BY <3>1, <2>1, <1>1
    <3> QED BY <3>2, FirstByte DEF Expects, Token
  <2>3. PICK n, l \in Nat : StringAt(sent, Hd.at, n, l)
    BY <2>2 DEF IsString
  <2>4. Hd.at + n + 1 + l <= Len(sent) /\ sent[Hd.at + n + 1] = ":"
    BY <2>3 DEF StringAt
  <2>5. SUFFICES ASSUME Len(raw) >= size PROVE FALSE
    BY <1>1
  <2>6. n + 1 \in 1..Len(num) /\ Hd.at + (n + 1) = Hd.at + n + 1 /\ Hd.at + n + 1 \in 1..Len(raw)
    BY <2>1, <2>4, <2>5, <1>1
  <2>7. sent[Hd.at + n + 1] \in Digit
    BY <2>1, <2>6, <1>1
  <2> QED BY <2>4, <2>7, <1>2
<1>4. CASE InNumber(raw, calls, num, Hd)
  <2>1. PICK k \in 0..1 : /\ Len(raw) = Hd.at + 1 + k + Len(num)
                          /\ raw[Hd.at + 1] = "i"
                          /\ \A i \in 1..Len(num) : raw[Hd.at + 1 + k + i] = num[i]
    BY <1>4 DEF InNumber
  <2>2. IsNumber(sent, Hd, g)
    <3>1. \A x, y \in Nat : x + 1 + k + y >= x + 1
      OBVIOUS
    <3>2. Len(raw) >= Hd.at + 1
      BY <3>1, <2>1, <1>1
    <3>3. Hd.at + 1 \in 1..Len(raw)
      BY <3>2, <1>1
    <3>4. sent[Hd.at + 1] = "i"
      BY <3>3, <2>1, <1>1
    <3> QED BY <3>4, FirstByte DEF Expects, Token
  <2>3. PICK m, n \in Nat : NumberAt(sent, Hd.at, m, n)
    BY <2>2 DEF IsNumber
  <2>4. Hd.at + m + n + 2 <= Len(sent) /\ sent[Hd.at + m + n + 2] = "e" /\ n # 0
    BY <2>3 DEF NumberAt
  <2>5. SUFFICES ASSUME Len(raw) >= size PROVE FALSE
    BY <1>1
  <2>6. PICK i \in Nat : i = m + n + 1 - k
    <3>1. m + n + 1 - k \in Nat
      BY <2>4
    <3> QED BY <3>1
  <2>7. Hd.at + 1 + k + i = Hd.at + m + n + 2
    BY <2>6, <1>1
  <2>8. i >= 1 /\ i <= Len(num)
    <3>1. i >= 1
      BY <2>4, <2>6
    <3>2. Hd.at + m + n + 2 <= Len(raw)
      BY <2>4, <2>5, <1>1
    <3>3. Hd.at + 1 + k + i <= Hd.at + 1 + k + Len(num)
      BY <3>2, <2>1, <2>7
    <3>4. PICK x \in Nat : x = Hd.at + 1 + k
      BY <1>1
    <3>5. x + i <= x + Len(num)
      BY <3>3, <3>4
    <3> QED BY <3>1, <3>5, <1>1
  <2>9. i \in 1..Len(num) /\ Hd.at + m + n + 2 \in 1..Len(raw)
    <3>1. i \in 1..Len(num)
      BY <2>8, <1>1
    <3>2. PICK y \in Nat : y = Hd.at + m + n + 2
      BY <1>1
    <3>3. y <= Len(raw)
      BY <2>4, <2>5, <3>2, <1>1
    <3>4. y >= 1
      BY <3>2, <1>1
    <3> QED BY <3>1, <3>2, <3>3, <3>4, <1>1
  <2>10. num[i] \in Digit
    BY <2>9, <1>1, ElementOfSeq
  <2>11. sent[Hd.at + m + n + 2] \in Digit
    BY <2>1, <2>7, <2>9, <2>10, <1>1
  <2> QED BY <2>4, <2>11, <1>2
<1> QED BY <1>3, <1>4 DEF Running

\* A step over what ben_enc has written.
LEMMA ByteAccepted ==
  ASSUME PacketTypeOK, HeadsOK, Running, Receiving, NEW g, Expects(g),
         NEW c \in NextByte,
         \/ ValidateValue(c) \/ ben_validate_l(c) \/ ben_validate_d(c)
         \/ ben_validate_s(c) \/ ben_validate_i(c)
  PROVE  Accepted
<1>1. Hd \in Head_ /\ Neat(Hd.calls) /\ calls # << >> /\ Hd.calls # << >>
      /\ calls \in Seq(CallName) /\ Hd.calls \in Seq(CallName)
  BY HdIs DEF Running, PacketTypeOK, Head_
<1>2. Len(raw) < size
  BY <1>1, BytesLeft
<1>3. CASE AtHead
  <2>1. calls = Hd.calls /\ Last(calls) \in {"r", "d", "l"} /\ Hd.at = Len(raw)
    BY <1>1, <1>3 DEF AtHead, Neat
  <2>2. CASE ValidateValue(c)
    <3>1. Last(calls) = "r" /\ Read(c) /\ ben_validate_r(Base(calls), c)
      BY <2>2 DEF ValidateValue, Current, Base
    <3>2. Last(calls) = "r" \/ (Last(calls) = "l" /\ c # "e")
      BY <3>1
    <3> HIDE DEF Read, ben_validate_r, Base, Last, AtHead, PacketTypeOK, Receiving, Expects
    <3> QED BY <1>1, <1>2, <1>3, <3>1, <3>2, ValueAccepted
  <2>3. CASE ben_validate_l(c)
    <3>1. Last(calls) = "l" /\ Read(c) /\ (IF c = "e" THEN Return ELSE ben_validate_r(calls, c))
      BY <2>3 DEF ben_validate_l, Current
    <3>2. CASE c = "e"
      BY <1>1, <1>2, <1>3, <3>1, <3>2, EndAccepted
    <3>3. CASE c # "e"
      <4>1. Base(calls) = calls
        BY <3>1 DEF Base
      <4> QED BY <1>1, <1>2, <1>3, <3>1, <3>3, <4>1, ValueAccepted
    <3> QED BY <3>2, <3>3
  <2>4. CASE ben_validate_d(c)
    <3>1. /\ Last(calls) = "d" /\ Read(c)
          /\ IF c = "e" THEN Return
             ELSE IF c \in Digit THEN Call(calls \o <<"r", "s">>, <<c>>)
             ELSE Broken
      BY <2>4 DEF ben_validate_d, Current
    <3>2. CASE c = "e"
      BY <1>1, <1>2, <1>3, <3>1, <3>2, EndAccepted
    <3>3. CASE c # "e"
      <4>1. c = sent[Hd.at + 1] /\ Extends(raw', sent)
        BY <1>2, <2>1, <3>1, ByteFollows
      <4>2. ~Begins(sent, Hd, g) /\ ~IsNumber(sent, Hd, g)
        BY <2>1, <3>1 DEF Begins, IsNumber
      <4>3. ~Ends(sent, Hd, g)
        BY <3>3, <4>1 DEF Ends
      <4>4. c \in Digit
        BY <1>1, <4>1, <4>2, <4>3, FirstByte DEF Expects, Token
      <4>5. Call(calls \o <<"r", "s">>, <<c>>)
        BY <3>1, <3>3, <4>4
      <4> QED BY <4>1, <4>5 DEF Call, Accepted, Receiving
    <3> QED BY <3>2, <3>3
  <2>5. ~ben_validate_s(c) /\ ~ben_validate_i(c)
    BY <2>1 DEF ben_validate_s, ben_validate_i, Current
  <2> QED BY <2>2, <2>3, <2>4, <2>5
<1>4. CASE InString(raw, calls, num, Hd)
  <2>1. Last(calls) = "s"
    <3>1. "s" \in CallName
      BY DEF CallName
    <3> QED BY <1>1, <1>4, <3>1, CallsAre DEF InString
  <2>2. ben_validate_s(c)
    BY <2>1 DEF ValidateValue, ben_validate_l, ben_validate_d, ben_validate_i, Current
  <2> QED BY <1>1, <1>2, <1>4, <2>2, StringAccepted
<1>5. CASE InNumber(raw, calls, num, Hd)
  <2>1. Last(calls) = "i"
    <3>1. "i" \in CallName
      BY DEF CallName
    <3> QED BY <1>1, <1>5, <3>1, CallsAre DEF InNumber
  <2>2. ben_validate_i(c)
    BY <2>1 DEF ValidateValue, ben_validate_l, ben_validate_d, ben_validate_s, Current
  <2> QED BY <1>1, <1>2, <1>5, <2>2, NumberAccepted
<1> QED BY <1>3, <1>4, <1>5 DEF Running

\* ben_validate has read a part of what ben_enc has written, step by step.
Reads ==
  /\ Extends(raw, sent) /\ result # "broken"
  /\ Len(heads) <= Len(marks)
  /\ \A j \in 1..Len(heads) : heads[j] = HeadAt(marks[j])
  /\ result \in Behind => Complete

\* From the moment in which the packet is received.
ReceivedOK == value # << >> /\ result \notin Early => Reads

\* What comes next is on the way, until the packet is over.
LEMMA NextMark ==
  ASSUME PacketTypeOK, Sized, Upto(Len(marks)), result # "sizing",
         NEW k \in 1..Len(marks), HeadAt(marks[k]).calls # << >>
  PROVE  /\ k + 1 \in 1..Len(marks) /\ MarkStep(marks[k], marks[k + 1]) /\ Written(sent, marks[k])
         /\ Token(sent, HeadAt(marks[k]), HeadAt(marks[k + 1]))
         /\ HeadAt(marks[k]) \in Head_ /\ HeadAt(marks[k + 1]) \in Head_
         /\ HeadAt(marks[k + 1]).calls # << >> => HeadAt(marks[k + 1]).at < Len(sent)
<1>1. /\ Len(marks) \in Nat /\ Last(marks) = marks[Len(marks)]
      /\ \A j \in 1..Len(marks) : MarkOK(marks[j])
      /\ sent \in Seq(Octet) /\ Len(sent) \in Nat
  BY MarksAre, LenProperties DEF PacketTypeOK
<1>2. ASSUME NEW j \in 1..Len(marks), HeadAt(marks[j]).calls # << >>
      PROVE  /\ j + 1 \in 1..Len(marks) /\ j \in 1..(Len(marks) - 1)
             /\ MarkOK(marks[j]) /\ MarkStep(marks[j], marks[j + 1]) /\ Written(sent, marks[j])
  <2>1. MarkOK(marks[j]) /\ Stack(marks[j].doing)
    BY <1>1 DEF MarkOK
  <2>2. ~Done(marks[j].doing)
    BY <1>2, <2>1, HeadAtIs, CallsOfIs
  <2>3. j # Len(marks)
    BY <1>1, <2>2 DEF Sized
  <2>4. j + 1 \in 1..Len(marks) /\ j \in 1..(Len(marks) - 1)
    BY <1>1, <2>3
  <2>5. MarkStep(marks[j], marks[j + 1]) /\ Written(sent, marks[j])
    BY <2>4 DEF Sized, Upto
  <2> QED BY <2>1, <2>4, <2>5
<1>3. /\ k + 1 \in 1..Len(marks) /\ MarkOK(marks[k]) /\ MarkStep(marks[k], marks[k + 1])
      /\ Written(sent, marks[k]) /\ MarkOK(marks[k + 1])
  BY <1>1, <1>2
<1>4. Token(sent, HeadAt(marks[k]), HeadAt(marks[k + 1]))
  BY <1>1, <1>3, MarkToken
<1>5. HeadAt(marks[k]) \in Head_ /\ HeadAt(marks[k + 1]) \in Head_
  BY <1>3, HeadAtIs
<1>6. ASSUME HeadAt(marks[k + 1]).calls # << >> PROVE HeadAt(marks[k + 1]).at < Len(sent)
  <2> DEFINE g == marks[k + 1]
  <2>1. MarkOK(g) /\ MarkStep(g, marks[k + 1 + 1]) /\ Written(sent, g)
    BY <1>2, <1>3, <1>6
  <2> HIDE DEF g
  <2>2. Place(g) \in Nat /\ Len(StepCode(g.doing)) \in Nat \ {0} /\ HeadAt(g).at = Place(g)
    BY <2>1, StepIs, HeadAtIs
  <2>3. Place(g) + Len(StepCode(g.doing)) <= Len(sent)
    BY <2>1 DEF Written
  <2>4. HeadAt(g).at < Len(sent)
    BY <2>2, <2>3, <1>1
  <2> QED BY <2>4 DEF g
<1> QED BY <1>3, <1>4, <1>5, <1>6

\* The packet is received.
LEMMA ReadsBegin ==
  ASSUME BencodeIInv, BencodeIInv', BufferOK, value # << >>, result \in Early, result' \notin Early,
         Encode
  PROVE  Reads'
<1>1. /\ result' = "running" /\ marks' = marks /\ sent' = sent /\ raw' = raw /\ heads' = heads
      /\ value \in Tree
  BY DEF Encode, ben_enc, Early, encvars, valvars, BencodeIInv, EncoderOK
<1>2. raw = << >> /\ heads = <<FirstHead>>
  BY DEF BencodeIInv, Stages
<1>3. sent \in Seq(Octet) /\ Len(sent) \in Nat
  BY LenProperties DEF BencodeIInv, PacketTypeOK
<1>4. Extends(raw', sent')
  BY <1>1, <1>2, <1>3 DEF Extends
<1>5. Sized /\ Len(marks) >= 1 /\ Len(marks) \in Nat /\ MarkOK(marks[1])
  BY MarksAre DEF BufferOK
<1>6. HeadAt(marks[1]) = FirstHead
  <2> DEFINE d == <<Caller>>
  <2>1. marks[1].doing = d /\ marks[1].alloc = 0
    BY <1>5 DEF Sized
  <2>2. Stack(d)
    BY <1>5, <2>1 DEF MarkOK
  <2>3. Len(d) = 1 /\ d[1] = Caller
    OBVIOUS
  <2> HIDE DEF d
  <2>4. Last(d) = Caller /\ Names(d) = << >>
    BY <2>2, <2>3, StackIs, NamesAre
  <2>5. Room(d)
    BY <2>3, <2>4 DEF Room, More, Caller, Frame
  <2>6. CallsOf(d) = <<"r">>
    BY <2>4, <2>5 DEF CallsOf
  <2>7. Place(marks[1]) = 0
    BY <2>1, <2>3 DEF Place
  <2> QED BY <2>1, <2>6, <2>7 DEF HeadAt, FirstHead
<1>7. HeadAt(marks[1])' = HeadAt(marks[1])
  BY <1>1 DEF HeadAt, Place, CallsOf, Names, Room, More
<1>8. Len(heads') = 1 /\ heads'[1] = FirstHead
  BY <1>1, <1>2
<1>9. \A j \in 1..Len(heads') : heads'[j] = HeadAt(marks[j])'
  BY <1>6, <1>7, <1>8
<1>10. result' \notin Behind /\ result' # "broken"
  BY <1>1 DEF Behind
<1> QED BY <1>1, <1>4, <1>5, <1>8, <1>9, <1>10 DEF Reads

\* A step of ben_validate.
LEMMA ReadsOn ==
  ASSUME BencodeIInv, BufferOK, value # << >>, Reads, ben_validate
  PROVE  Reads' /\ result' \in {"running", "valid"}
<1> DEFINE k == Len(heads)
           g == HeadAt(marks[k + 1])
<1>1. /\ result = "running" /\ Running /\ marks' = marks /\ sent' = sent
      /\ PacketTypeOK /\ HeadsOK /\ Delivered
  BY DEF ben_validate, encvars, Stages, BencodeIInv
<1>2. /\ Hd \in Head_ /\ Hd = heads[k] /\ k \in Nat /\ k >= 1 /\ heads \in Seq(Head_)
      /\ Hd.calls # << >> /\ (Hd.calls = <<"r">> => Hd.at = 0)
  BY <1>1, HdIs DEF PacketTypeOK, Running
<1>3. size = Len(sent) /\ Len(sent) \in Nat /\ sent \in Seq(Octet) /\ raw \in Seq(Octet)
  BY <1>1, LenProperties DEF Delivered, Early, PacketTypeOK
<1>4. Sized /\ Upto(Len(marks)) /\ Len(marks) \in Nat
  BY <1>1, MarksAre DEF BufferOK, Filled
<1>5. k \in 1..Len(marks) /\ k \in 1..Len(heads) /\ Hd = HeadAt(marks[k])
  <2>1. k \in 1..Len(marks) /\ k \in 1..Len(heads)
    BY <1>2, <1>4 DEF Reads
  <2> QED BY <2>1, <1>2 DEF Reads
<1>6. /\ k + 1 \in 1..Len(marks) /\ Token(sent, Hd, g) /\ g \in Head_
      /\ g.calls # << >> => g.at < Len(sent)
  BY <1>1, <1>2, <1>4, <1>5, NextMark
<1>7. Receiving /\ Expects(g)
  BY <1>1, <1>3, <1>6 DEF Receiving, Expects, Reads
<1> HIDE DEF g, k
<1>8. Len(raw) < size
  BY <1>1, <1>2, <1>7, BytesLeft
<1>9. PICK c \in NextByte : \/ ValidateValue(c) \/ ben_validate_l(c) \/ ben_validate_d(c)
                            \/ ben_validate_s(c) \/ ben_validate_i(c)
  BY <1>8 DEF ben_validate, OutOfBytes
<1>10. heads' = IF Arrives THEN Append(heads, Next_) ELSE heads
  BY <1>8 DEF ben_validate, OutOfBytes, Next_
<1>11. Outcome /\ ReadMore
  BY <1>1, <1>8, <1>9, ByteRead
<1>12. result' # "broken" /\ Extends(raw', sent)
  BY <1>1, <1>7, <1>9, ByteAccepted DEF Accepted
<1>13. \A j \in 1..Len(marks) : HeadAt(marks[j])' = HeadAt(marks[j])
  BY <1>1 DEF HeadAt, Place, CallsOf, Names, Room, More
<1>14. result' \in {"running", "valid"}
  BY <1>11, <1>12 DEF Outcome, Arrived, GoesOn
<1>15. CASE Arrives
  <2>1. ~GoesOn
    BY <1>15 DEF Arrives, GoesOn
  <2>2. Token(raw', Hd, Next_)
    BY <2>1, <1>11, <1>12 DEF Outcome, Arrived
  <2>3. raw' \in Seq(Octet) /\ Len(raw') \in Nat /\ calls' \in Seq(CallName)
    BY <1>11, LenProperties DEF ReadMore
  <2>4. Next_ \in Head_
    BY <2>3 DEF Next_, Head_
  <2>5. Next_ = g
    <3>1. Token(sent, Hd, Next_)
      BY <1>2, <1>3, <1>12, <2>2, <2>3, <2>4, TokenStays
    <3> QED BY <3>1, <2>4, <1>2, <1>6, TokenOnce
  <2>6. heads' = Append(heads, g)
    BY <1>10, <1>15, <2>5
  <2>7. /\ Len(heads') = k + 1 /\ \A j \in 1..k : heads'[j] = heads[j]
        /\ heads'[k + 1] = g /\ Last(heads') = g
    BY <1>2, <1>6, <2>6, Pushed DEF k
  <2>8. ASSUME NEW j \in 1..(k + 1) PROVE heads'[j] = HeadAt(marks[j])'
    <3>1. CASE j = k + 1
      BY <3>1, <2>7, <1>6, <1>13 DEF g
    <3>2. CASE j \in 1..k
      <4>1. j \in 1..Len(marks)
        BY <1>2, <1>5, <3>2
      <4> QED BY <4>1, <3>2, <2>7, <1>13 DEF Reads, k
    <3> QED BY <3>1, <3>2, <1>2
  <2>9. k + 1 <= Len(marks)
    BY <1>6, <1>4
  <2>10. result' \in Behind => Complete'
    <3>1. ASSUME result' \in Behind PROVE calls' = << >>
      BY <3>1, <2>1, <1>11, <1>12 DEF Outcome, Arrived, Behind
    <3>2. Hd' = Next_
      BY <2>5, <2>7 DEF Hd
    <3> QED BY <3>1, <3>2 DEF Complete, Next_
  <2> QED BY <1>1, <1>12, <1>14, <2>7, <2>8, <2>9, <2>10 DEF Reads
<1>16. CASE ~Arrives
  <2>1. heads' = heads
    BY <1>10, <1>16
  <2>2. result' \notin Behind
    <3>1. calls' # << >>
      BY <1>12, <1>16 DEF Arrives
    <3> QED BY <3>1, <1>11, <1>12 DEF Outcome, Arrived, GoesOn, Behind
  <2>3. \A j \in 1..Len(heads) : j \in 1..Len(marks)
    BY <1>2, <1>5 DEF k
  <2>4. \A j \in 1..Len(heads') : heads'[j] = HeadAt(marks[j])'
    BY <2>1, <2>3, <1>13 DEF Reads
  <2> QED BY <1>1, <1>12, <1>14, <2>1, <2>2, <2>4 DEF Reads
<1> QED BY <1>15, <1>16
(***************************************************************************)
(* ben_dec over what ben_enc has written: it puts together again what      *)
(* ben_enc has been through.                                               *)
(***************************************************************************)

\* A value under construction, when ben_enc_rec is at fr.
Built(fr) == [f |-> fr.f, v |-> SubSeq(fr.v, 1, fr.k),
              key |-> IF fr.part = "value" THEN fr.v[fr.k + 1][1] ELSE << >>]
Values(d) == [i \in 1..Len(d) |-> Built(d[i])]
BuiltSet  == {Built(fr) : fr \in EncFrame}

\* Two sequences with the same elements.
LEMMA SameSeq ==
  ASSUME NEW S, NEW T, NEW s \in Seq(S), NEW t \in Seq(T), Len(s) = Len(t),
         \A i \in 1..Len(s) : s[i] = t[i]
  PROVE  s = t
<1>1. /\ Len(s) \in Nat /\ DOMAIN s = 1..Len(s) /\ s = [i \in DOMAIN s |-> s[i]]
      /\ DOMAIN t = 1..Len(t) /\ t = [i \in DOMAIN t |-> t[i]]
  BY LenProperties
<1> QED BY <1>1

\* One item more.
LEMMA OneMore ==
  ASSUME NEW S, NEW s \in Seq(S), NEW k \in Nat, k < Len(s)
  PROVE  SubSeq(s, 1, k + 1) = Append(SubSeq(s, 1, k), s[k + 1])
<1>1. Len(s) \in Nat /\ 1 \in Nat \ {0} /\ k + 1 \in Nat /\ k <= Len(s) /\ k + 1 <= Len(s)
      /\ 1 <= k + 1 /\ 1 <= k + 1 + 1 /\ k + 1 \in 1..Len(s)
  BY LenProperties
<1> DEFINE t == SubSeq(s, 1, k)
           u == SubSeq(s, 1, k + 1)
<1>2. /\ t \in Seq(S) /\ Len(t) = k + 1 - 1 /\ \A i \in 1..(k + 1 - 1) : t[i] = s[1 + i - 1]
  BY <1>1, SliceIs
<1>3. /\ u \in Seq(S) /\ Len(u) = k + 1 + 1 - 1
      /\ \A i \in 1..(k + 1 + 1 - 1) : u[i] = s[1 + i - 1]
  BY <1>1, SliceIs
<1> HIDE DEF t, u
<1>4. /\ Len(t) = k /\ \A i \in 1..k : t[i] = s[i]
      /\ Len(u) = k + 1 /\ \A i \in 1..(k + 1) : u[i] = s[i]
  BY <1>2, <1>3
<1>5. s[k + 1] \in S
  BY <1>1, ElementOfSeq
<1>6. /\ Append(t, s[k + 1]) \in Seq(S) /\ Len(Append(t, s[k + 1])) = Len(t) + 1
      /\ \A i \in 1..Len(t) : Append(t, s[k + 1])[i] = t[i]
      /\ Append(t, s[k + 1])[Len(t) + 1] = s[k + 1]
  BY <1>2, <1>5, Pushed
<1>7. ASSUME NEW i \in 1..Len(u) PROVE u[i] = Append(t, s[k + 1])[i]
  <2>1. CASE i = k + 1
    BY <2>1, <1>4, <1>6
  <2>2. CASE i \in 1..k
    BY <2>2, <1>4, <1>6
  <2> QED BY <2>1, <2>2, <1>4
<1>8. u = Append(t, s[k + 1])
  BY <1>3, <1>4, <1>6, <1>7, SeqEqual
<1> QED BY <1>8 DEF t, u

\* ben_list and ben_dict do what ben_enc_rec went through.
LEMMA BuiltGets ==
  ASSUME NEW fr \in EncFrame, More(fr)
  PROVE  Gets(Built(fr), Item(fr)) = Built(Through(fr))
<1> DEFINE B == Built(fr)
           n == Item(fr)
           E == Built(Through(fr))
           x == fr.v[fr.k + 1]
<1>1. n # << >>
  BY ItemIs, TreeIs
<1>2. /\ B.f = fr.f /\ B.v = SubSeq(fr.v, 1, fr.k)
      /\ B.key = IF fr.part = "value" THEN x[1] ELSE << >>
      /\ B = [f |-> B.f, v |-> B.v, key |-> B.key]
  BY DEF Built
<1>3. /\ E.f = Through(fr).f /\ E.v = SubSeq(Through(fr).v, 1, Through(fr).k)
      /\ E.key = IF Through(fr).part = "value"
                 THEN Through(fr).v[Through(fr).k + 1][1] ELSE << >>
      /\ E = [f |-> E.f, v |-> E.v, key |-> E.key]
  BY DEF Built
<1>4. n = IF fr.f # "d" THEN x ELSE IF fr.part = "key" THEN x[1] ELSE x[2]
  BY DEF Item
<1>5. /\ fr = [f |-> fr.f, v |-> fr.v, k |-> fr.k, part |-> fr.part]
      /\ fr.k \in Nat /\ fr.k < Len(fr.v)
      /\ \/ fr.f \in {"root", "l"} /\ fr.v \in Seq(Tree) /\ fr.part = "key"
         \/ fr.f = "d" /\ fr.v \in Seq(Str \X Tree) /\ fr.part \in {"key", "value"}
  BY DEF EncFrame, More
<1>6. Len(fr.v) \in Nat
  BY <1>5, LenProperties
<1>7. SubSeq(fr.v, 1, fr.k + 1) = Append(SubSeq(fr.v, 1, fr.k), x)
  BY <1>5, OneMore
<1>8. fr.f = "d" => x = <<x[1], x[2]>> /\ x[1] # << >>
  <2>1. SUFFICES ASSUME fr.f = "d" PROVE x = <<x[1], x[2]>> /\ x[1] # << >>
    OBVIOUS
  <2>2. fr.k + 1 \in 1..Len(fr.v)
    BY <1>5, <1>6
  <2>3. x \in Str \X Tree
    BY <2>1, <2>2, <1>5, ElementOfSeq
  <2> HIDE DEF x
  <2>4. x = <<x[1], x[2]>> /\ x[1] \in Tree
    BY <2>3 DEF Str
  <2> QED BY <2>4, TreeIs
<1>9. /\ Through(fr).f = fr.f /\ Through(fr).v = fr.v
      /\ fr.f = "d" /\ fr.part = "key" => Through(fr).k = fr.k /\ Through(fr).part = "value"
      /\ ~(fr.f = "d" /\ fr.part = "key") => Through(fr).k = fr.k + 1 /\ Through(fr).part = "key"
  BY <1>5 DEF Through
<1>10. /\ Gets(B, n).f = B.f
       /\ Gets(B, n) = [f |-> Gets(B, n).f, v |-> Gets(B, n).v, key |-> Gets(B, n).key]
       /\ B.f = "d" /\ B.key = << >> => Gets(B, n).key = n /\ Gets(B, n).v = B.v
       /\ B.f = "d" /\ B.key # << >> => /\ Gets(B, n).key = << >>
                                        /\ Gets(B, n).v = Append(B.v, <<B.key, n>>)
       /\ B.f # "d" => Gets(B, n).key = B.key /\ Gets(B, n).v = Append(B.v, n)
  BY <1>1, <1>2, GetsIs
<1>11. x = fr.v[fr.k + 1]
  OBVIOUS
<1> HIDE DEF B, n, E, x
<1>12. CASE fr.f # "d"
  <2>1. E.f = B.f /\ E.v = Append(B.v, n) /\ E.key = << >> /\ B.key = << >>
    BY <1>2, <1>3, <1>4, <1>5, <1>7, <1>9, <1>12
  <2>2. Gets(B, n).key = B.key /\ Gets(B, n).v = Append(B.v, n)
    BY <1>2, <1>10, <1>12
  <2> QED BY <2>1, <2>2, <1>3, <1>10 DEF B, n, E
<1>13. CASE fr.f = "d" /\ fr.part = "key"
  <2>1. E.f = B.f /\ E.v = B.v /\ E.key = n /\ B.key = << >>
    BY <1>2, <1>3, <1>4, <1>9, <1>11, <1>13
  <2>2. Gets(B, n).key = n /\ Gets(B, n).v = B.v
    BY <2>1, <1>2, <1>10, <1>13
  <2> QED BY <2>1, <2>2, <1>3, <1>10 DEF B, n, E
<1>14. CASE fr.f = "d" /\ fr.part = "value"
  <2>1. B.key = x[1] /\ n = x[2] /\ x = <<x[1], x[2]>> /\ x[1] # << >>
    BY <1>2, <1>4, <1>8, <1>14
  <2>2. Append(B.v, <<B.key, n>>) = Append(B.v, x)
    BY <2>1
  <2>3. E.f = B.f /\ E.v = Append(B.v, x) /\ E.key = << >>
    BY <1>2, <1>3, <1>7, <1>9, <1>14
  <2>4. Gets(B, n).key = << >> /\ Gets(B, n).v = Append(B.v, <<B.key, n>>)
    BY <2>1, <1>2, <1>10, <1>14
  <2> QED BY <2>2, <2>3, <2>4, <1>3, <1>10 DEF B, n, E
<1> QED BY <1>5, <1>12, <1>13, <1>14

\* As many values are under construction as calls were in progress.
LEMMA ValuesAre ==
  ASSUME NEW d, d \in Seq(EncFrame)
  PROVE  /\ Values(d) \in Seq(BuiltSet) /\ Len(Values(d)) = Len(d) /\ Len(d) \in Nat
         /\ \A i \in 1..Len(d) : Values(d)[i] = Built(d[i])
<1>1. PICK n \in Nat : n = Len(d)
  BY LenProperties
<1>2. \A i \in 1..n : d[i] \in EncFrame
  BY <1>1, ElementOfSeq
<1>3. Values(d) \in [1..n -> BuiltSet]
  BY <1>1, <1>2 DEF Values, BuiltSet
<1>4. Values(d) \in Seq(BuiltSet) /\ Len(Values(d)) = n
  BY <1>3, ASeq
<1> QED BY <1>1, <1>4 DEF Values

\* An item is read.
LEMMA ValuesBack ==
  ASSUME NEW d, Stack(d), More(Last(d))
  PROVE  GiveTo(Values(d), Item(Last(d))) = Values(Back(d))
<1> DEFINE o == Values(d)
           e == Back(d)
           n == Item(Last(d))
<1>1. /\ Len(d) \in Nat /\ Len(d) >= 1 /\ d \in Seq(EncFrame)
      /\ Last(d) = d[Len(d)] /\ Last(d) \in EncFrame
  BY StackIs
<1>2. /\ o \in Seq(BuiltSet) /\ Len(o) = Len(d)
      /\ \A i \in 1..Len(d) : o[i] = Built(d[i])
  BY <1>1, ValuesAre
<1>3. /\ Stack(e) /\ Len(e) = Len(d) /\ \A i \in 1..(Len(d) - 1) : e[i] = d[i]
      /\ e[Len(d)] = Through(Last(d))
  BY BackIs
<1>4. e \in Seq(EncFrame)
  BY <1>3, StackIs
<1>5. Gets(Built(Last(d)), n) = Built(Through(Last(d)))
  BY <1>1, BuiltGets
<1> HIDE DEF o, e, n
<1>6. /\ Values(e) \in Seq(BuiltSet) /\ Len(Values(e)) = Len(d)
      /\ \A i \in 1..Len(d) : Values(e)[i] = Built(e[i])
  BY <1>3, <1>4, ValuesAre
<1>7. o # << >>
  BY <1>1, <1>2
<1>8. /\ \E T : GiveTo(o, n) \in Seq(T)
      /\ Len(GiveTo(o, n)) = Len(o)
      /\ \A i \in 1..(Len(o) - 1) : GiveTo(o, n)[i] = o[i]
      /\ GiveTo(o, n)[Len(o)] = Gets(o[Len(o)], n)
  BY <1>2, <1>7, GiveToIs
<1>9. PICK T : GiveTo(o, n) \in Seq(T)
  BY <1>8
<1>10. ASSUME NEW i \in 1..Len(d) PROVE GiveTo(o, n)[i] = Values(e)[i]
  <2>1. CASE i = Len(d)
    <3>1. o[Len(d)] = Built(Last(d)) /\ Values(e)[i] = Built(Through(Last(d)))
      BY <2>1, <1>1, <1>2, <1>3, <1>6
    <3> QED BY <3>1, <2>1, <1>2, <1>5, <1>8
  <2>2. CASE i \in 1..(Len(d) - 1)
    BY <2>2, <1>2, <1>3, <1>6, <1>8
  <2> QED BY <2>1, <2>2, <1>1
<1>11. GiveTo(o, n) = Values(e)
  BY <1>2, <1>6, <1>8, <1>9, <1>10, SameSeq
<1> QED BY <1>11 DEF o, e, n

\* A list or a dictionary begins.
LEMMA ValuesPush ==
  ASSUME NEW d, Stack(d), More(Last(d)), Item(Last(d))[1] \in {"d", "l"}
  PROVE  Append(Values(d), New(Item(Last(d))[1])) = Values(Append(d, Frame(Item(Last(d)))))
<1> DEFINE n == Item(Last(d))
           e == Append(d, Frame(n))
           N == New(n[1])
<1>1. /\ Len(d) \in Nat /\ d \in Seq(EncFrame) /\ Last(d) \in EncFrame
  BY StackIs
<1>2. n \in Tree
  BY <1>1, ItemIs
<1>3. Frame(n) \in EncFrame
  BY <1>2, FrameIs
<1>4. Built(Frame(n)) = N
  <2>1. n[2] \in Seq(Tree) \/ n[2] \in Seq(Str \X Tree)
    BY <1>2, TreeIs
  <2>2. SubSeq(n[2], 1, 0) = << >>
    BY <2>1, SubSeqEmpty
  <2>3. Frame(n) = [f |-> n[1], v |-> n[2], k |-> 0, part |-> "key"]
    BY DEF Frame
  <2> QED BY <2>2, <2>3 DEF Built, New
<1> HIDE DEF n, N
<1>5. /\ e \in Seq(EncFrame) /\ Len(e) = Len(d) + 1
      /\ \A i \in 1..Len(d) : e[i] = d[i]
      /\ e[Len(d) + 1] = Frame(n)
  BY <1>1, <1>3, Pushed
<1> HIDE DEF e
<1>6. /\ Values(d) \in Seq(BuiltSet) /\ Len(Values(d)) = Len(d)
      /\ \A i \in 1..Len(d) : Values(d)[i] = Built(d[i])
  BY <1>1, ValuesAre
<1>7. /\ Values(e) \in Seq(BuiltSet) /\ Len(Values(e)) = Len(e)
      /\ \A i \in 1..Len(e) : Values(e)[i] = Built(e[i])
  BY <1>5, ValuesAre
<1>8. N \in BuiltSet
  BY <1>3, <1>4 DEF BuiltSet
<1>9. /\ Append(Values(d), N) \in Seq(BuiltSet) /\ Len(Append(Values(d), N)) = Len(d) + 1
      /\ \A i \in 1..Len(d) : Append(Values(d), N)[i] = Values(d)[i]
      /\ Append(Values(d), N)[Len(d) + 1] = N
  BY <1>6, <1>8, Pushed
<1>10. ASSUME NEW i \in 1..(Len(d) + 1) PROVE Append(Values(d), N)[i] = Values(e)[i]
  <2>1. CASE i = Len(d) + 1
    <3>1. Values(e)[i] = Built(Frame(n))
      BY <2>1, <1>1, <1>5, <1>7
    <3> QED BY <3>1, <2>1, <1>4, <1>6, <1>9
  <2>2. CASE i \in 1..Len(d)
    BY <2>2, <1>1, <1>5, <1>6, <1>7, <1>9
  <2>3. \A x \in Nat : \A j \in 1..(x + 1) : j = x + 1 \/ j \in 1..x
    OBVIOUS
  <2>4. i = Len(d) + 1 \/ i \in 1..Len(d)
    BY <2>3, <1>1
  <2> QED BY <2>1, <2>2, <2>4
<1>11. Append(Values(d), N) = Values(e)
  BY <1>5, <1>7, <1>9, <1>10, SeqEqual
<1> QED BY <1>11 DEF n, N, e

\* A list or a dictionary ends.
LEMMA ValuesEnd ==
  ASSUME NEW d, Stack(d), ~More(Last(d)), Len(d) > 1
  PROVE  GiveTo(Front(Values(d)), <<Last(Values(d)).f, Last(Values(d)).v>>) = Values(Back(Front(d)))
<1> DEFINE e == Front(d)
           o == Values(d)
<1>1. /\ Len(d) \in Nat /\ Len(d) >= 1 /\ d \in Seq(EncFrame)
      /\ Last(d) = d[Len(d)] /\ Last(d) \in EncFrame
      /\ e \in Seq(EncFrame) /\ Len(e) = Len(d) - 1
      /\ \A i \in 1..(Len(d) - 1) : e[i] = d[i]
  BY StackIs
<1>2. Stack(e) /\ More(Last(e)) /\ Item(Last(e)) = <<Last(d).f, Last(d).v>>
  BY FrontIs
<1>3. GiveTo(Values(e), Item(Last(e))) = Values(Back(e))
  BY <1>2, ValuesBack
<1> HIDE DEF e
<1>4. /\ o \in Seq(BuiltSet) /\ Len(o) = Len(d)
      /\ \A i \in 1..Len(d) : o[i] = Built(d[i])
  BY <1>1, ValuesAre
<1>5. /\ Values(e) \in Seq(BuiltSet) /\ Len(Values(e)) = Len(d) - 1
      /\ \A i \in 1..(Len(d) - 1) : Values(e)[i] = Built(e[i])
  BY <1>1, ValuesAre
<1> HIDE DEF o
<1>6. o # << >>
  BY <1>1, <1>4
<1>7. /\ Front(o) \in Seq(BuiltSet) /\ Len(Front(o)) = Len(o) - 1
      /\ \A i \in 1..(Len(o) - 1) : Front(o)[i] = o[i]
  BY <1>4, <1>6, Popped
<1>8. Front(o) = Values(e)
  <2>1. \A i \in 1..(Len(d) - 1) : Front(o)[i] = Values(e)[i]
    BY <1>1, <1>4, <1>5, <1>7
  <2> QED BY <2>1, <1>1, <1>4, <1>5, <1>7, SeqEqual
<1>9. Last(o) = Built(Last(d))
  BY <1>1, <1>4 DEF Last
<1>10. SubSeq(Last(d).v, 1, Last(d).k) = Last(d).v
  <2>1. /\ Last(d).k \in Nat /\ Last(d).k <= Len(Last(d).v)
        /\ Last(d).v \in Seq(Tree) \/ Last(d).v \in Seq(Str \X Tree)
    BY <1>1 DEF EncFrame
  <2>2. Len(Last(d).v) \in Nat
    BY <2>1, LenProperties
  <2>3. Last(d).k = Len(Last(d).v)
    BY <2>1, <2>2 DEF More
  <2> QED BY <2>1, <2>3, SubSeqFull
<1>11. Last(o).f = Last(d).f /\ Last(o).v = Last(d).v
  BY <1>9, <1>10 DEF Built
<1>12. GiveTo(Front(o), <<Last(o).f, Last(o).v>>) = Values(Back(e))
  BY <1>2, <1>3, <1>8, <1>11
<1> QED BY <1>12 DEF o, e
\* ben_dec makes of a step what ben_enc_rec has made the code from.
LEMMA DecodeValues ==
  ASSUME NEW m, NEW g, MarkOK(m), MarkStep(m, g), raw \in Seq(Octet), Written(raw, m),
         open = Values(m.doing), DecodesTo(HeadAt(m), HeadAt(g))
  PROVE  open' = Values(g.doing)
<1> DEFINE d == m.doing
           a == Place(m)
           C == StepCode(d)
           n == Item(Last(d))
           h == HeadAt(m)
           f == HeadAt(g)
<1>1. /\ Stack(d) /\ a \in Nat /\ h \in Head_ /\ h.at = a /\ Last(d) \in EncFrame
      /\ MarkOK(g) /\ f \in Head_
      /\ C \in Seq(Octet) /\ Len(C) \in Nat \ {0} /\ a + Len(C) <= Len(raw)
      /\ \A i \in 1..Len(C) : raw[a + i] = C[i]
  <2>1. Stack(d) /\ a \in Nat
    BY DEF MarkOK
  <2> QED BY <2>1, StepIs, StackIs, HeadAtIs DEF Written
<1>2. raw[a + 1] = C[1]
  <2>1. 1 \in 1..Len(C)
    BY <1>1
  <2> QED BY <2>1, <1>1
<1>3. /\ Begins(raw, h, f) => raw[a + 1] \in {"d", "l"}
      /\ Ends(raw, h, f) => raw[a + 1] = "e"
      /\ \A c \in Digit : c \notin {"d", "l"} /\ c # "e" /\ c # "i"
  BY <1>1, FirstByte
<1>4. \A k, l \in Nat : StringAt(raw, a, k, l) => raw[a + 1] \in Digit
  BY DEF StringAt
<1>5. \A k, l \in Nat : NumberAt(raw, a, k, l) => raw[a + 1] = "i"
  BY DEF NumberAt
<1>6. \/ Begins(raw, h, f) /\ open' = Append(open, New(raw[a + 1]))
      \/ Ends(raw, h, f) /\ open' = GiveTo(Front(open), <<Last(open).f, Last(open).v>>)
      \/ \E k, l \in Nat : StringAt(raw, a, k, l) /\ open' = GiveTo(open, StrVal(raw, a, k, l))
      \/ \E k, l \in Nat : NumberAt(raw, a, k, l) /\ open' = GiveTo(open, IntVal(raw, a, k, l))
  BY <1>1 DEF DecodesTo, Top
<1>7. CASE LeafStep(d, g.doing)
  <2>1. More(Last(d)) /\ n[1] \in {"s", "i"} /\ g.doing = Back(d)
    BY <1>7 DEF LeafStep
  <2>2. n \in Tree /\ C = Code(n)
    BY <2>1, <1>1, ItemIs DEF StepCode
  <2>3. GiveTo(open, n) = Values(g.doing)
    BY <2>1, <1>1, ValuesBack
  <2> HIDE DEF n, C, a, h, f, d
  <2>4. a + Len(Code(n)) <= Len(raw) /\ \A i \in 1..Len(Code(n)) : raw[a + i] = Code(n)[i]
    BY <2>2, <1>1
  <2>5. CASE n[1] = "s"
    <3>1. n \in Tree /\ a \in Nat /\ raw \in Seq(Octet)
      BY <2>2, <1>1
    <3>2. PICK k, l \in Nat : /\ StringAt(raw, a, k, l) /\ a + k + 1 + l = a + Len(Code(n))
                             /\ StrVal(raw, a, k, l) = n
      BY <3>1, <2>5, <2>4, StringRead
    <3>3. raw[a + 1] \in Digit
      BY <3>2, <1>4
    <3>4. PICK i, j \in Nat : StringAt(raw, a, i, j) /\ open' = GiveTo(open, StrVal(raw, a, i, j))
      BY <3>3, <1>3, <1>5, <1>6
    <3>5. i = k /\ j = l
      BY <3>2, <3>4, <1>1, StringOnce
    <3> QED BY <3>2, <3>4, <3>5, <2>3
  <2>6. CASE n[1] = "i"
    <3>1. n \in Tree /\ a \in Nat /\ raw \in Seq(Octet)
      BY <2>2, <1>1
    <3>2. PICK k, l \in Nat : /\ NumberAt(raw, a, k, l) /\ a + k + l + 2 = a + Len(Code(n))
                             /\ IntVal(raw, a, k, l) = n
      BY <3>1, <2>6, <2>4, NumberRead
    <3>3. raw[a + 1] = "i"
      BY <3>2, <1>5
    <3>4. "i" \notin {"d", "l"} /\ "i" # "e" /\ "i" \notin Digit
      BY <1>3
    <3>5. PICK i, j \in Nat : NumberAt(raw, a, i, j) /\ open' = GiveTo(open, IntVal(raw, a, i, j))
      BY <3>3, <3>4, <1>3, <1>4, <1>6
    <3>6. i = k /\ j = l
      BY <3>2, <3>5, <1>1, NumberOnce
    <3> QED BY <3>2, <3>5, <3>6, <2>3
  <2> QED BY <2>1, <2>5, <2>6
<1>8. CASE BeginStep(d, g.doing)
  <2>1. More(Last(d)) /\ n[1] \in {"d", "l"} /\ g.doing = Append(d, Frame(n))
    BY <1>8 DEF BeginStep
  <2>2. C = <<n[1]>>
    BY <2>1 DEF StepCode
  <2>3. raw[a + 1] = n[1]
    BY <2>2, <1>2
  <2>4. Append(open, New(n[1])) = Values(g.doing)
    BY <2>1, <1>1, ValuesPush
  <2> HIDE DEF n, C, a, h, f, d
  <2>5. raw[a + 1] # "e" /\ raw[a + 1] # "i" /\ raw[a + 1] \notin Digit
    BY <2>1, <2>3, <1>3
  <2>6. open' = Append(open, New(raw[a + 1]))
    BY <2>5, <1>3, <1>4, <1>5, <1>6
  <2> QED BY <2>3, <2>4, <2>6
<1>9. CASE EndStep(d, g.doing)
  <2>1. ~More(Last(d)) /\ Len(d) > 1 /\ g.doing = Back(Front(d))
    BY <1>9 DEF EndStep
  <2>2. C = <<"e">>
    BY <2>1 DEF StepCode
  <2>3. raw[a + 1] = "e"
    BY <2>2, <1>2
  <2>4. GiveTo(Front(open), <<Last(open).f, Last(open).v>>) = Values(g.doing)
    BY <2>1, <1>1, ValuesEnd
  <2> HIDE DEF n, C, a, h, f, d
  <2>5. raw[a + 1] \notin {"d", "l"} /\ raw[a + 1] # "i" /\ raw[a + 1] \notin Digit
    BY <2>3, <1>3
  <2>6. open' = GiveTo(Front(open), <<Last(open).f, Last(open).v>>)
    BY <2>5, <1>3, <1>4, <1>5, <1>6
  <2> QED BY <2>4, <2>6
<1> QED BY <1>7, <1>8, <1>9 DEF MarkStep

\* The packet is over behind the last step of ben_enc_rec, and not before.
LEMMA LastMark ==
  ASSUME Sized, result # "sizing", NEW k \in 1..Len(marks)
  PROVE  HeadAt(marks[k]).calls = << >> <=> k = Len(marks)
<1>1. /\ Len(marks) \in Nat /\ Last(marks) = marks[Len(marks)]
      /\ MarkOK(marks[k]) /\ Stack(marks[k].doing)
  BY MarksAre DEF MarkOK
<1>2. HeadAt(marks[k]).calls = << >> <=> Done(marks[k].doing)
  BY <1>1, HeadAtIs, CallsOfIs
<1>3. k = Len(marks) => Done(marks[k].doing)
  BY <1>1 DEF Sized
<1>4. ASSUME k # Len(marks) PROVE ~Done(marks[k].doing)
  <2>1. k \in 1..(Len(marks) - 1)
    BY <1>1, <1>4
  <2>2. MarkStep(marks[k], marks[k + 1])
    BY <2>1 DEF Sized
  <2>3. More(Last(marks[k].doing)) \/ Len(marks[k].doing) > 1
    BY <2>2 DEF MarkStep, LeafStep, BeginStep, EndStep
  <2>4. ~(1 > 1)
    OBVIOUS
  <2> QED BY <2>3, <2>4 DEF Done
<1> QED BY <1>2, <1>3, <1>4

\* ben_validate has read all of it.
LEMMA AllRead ==
  ASSUME BencodeIInv, BufferOK, value # << >>, result \in Behind, Reads
  PROVE  raw = sent /\ Len(heads) = Len(marks)
<1> DEFINE k == Len(heads)
<1>1. Sized /\ Upto(Len(marks)) /\ Len(marks) \in Nat /\ result # "sizing"
  BY MarksAre DEF BufferOK, Filled, Behind
<1>2. Hd = heads[k] /\ k \in Nat /\ k >= 1 /\ sent \in Seq(Octet) /\ raw \in Seq(Octet)
      /\ Len(raw) \in Nat
  BY HdIs, LenProperties DEF BencodeIInv, PacketTypeOK
<1>3. k \in 1..Len(marks) /\ Hd = HeadAt(marks[k]) /\ Hd.calls = << >> /\ Hd.at = Len(raw)
  <2>1. k \in 1..Len(marks) /\ k \in 1..Len(heads)
    BY <1>1, <1>2 DEF Reads
  <2> QED BY <2>1, <1>2 DEF Reads, Complete
<1>4. k = Len(marks)
  BY <1>1, <1>3, LastMark
<1>5. Hd.at = Place(marks[k])
  BY <1>3 DEF HeadAt
<1>6. Len(raw) = Len(sent)
  BY <1>1, <1>3, <1>4, <1>5 DEF Upto
<1>7. raw = sent
  BY <1>2, <1>6, SeqEqual DEF Reads, Extends
<1> QED BY <1>4, <1>7
\* ben_dec has put together what ben_enc_rec had been through, when it was there.
DecodedOK ==
  value # << >> /\ result \in Behind =>
    \E k \in 1..Len(marks) :
      /\ p = HeadAt(marks[k]).at /\ Follows(open, HeadAt(marks[k]).calls)
      /\ open = Values(marks[k].doing)
      /\ result # "lost" /\ (result = "decoded" <=> k = Len(marks))

\* ben_validate ends where ben_dec begins.
LEMMA DecodedBegin ==
  ASSUME BencodeIInv, BufferOK, value # << >>, Reads, result = "running", result' = "valid",
         marks' = marks, p' = p, open' = open
  PROVE  DecodedOK'
<1>1. p = 0 /\ open = <<New("root")>> /\ PacketTypeOK
  BY DEF BencodeIInv, Decoding, Behind
<1>2. Sized /\ Len(marks) \in Nat /\ 1 \in 1..Len(marks) /\ MarkOK(marks[1]) /\ result # "sizing"
  BY MarksAre DEF BufferOK
<1>3. HeadAt(marks[1]) = FirstHead
  <2>1. 1 \in 1..Len(heads) /\ heads[1] = FirstHead
    BY HdIs DEF BencodeIInv, HeadsOK
  <2> QED BY <2>1 DEF Reads
<1>4. 1 # Len(marks)
  <2>1. FirstHead.calls = <<"r">> /\ <<"r">> # << >>
    BY DEF FirstHead
  <2> QED BY <2>1, <1>2, <1>3, LastMark
<1>5. Values(marks[1].doing) = <<New("root")>>
  <2> DEFINE d == <<Caller>>
  <2>1. marks[1].doing = d /\ Stack(marks[1].doing)
    BY <1>2 DEF Sized, MarkOK
  <2>2. d \in Seq(EncFrame)
    BY <2>1, StackIs
  <2>3. Len(d) = 1 /\ d[1] = Caller /\ 1 \in 1..Len(d)
    OBVIOUS
  <2>4. Built(Caller) = New("root")
    <3>1. Caller = [f |-> "root", v |-> <<value>>, k |-> 0, part |-> "key"]
      BY DEF Caller, Frame
    <3>2. SubSeq(<<value>>, 1, 0) = << >>
      BY SubSeqEmpty
    <3> QED BY <3>1, <3>2 DEF Built, New
  <2> HIDE DEF d
  <2>5. Values(d) \in Seq(BuiltSet) /\ Len(Values(d)) = 1 /\ Values(d)[1] = New("root")
    BY <2>2, <2>3, <2>4, ValuesAre
  <2>6. <<New("root")>> \in Seq({New("root")}) /\ Len(<<New("root")>>) = 1
        /\ <<New("root")>>[1] = New("root")
    OBVIOUS
  <2>7. \A i \in 1..1 : i = 1
    OBVIOUS
  <2>8. \A i \in 1..Len(Values(d)) : Values(d)[i] = <<New("root")>>[i]
    BY <2>5, <2>6, <2>7
  <2>9. Values(d) = <<New("root")>>
    BY <2>5, <2>6, <2>8, SameSeq
  <2> QED BY <2>1, <2>9
<1>6. FirstHead.at = 0 /\ FirstHead.calls = <<"r">>
  BY DEF FirstHead
<1>7. HeadAt(marks[1])' = HeadAt(marks[1])
  BY DEF HeadAt, Place, CallsOf, Names, Room, More
<1>8. Values(marks[1].doing)' = Values(marks[1].doing)
  BY DEF Values, Built
<1>9. /\ p' = HeadAt(marks[1])'.at /\ open' = Values(marks[1].doing)'
      /\ Follows(open', HeadAt(marks[1])'.calls)
  BY <1>1, <1>3, <1>5, <1>6, <1>7, <1>8, FirstFollows
<1>10. result' # "decoded" /\ result' # "lost" /\ 1 # Len(marks') /\ 1 \in 1..Len(marks')
  BY <1>2, <1>4
<1> QED BY <1>9, <1>10 DEF DecodedOK, Follows, Waits, Base

\* A step of ben_dec.
LEMMA DecodedOn ==
  ASSUME BencodeIInv, BufferOK, value # << >>, Reads, DecodedOK, ben_dec
  PROVE  Reads' /\ DecodedOK'
<1>1. /\ result = "valid" /\ result \in Behind /\ value' = value /\ marks' = marks /\ sent' = sent
      /\ raw' = raw /\ heads' = heads
  BY DEF ben_dec, encvars, valvars, Behind
<1>2. result' \in Behind /\ result' # "broken" /\ result' # "running"
  BY DecodeResults DEF Behind
<1>3. raw = sent /\ Len(heads) = Len(marks)
  BY <1>1, AllRead
<1>4. /\ Sized /\ Upto(Len(marks)) /\ Len(marks) \in Nat /\ result # "sizing"
      /\ \A j \in 1..Len(marks) : MarkOK(marks[j])
      /\ raw \in Seq(Octet)
  BY <1>1, MarksAre DEF BufferOK, Filled, BencodeIInv, PacketTypeOK
<1>5. \A j \in 1..Len(marks) : HeadAt(marks[j])' = HeadAt(marks[j])
  BY <1>1 DEF HeadAt, Place, CallsOf, Names, Room, More
<1>6. Reads'
  <2>1. Complete /\ Complete' = Complete
    BY <1>1 DEF Reads, Complete, Hd
  <2> QED BY <2>1, <1>1, <1>2, <1>3, <1>5 DEF Reads
<1>7. PICK k \in 1..Len(marks) :
        /\ p = HeadAt(marks[k]).at /\ Follows(open, HeadAt(marks[k]).calls)
        /\ open = Values(marks[k].doing)
        /\ result = "decoded" <=> k = Len(marks)
  BY <1>1 DEF DecodedOK
<1> DEFINE h == HeadAt(marks[k])
           g == HeadAt(marks[k + 1])
<1>8. k # Len(marks)
  BY <1>1, <1>7
<1>9. k \in 1..(Len(marks) - 1) /\ k + 1 \in 1..Len(marks)
  BY <1>4, <1>8
<1>10. MarkOK(marks[k]) /\ MarkStep(marks[k], marks[k + 1]) /\ Written(raw, marks[k])
  BY <1>3, <1>4, <1>9 DEF Sized, Upto
<1>11. Token(raw, h, g) /\ h \in Head_ /\ g \in Head_
  <2>1. Token(raw, h, g) /\ MarkOK(marks[k + 1])
    BY <1>4, <1>10, MarkToken
  <2> QED BY <2>1, <1>10, HeadAtIs
<1>12. Neat(h.calls)
  <2>1. k \in 1..Len(heads) /\ heads[k] = h
    BY <1>3, <1>4 DEF Reads
  <2> QED BY <2>1 DEF BencodeIInv, HeadsOK
<1>13. p' = g.at /\ DecodesTo(h, g)
  BY <1>4, <1>7, <1>11, <1>12, DecodeStep
<1>14. Follows(open', g.calls) /\ result' = IF g.calls = << >> THEN "decoded" ELSE "valid"
  BY <1>4, <1>7, <1>11, <1>12, <1>13, DecodeFollows
<1>15. open' = Values(marks[k + 1].doing)
  BY <1>4, <1>7, <1>10, <1>13, DecodeValues
<1>16. g.calls = << >> <=> k + 1 = Len(marks)
  BY <1>4, <1>9, LastMark
<1>17. Values(marks[k + 1].doing)' = Values(marks[k + 1].doing) /\ g' = g
  BY <1>1, <1>5, <1>9 DEF Values, Built
<1>18. DecodedOK'
  <2> DEFINE j == k + 1
  <2>1. j \in 1..Len(marks') /\ result' # "lost" /\ (result' = "decoded" <=> j = Len(marks'))
    BY <1>1, <1>9, <1>14, <1>16
  <2>2. p' = HeadAt(marks[j])'.at /\ open' = Values(marks[j].doing)'
        /\ Follows(open', HeadAt(marks[j])'.calls)
    BY <1>13, <1>14, <1>15, <1>17
  <2> HIDE DEF j
  <2> QED BY <2>1, <2>2 DEF DecodedOK, Follows, Waits, Base
<1> QED BY <1>6, <1>18
\* The inductive invariant of EncodedIsUnderstood.
UnderstoodIInv == BencodeIInv /\ BufferOK /\ ReceivedOK /\ DecodedOK

\* Nothing has been received in the first states.
LEMMA UnderstoodInit ==
  ASSUME Init
  PROVE  ReceivedOK /\ DecodedOK
BY DEF Init, ReceivedOK, DecodedOK, Early, Behind

\* A step of any of the functions.
LEMMA UnderstoodStep ==
  ASSUME UnderstoodIInv, [Next]_vars
  PROVE  UnderstoodIInv'
<1>1. BencodeIInv /\ BufferOK /\ ReceivedOK /\ DecodedOK
  BY DEF UnderstoodIInv
<1>2. BencodeIInv' /\ BufferOK'
  BY <1>1, BencodeStep, BufferStep
<1>3. value' = value
  BY DEF Next, Encode, ben_enc, ben_validate, ben_dec, vars, encvars
<1>4. SUFFICES ASSUME value # << >> PROVE ReceivedOK' /\ DecodedOK'
  BY <1>1, <1>2, <1>3 DEF UnderstoodIInv, ReceivedOK, DecodedOK
<1>5. CASE Encode
  <2>1. result \in Early /\ result' \notin Behind
    BY <1>5 DEF Encode, ben_enc, Early, Behind
  <2>2. result' \notin Early => Reads'
    BY <1>1, <1>2, <1>4, <1>5, <2>1, ReadsBegin
  <2> QED BY <2>1, <2>2 DEF ReceivedOK, DecodedOK
<1>6. CASE ben_validate
  <2>1. result = "running" /\ marks' = marks /\ p' = p /\ open' = open
    BY <1>6 DEF ben_validate, encvars, decvars
  <2>2. Reads
    BY <1>1, <1>4, <2>1 DEF ReceivedOK, Early
  <2>3. Reads' /\ result' \in {"running", "valid"}
    BY <1>1, <1>4, <1>6, <2>2, ReadsOn
  <2>4. result' = "valid" => DecodedOK'
    BY <1>1, <1>4, <2>1, <2>2, DecodedBegin
  <2>5. result' \in Behind => result' = "valid"
    BY <2>3 DEF Behind
  <2> QED BY <2>3, <2>4, <2>5 DEF ReceivedOK, DecodedOK
<1>7. CASE ben_dec
  <2>1. result = "valid"
    BY <1>7 DEF ben_dec
  <2>2. Reads
    BY <1>1, <1>4, <2>1 DEF ReceivedOK, Early
  <2> QED BY <1>1, <1>4, <1>7, <2>2, DecodedOn DEF ReceivedOK
<1>8. CASE UNCHANGED vars
  <2>1. /\ result' = result /\ raw' = raw /\ sent' = sent /\ heads' = heads /\ marks' = marks
        /\ p' = p /\ open' = open
    BY <1>8 DEF vars, encvars, valvars, decvars
  <2>2. \A j \in 1..Len(marks) : HeadAt(marks[j])' = HeadAt(marks[j])
    BY <2>1 DEF HeadAt, Place, CallsOf, Names, Room, More
  <2>3. \A j \in 1..Len(marks) : Values(marks[j].doing)' = Values(marks[j].doing)
    BY <2>1 DEF Values, Built
  <2>4. ReceivedOK'
    <3>1. ASSUME result \notin Early PROVE Reads'
      <4>1. Reads
        BY <1>1, <1>4, <3>1 DEF ReceivedOK
      <4>2. Complete' = Complete
        BY <2>1 DEF Complete, Hd
      <4>3. \A j \in 1..Len(heads) : heads[j] = HeadAt(marks[j])
        BY <4>1 DEF Reads
      <4>4. \A j \in 1..Len(heads) : j \in 1..Len(marks)
        <5>1. Len(heads) \in Nat /\ Len(marks) \in Nat
          BY <1>1, <1>4, HdIs, MarksAre DEF BencodeIInv, BufferOK
        <5>2. Len(heads) <= Len(marks)
          BY <4>1 DEF Reads
        <5> QED BY <5>1, <5>2
      <4>5. \A j \in 1..Len(heads') : heads'[j] = HeadAt(marks[j])'
        BY <4>3, <4>4, <2>1, <2>2
      <4> QED BY <4>1, <4>2, <4>5, <2>1 DEF Reads
    <3> QED BY <3>1, <2>1 DEF ReceivedOK
  <2>5. DecodedOK'
    <3>1. SUFFICES ASSUME result \in Behind PROVE DecodedOK'
      BY <2>1 DEF DecodedOK
    <3>2. PICK k \in 1..Len(marks) :
            /\ p = HeadAt(marks[k]).at /\ Follows(open, HeadAt(marks[k]).calls)
            /\ open = Values(marks[k].doing)
            /\ result # "lost" /\ (result = "decoded" <=> k = Len(marks))
      BY <1>1, <1>4, <3>1 DEF DecodedOK
    <3>3. /\ k \in 1..Len(marks')
          /\ p' = HeadAt(marks[k])'.at /\ Follows(open', HeadAt(marks[k])'.calls)
          /\ open' = Values(marks[k].doing)'
          /\ result' # "lost" /\ (result' = "decoded" <=> k = Len(marks'))
      BY <2>1, <2>2, <2>3, <3>2
    <3> QED BY <3>3 DEF DecodedOK, Follows, Waits, Base
  <2> QED BY <2>4, <2>5
<1> QED BY <1>5, <1>6, <1>7, <1>8 DEF Next

\* What ben_dec has in the end.
LEMMA IInvUnderstood ==
  ASSUME UnderstoodIInv
  PROVE  Understood
<1>1. BencodeIInv /\ BufferOK /\ ReceivedOK /\ DecodedOK
  BY DEF UnderstoodIInv
<1>2. SUFFICES ASSUME value # << >>
               PROVE  /\ result # "broken" /\ result # "lost"
                      /\ result = "decoded" => open[1].v = <<value>>
  BY DEF Understood
<1>3. result # "broken"
  BY <1>1, <1>2 DEF ReceivedOK, Reads, Early
<1>4. result # "lost"
  BY <1>1, <1>2 DEF DecodedOK, Behind
<1>5. ASSUME result = "decoded" PROVE open[1].v = <<value>>
  <2>1. PICK k \in 1..Len(marks) : open = Values(marks[k].doing) /\ k = Len(marks)
    BY <1>1, <1>2, <1>5 DEF DecodedOK, Behind
  <2> DEFINE d == marks[k].doing
  <2>2. Sized /\ result # "sizing" /\ MarkOK(marks[k]) /\ Last(marks) = marks[k]
    BY <1>1, <1>2, <1>5, <2>1, MarksAre DEF BufferOK
  <2>3. Done(d) /\ Stack(d)
    BY <2>2 DEF Sized, MarkOK
  <2> HIDE DEF d
  <2>4. /\ Len(d) = 1 /\ d \in Seq(EncFrame) /\ Last(d) = d[Len(d)] /\ Last(d) \in EncFrame
        /\ ~More(Last(d)) /\ d[1].v = <<value>>
    BY <2>3, StackIs DEF Done, Stack
  <2>5. d[1] = Last(d) /\ 1 \in 1..Len(d)
    BY <2>4
  <2>6. open[1] = Built(d[1])
    BY <2>1, <2>4, <2>5, ValuesAre DEF d
  <2>7. d[1].k = 1
    <3>1. d[1].k \in Nat /\ d[1].k <= Len(<<value>>) /\ ~(d[1].k < Len(<<value>>))
      BY <2>4, <2>5 DEF EncFrame, More
    <3>2. Len(<<value>>) = 1
      OBVIOUS
    <3> QED BY <3>1, <3>2
  <2>8. SubSeq(<<value>>, 1, 1) = <<value>>
    <3>1. <<value>> \in Seq({value}) /\ Len(<<value>>) = 1
      OBVIOUS
    <3>2. SubSeq(<<value>>, 1, Len(<<value>>)) = <<value>>
      BY <3>1, SubSeqFull
    <3> QED BY <3>1, <3>2
  <2>9. open[1].v = SubSeq(d[1].v, 1, d[1].k)
    <3>1. \A fr : Built(fr).v = SubSeq(fr.v, 1, fr.k)
      BY DEF Built
    <3> QED BY <2>6, <3>1
  <2> QED BY <2>4, <2>7, <2>8, <2>9
<1> QED BY <1>3, <1>4, <1>5

\* ben_validate accepts what ben_enc makes of a value, and ben_dec makes this value of it again,
\* whatever the value is.
THEOREM EncodedIsUnderstood == Spec => []Understood
<1>1. Init => UnderstoodIInv
  <2>1. SUFFICES ASSUME Init PROVE UnderstoodIInv
    OBVIOUS
  <2>2. BencodeIInv /\ (value # << >> => Sized /\ Filled)
    BY <2>1, BencodeInit, BufferInit
  <2> QED BY <2>1, <2>2, UnderstoodInit DEF UnderstoodIInv, BufferOK
<1>2. UnderstoodIInv /\ [Next]_vars => UnderstoodIInv'
  BY UnderstoodStep
<1>3. UnderstoodIInv => Understood
  BY IInvUnderstood
<1> QED BY <1>1, <1>2, <1>3, PTL DEF Spec
=============================================================================
