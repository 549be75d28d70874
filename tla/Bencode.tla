------------------------------ MODULE Bencode ------------------------------
(***************************************************************************)
(* ben.c. ben_enc walks over a value twice, to add up the size of its code *)
(* and to write it.  A packet is a sequence of bytes that arrives in one   *)
(* piece, size bytes long: the code of a value, or anything else.          *)
(* ben_validate walks over it; here a byte is chosen when the walk reads   *)
(* it, so raw holds the bytes up to raw->p, and calls the functions that   *)
(* are in progress, the innermost one last: "r" is ben_validate_r before   *)
(* it has read, "d", "l", "s" and "i" are the functions of these names.    *)
(* num is the digits which "s" or "i" has read.  ben_dec walks over the    *)
(* packet again.  A value is <<type, contents>>; the contents of a         *)
(* dictionary are its tuples.                                              *)
(***************************************************************************)
EXTENDS Integers, Sequences, SequencesExt

CONSTANTS
  Byte,        \* the bytes a packet is made of, outside of strings
  Payload,     \* the bytes in strings
  Tree,        \* the values that nodes encode, and what they consist of
  MaxSize,     \* bound: the longest packet
  StrMaxLen, StrMaxSize,   \* BEN_STR_MAXLEN, BEN_STR_MAXSIZE
  IntMaxLen, IntMaxSize    \* BEN_INT_MAXLEN, BEN_INT_MAXSIZE = LONG_MAX

----------------------------------------------------------------------------
(* Numbers. atol stops at LONG_MAX. *)

Digits == <<"0", "1", "2", "3", "4", "5", "6", "7", "8", "9">>
Digit  == ToSet(Digits)
DigitValue == [c \in Digit |-> CHOOSE k \in 0..9 : Digits[k + 1] = c]
atol(ds) == LET More(n, c) == LET m == 10 * n + DigitValue[c]
                              IN  IF m > IntMaxSize THEN IntMaxSize ELSE m
            IN  FoldLeft(More, 0, ds)

\* What is printed for n: the digits that atol reads as n, no "0" in front.
Prints(ds, n) == ds # << >> /\ atol(ds) = n /\ (ds[1] = "0" => Len(ds) = 1)
Decimal == [n \in 0..IntMaxSize |->
              CHOOSE ds \in BoundedSeq(Digit, IntMaxLen) : Prints(ds, n)]


IsStr(t) == t[1] = "s" /\ t[2] \in Seq(Payload) /\ Len(t[2]) \in 1..StrMaxSize

\* The digits of a number that may be sent are not too many, and a value
\* consists of values.
ASSUME BencodeAssumption ==
  /\ {MaxSize, StrMaxLen, StrMaxSize, IntMaxLen, IntMaxSize} \subseteq Nat \ {0}
  /\ StrMaxSize <= IntMaxSize
  /\ \A n \in 0..IntMaxSize : \E ds \in BoundedSeq(Digit, IntMaxLen) : Prints(ds, n)
  /\ \A n \in 1..StrMaxSize : Len(Decimal[n]) <= StrMaxLen
  /\ \A t \in Tree :
       /\ t = <<t[1], t[2]>>
       /\ \/ IsStr(t)
          \/ t[1] = "i" /\ t[2] \in (-IntMaxSize)..IntMaxSize
          \/ t[1] = "l" /\ t[2] \in Seq(Tree)
          \/ t[1] = "d" /\ t[2] \in Seq({s \in Tree : IsStr(s)} \X Tree)

VARIABLES
  value,   \* what a node encodes; nothing for a packet that comes from elsewhere
  doing,   \* the calls of ben_enc_size or ben_enc_rec
  alloc,   \* what ben_enc_size has counted
  sent,    \* raw->code of ben_enc
  marks,   \* history: the steps of ben_enc_size
  raw, size, calls, num,   \* ben_validate
  heads,   \* history: where ben_validate began to read something
  p, open, \* ben_dec: bytes read, and the values that are under construction
  result

encvars == <<value, doing, alloc, sent, marks>>
valvars == <<raw, calls, num, heads>>
decvars == <<p, open>>
vars == <<encvars, valvars, decvars, size, result>>

----------------------------------------------------------------------------
(* ben_enc. ben_enc_size and ben_enc_rec go through a value in the same     *)
(* way. A call for a list or a dictionary has been through k of its items;  *)
(* part: what is next of a tuple. The caller of the first call has one item,*)
(* the value. *)

Frame(n) == [f |-> n[1], v |-> n[2], k |-> 0, part |-> "key"]
Caller == Frame(<<"root", <<value>>>>)

More(fr) == fr.k < Len(fr.v)
Item(fr) == LET x == fr.v[fr.k + 1]
            IN  IF fr.f # "d" THEN x ELSE IF fr.part = "key" THEN x[1] ELSE x[2]
Through(fr) == IF fr.f = "d" /\ fr.part = "key"
               THEN [fr EXCEPT !.part = "value"]
               ELSE [fr EXCEPT !.k = @ + 1, !.part = "key"]
Back(frames) == Append(Front(frames), Through(Last(frames)))

Printed(n) == IF n < 0 THEN <<"-">> \o Decimal[-n] ELSE Decimal[n]
Code(n) == IF n[1] = "s" THEN Decimal[Len(n[2])] \o <<":">> \o n[2]
                         ELSE <<"i">> \o Printed(n[2]) \o <<"e">>

\* Faulty: the colon is not counted.
LeafSize_NoColon(n) == IF n[1] = "s" THEN Len(Decimal[Len(n[2])]) + Len(n[2])
                                     ELSE Len(Printed(n[2])) + 2

LeafSize(n) == IF n[1] = "s" THEN Len(Decimal[Len(n[2])]) + 1 + Len(n[2])
                             ELSE Len(Printed(n[2])) + 2

ben_enc_size(n) == /\ result = "sizing"
                   /\ alloc' = alloc + n
                   /\ marks' = Append(marks, [doing |-> doing', alloc |-> alloc'])
                   /\ UNCHANGED sent
ben_enc_rec(code) == /\ result = "encoding"
                     /\ sent' = sent \o code
                     /\ UNCHANGED <<alloc, marks>>

EncodeLeaf == LET n == Item(Last(doing))
              IN  /\ More(Last(doing)) /\ n[1] \in {"s", "i"}
                  /\ doing' = Back(doing)
                  /\ ben_enc_size(LeafSize(n)) \/ ben_enc_rec(Code(n))

\* Both ends of a list or dictionary are counted at once.
EncodeBegin == LET n == Item(Last(doing))
               IN  /\ More(Last(doing)) /\ n[1] \in {"d", "l"}
                   /\ doing' = Append(doing, Frame(n))
                   /\ ben_enc_size(2) \/ ben_enc_rec(<<n[1]>>)

EncodeEnd == /\ ~More(Last(doing)) /\ Len(doing) > 1
             /\ doing' = Back(Front(doing))
             /\ ben_enc_size(0) \/ ben_enc_rec(<<"e">>)

\* ben_enc, behind one of the walks. The packet is sent, and received.
ben_enc ==
  /\ ~More(Last(doing)) /\ Len(doing) = 1
  /\ \/ /\ result = "sizing"
        /\ result' = IF alloc > 0 THEN "encoding" ELSE "unsent"
        /\ doing' = <<Caller>>
        /\ UNCHANGED size
     \/ /\ result = "encoding"
        /\ result' = IF Len(sent) = alloc THEN "running" ELSE "unsent"
        /\ size' = Len(sent)
        /\ UNCHANGED doing
  /\ UNCHANGED <<value, alloc, sent, marks, valvars, decvars>>

Encode == /\ result \in {"sizing", "encoding"}
          /\ \/ /\ EncodeLeaf \/ EncodeBegin \/ EncodeEnd
                /\ UNCHANGED <<value, size, valvars, decvars, result>>
             \/ ben_enc

----------------------------------------------------------------------------
(* ben_validate. *)

Init == /\ alloc = 0 /\ sent = << >>
        /\ raw = << >> /\ num = << >> /\ calls = <<"r">>
        /\ p = 0 /\ open = <<[f |-> "root", v |-> << >>, key |-> << >>]>>
        /\ \/ value = << >> /\ doing = << >>
              /\ size \in 1..MaxSize /\ result = "running"
           \/ value \in Tree /\ doing = <<Caller>>
              /\ size = 0 /\ result = "sizing"
        /\ marks = <<[doing |-> doing, alloc |-> 0]>>
        /\ heads = <<[at |-> 0, calls |-> calls]>>

\* What may come next, and the string that may come behind it.
NextByte == IF value = << >> THEN Byte ELSE {sent[Len(raw) + 1]}
Text(n)  == IF value = << >> THEN [1..n -> Payload]
                             ELSE {SubSeq(sent, Len(raw) + 2, Len(raw) + 1 + n)}

Current == Last(calls)
Read(c) == raw' = Append(raw, c)

Broken   == result' = "broken" /\ UNCHANGED <<calls, num>>
Call(cs, ds) == calls' = cs /\ num' = ds /\ UNCHANGED result

\* "++p" at the beginning of a list, a dictionary or an integer.
Enter(cs) == IF Len(raw') < size THEN Call(cs, << >>) ELSE Broken

\* Every caller looks whether there are bytes left.
Return == LET callers == Front(calls)
          IN  IF callers = << >>
              THEN result' = "valid" /\ calls' = callers /\ UNCHANGED num
              ELSE Enter(callers)

\* cs are the functions below ben_validate_r, c the byte it looks at.
ben_validate_r(cs, c) ==
  IF c \in Digit THEN Call(Append(cs, "s"), <<c>>)
  ELSE IF c \in {"d", "l", "i"} THEN Enter(Append(cs, c))
  ELSE Broken

ValidateValue(c) == /\ Current = "r"
                    /\ Read(c)
                    /\ ben_validate_r(Front(calls), c)

ben_validate_l(c) == /\ Current = "l"
                     /\ Read(c)
                     /\ IF c = "e" THEN Return ELSE ben_validate_r(calls, c)

\* Faulty: a key of any type.
ben_validate_d_AnyKey(c) ==
  /\ Current = "d"
  /\ Read(c)
  /\ IF c = "e" THEN Return ELSE ben_validate_r(Append(calls, "r"), c)

\* A key is a string, the value behind it is left to ben_validate_r.
ben_validate_d(c) == /\ Current = "d"
                     /\ Read(c)
                     /\ IF c = "e" THEN Return
                        ELSE IF c \in Digit THEN Call(calls \o <<"r", "s">>, <<c>>)
                        ELSE Broken

\* Faulty: the longest string is refused.
StrLenOk_Less == Len(num) <= StrMaxLen /\ atol(num) \in 1..(StrMaxSize - 1)

StrLenOk == Len(num) <= StrMaxLen /\ atol(num) \in 1..StrMaxSize

ben_validate_s(c) ==
  /\ Current = "s"
  /\ \/ /\ c \in Digit
        /\ Read(c)
        /\ Call(calls, Append(num, c))
     \/ /\ c = ":" /\ StrLenOk
        /\ Len(raw) + 1 + atol(num) <= size
        /\ \E s \in Text(atol(num)) : raw' = Append(raw, ":") \o s
        /\ Return
     \/ /\ c \notin Digit
        /\ c = ":" => ~StrLenOk \/ Len(raw) + 1 + atol(num) > size
        /\ Read(c)
        /\ Broken

IntLenOk == Len(num) \in 1..IntMaxLen /\ atol(num) <= IntMaxSize

ben_validate_i(c) ==
  /\ Current = "i"
  /\ Read(c)
  /\ CASE c \in Digit -> Call(calls, Append(num, c))
       [] c = "-" /\ Last(raw) = "i" -> Enter(calls)
       [] c = "e" /\ IntLenOk -> Return
       [] OTHER -> Broken

\* The loop over digits ends with the packet, and is content.
OutOfBytes == /\ Len(raw) = size
              /\ raw' = raw
              /\ Return

\* Something has been read: calls is at the beginning of the next thing.
Arrives == result' # "broken" /\ (calls' = << >> \/ Last(calls') \in {"r", "d", "l"})

ben_validate ==
  /\ result = "running"
  /\ \/ /\ Len(raw) < size
        /\ \E c \in NextByte : \/ ValidateValue(c) \/ ben_validate_l(c)
                               \/ ben_validate_d(c) \/ ben_validate_s(c)
                               \/ ben_validate_i(c)
        /\ heads' = IF Arrives THEN Append(heads, [at |-> Len(raw'), calls |-> calls'])
                               ELSE heads
     \/ OutOfBytes /\ UNCHANGED heads
  /\ UNCHANGED <<size, encvars, decvars>>

----------------------------------------------------------------------------
(* ben_dec. It takes no notice of the size. It is lost when it walks off    *)
(* the packet, in a loop without end, or with a value that ends the program.*)

Lost == result' = "lost" /\ UNCHANGED decvars
Run(b, q) == CHOOSE n \in 0..(Len(b) - q) :
               /\ \A k \in 1..n : b[q + k] \in Digit
               /\ q + n = Len(b) \/ b[q + n + 1] \notin Digit
Stopped(b, q, c) == q < Len(b) /\ b[q + 1] = c

Top == Last(open)
AtKey == Top.f = "d" /\ Top.key = << >>

\* ben_list and ben_dict; a key waits for its value.
Gets(fr, n) == IF fr.f # "d" THEN [fr EXCEPT !.v = Append(@, n)]
               ELSE IF fr.key = << >> THEN [fr EXCEPT !.key = n]
               ELSE [fr EXCEPT !.v = Append(@, <<fr.key, n>>), !.key = << >>]

\* The value n, read up to q, goes to the caller.
Give(frames, n, q) == /\ p' = q
                      /\ open' = Append(Front(frames), Gets(Last(frames), n))
                      /\ result' = IF Len(frames) = 1 THEN "decoded" ELSE "valid"

ben_dec_s ==
  LET q == p + Run(raw, p)
      l == atol(SubSeq(raw, p + 1, q))
  IN  IF Stopped(raw, q, ":") /\ l > 0 /\ q + 1 + l <= Len(raw)
      THEN Give(open, <<"s", SubSeq(raw, q + 2, q + 1 + l)>>, q + 1 + l)
      ELSE Lost

ben_dec_i ==
  LET minus == Stopped(raw, p + 1, "-")
      start == IF minus THEN p + 2 ELSE p + 1
      q == start + Run(raw, start)
      n == atol(SubSeq(raw, start + 1, q))
  IN  IF Stopped(raw, q, "e")
      THEN Give(open, <<"i", IF minus THEN -n ELSE n>>, q + 1)
      ELSE Lost

ben_dec_r(c) == CASE c \in {"d", "l"} -> /\ open' = Append(open, [f |-> c, v |-> << >>, key |-> << >>])
                                         /\ p' = p + 1
                                         /\ UNCHANGED result
                  [] c = "i" -> ben_dec_i
                  [] c \in Digit -> ben_dec_s
                  [] OTHER -> Lost

\* The loops of ben_dec_d and ben_dec_l, and the call of ben_dec.
ben_dec ==
  /\ result = "valid"
  /\ IF p >= Len(raw) THEN Lost
     ELSE LET c == raw[p + 1]
          IN  CASE c = "e" /\ Top.f # "root" /\ Top.key = << >> ->
                     Give(Front(open), <<Top.f, Top.v>>, p + 1)
                [] c # "e" /\ AtKey -> ben_dec_s
                [] OTHER -> ben_dec_r(c)
  /\ UNCHANGED <<size, encvars, valvars>>

Next == Encode \/ ben_validate \/ ben_dec

Spec == Init /\ [][Next]_vars

----------------------------------------------------------------------------
(* ben_enc_rec writes into a buffer of the size that ben_enc_size has      *)
(* counted: the two go through a value independently of each other, agree  *)
(* in the end, and before the end ben_enc_rec has not written more.        *)
WritesWithinBuffer ==
  /\ result # "unsent"
  /\ result = "encoding" => Len(sent) <= alloc

(* ben_validate and ben_dec read a packet independently of each other. A   *)
(* dictionary or a list that the first one accepts is read by the second   *)
(* one up to the same byte, which is in the packet. (Handlers want a       *)
(* dictionary. A number alone needs no end to be accepted: OutOfBytes.)    *)
DecodesWithinPacket ==
  raw # << >> /\ raw[1] \in {"d", "l"} =>
    /\ result # "lost"
    /\ Len(raw) <= size /\ p <= Len(raw)
    /\ result = "decoded" => p = Len(raw)

(* What ben_enc makes of a value is not rejected by another node, and      *)
(* ben_dec makes the same value of it.                                     *)
Understood ==
  value # << >> => /\ result \notin {"broken", "lost"}
                   /\ result = "decoded" => open[1].v = <<value>>
=============================================================================
