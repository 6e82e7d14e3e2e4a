---------------------------- MODULE FramingProofs ----------------------------
(***************************************************************************)
(* What the conversions of lib/str_utils.c do for every length, why the    *)
(* connection of Framing implements MessageStream, and why every datagram  *)
(* that the receivers of Datagram return is a message, whole, whatever is  *)
(* lost, repeated, overtaken or misread.                                   *)
(***************************************************************************)
EXTENDS Framing, Datagram, SequenceTheorems, TLAPS

(* The digits of a number of at most four digits make up that number.      *)
LEMMA DigitsMakeNumber ==
    \A n \in Nat : n < 65536 =>
        /\ IntToHex4(n) \in [1 .. 4 -> 0 .. 15]
        /\ 4096 * IntToHex4(n)[1] + 256 * IntToHex4(n)[2]
             + 16 * IntToHex4(n)[3] + IntToHex4(n)[4] = n
<1> SUFFICES ASSUME NEW n \in Nat, n < 65536
             PROVE  /\ IntToHex4(n) \in [1 .. 4 -> 0 .. 15]
                    /\ 4096 * IntToHex4(n)[1] + 256 * IntToHex4(n)[2]
                         + 16 * IntToHex4(n)[3] + IntToHex4(n)[4] = n
  OBVIOUS
<1> DEFINE a == n \div 4096
           b == (n \div 256) % 16
           c == (n \div 16) % 16
           d == n % 16
<1>1. a \in 0 .. 15 /\ b \in 0 .. 15 /\ c \in 0 .. 15 /\ d \in 0 .. 15
  <2>1. n \in Nat /\ n \div 256 \in Nat /\ n \div 16 \in Nat
    OBVIOUS
  <2>2. a \in 0 .. 15
    OBVIOUS
  <2>3. \A m \in Nat : m % 16 \in 0 .. 15
    OBVIOUS
  <2> QED
    BY <2>1, <2>2, <2>3
<1>2. 4096 * a + 256 * b + 16 * c + d = n
  OBVIOUS
<1>3. IntToHex4(n) = <<a, b, c, d>>
  BY DEF IntToHex4
<1> HIDE DEF a, b, c, d
<1> QED
  BY <1>1, <1>2, <1>3

(* Four digits with none behind them are all read.                         *)
LEMMA FourDigitsRead ==
    ASSUME NEW array \in [1 .. 4 -> 0 .. 15]
    PROVE  Leading(Append(array, NotHex)) = 4
<1> DEFINE c == Append(array, NotHex)
<1>1. array \in Seq(0 .. 15) /\ Len(array) = 4
  <2>1. array \in Seq(0 .. 15)
    BY 4 \in Nat, SeqDef
  <2> QED
    BY <2>1, LenProperties
<1>2. Len(c) = 5 /\ c[5] = NotHex /\ \A i \in 1 .. 4 : c[i] = array[i]
  <2>1. array \in Seq(0 .. 16) /\ NotHex \in 0 .. 16
    <3>1. array \in [1 .. 4 -> 0 .. 16]
      OBVIOUS
    <3>2. array \in Seq(0 .. 16)
      BY <3>1, 4 \in Nat, SeqDef
    <3> QED
      BY <3>2 DEF NotHex
  <2>2. /\ Len(c) = Len(array) + 1 /\ c[Len(array) + 1] = NotHex
        /\ \A i \in 1 .. Len(array) : c[i] = array[i]
    BY <2>1, AppendProperties
  <2> QED
    BY <1>1, <2>2
<1> HIDE DEF c
<1>3. \A i \in 1 .. 4 : c[i] # NotHex
  <2>1. \A i \in 1 .. 4 : array[i] \in 0 .. 15
    OBVIOUS
  <2> QED
    BY <1>2, <2>1 DEF NotHex
<1>4. ASSUME NEW n \in 0 .. Len(c),
             \A i \in 1 .. n : c[i] # NotHex,
             n < Len(c) => c[n + 1] = NotHex
      PROVE  n = 4
  <2>1. n # 5
    BY <1>2, <1>4
  <2>2. n \in 0 .. 5
    BY <1>2
  <2>3. n \notin 0 .. 3
    BY <1>2, <1>3, <1>4
  <2> QED
    BY <2>1, <2>2, <2>3
<1>5. \E n \in 0 .. Len(c) :
          /\ \A i \in 1 .. n : c[i] # NotHex
          /\ n < Len(c) => c[n + 1] = NotHex
  <2>1. 4 \in 0 .. Len(c)
    BY <1>2
  <2> QED
    BY <1>2, <1>3, <2>1
<1>6. Leading(c) = 4
  BY <1>4, <1>5 DEF Leading
<1> QED
  BY <1>6 DEF c

(* hex_to_int of the array that int_to_hex_4 wrote is the number written,  *)
(* if no digit lies behind the array.                                      *)
THEOREM HexRoundTrip ==
    \A n \in Nat : n < 65536 => HexToInt(IntToHex4(n), NotHex) = n
<1> SUFFICES ASSUME NEW n \in Nat, n < 65536
             PROVE  HexToInt(IntToHex4(n), NotHex) = n
  OBVIOUS
<1> DEFINE h == IntToHex4(n)
<1>1. /\ h \in [1 .. 4 -> 0 .. 15]
      /\ 4096 * h[1] + 256 * h[2] + 16 * h[3] + h[4] = n
  BY DigitsMakeNumber
<1>2. Leading(Append(h, NotHex)) = 4
  BY <1>1, FourDigitsRead
<1> HIDE DEF h
<1>4. HexToInt(h, NotHex) = (4096 * h[1] + 256 * h[2] + 16 * h[3] + h[4]) \div 16 ^ (4 - 4)
  BY <1>2 DEF HexToInt
<1>5. 16 ^ (4 - 4) = 1
  OBVIOUS
<1>6. n \div 1 = n
  OBVIOUS
<1>7. HexToInt(h, NotHex) = n
  BY <1>1, <1>4, <1>5, <1>6
<1> QED
  BY <1>7 DEF h

(* The listener finds in a header, read in one piece, the length of the    *)
(* body that follows it: create_send_msg counts a NUL it does not send,    *)
(* listener_task subtracts it, and both fit into four digits.              *)
THEOREM HeaderCarriesLength ==
    ASSUME NEW l \in Length
    PROVE  MsgLen(HexToInt(IntToHex4(ToSendLen(l)), NotHex)) = l
<1>1. l \in Nat /\ l < 65531
  BY LengthAssumption
<1>2. ToSendLen(l) \in Nat /\ ToSendLen(l) < 65536 /\ ToSendLen(l) - 5 = l
  BY <1>1 DEF ToSendLen
<1>3. HexToInt(IntToHex4(ToSendLen(l)), NotHex) = ToSendLen(l)
  BY <1>2, HexRoundTrip
<1>4. UINT \in Nat /\ UINT > 65530
  <2>1. 16 ^ 5 = 1048576
    OBVIOUS
  <2> QED
    BY <2>1, UintAssumption
<1>5. l \in Nat /\ l < UINT
  BY <1>1, <1>4
<1>6. \A u \in Nat : l < u => l % u = l
  BY <1>5
<1>7. l % UINT = l
  BY <1>4, <1>5, <1>6
<1> QED
  BY <1>2, <1>3, <1>7 DEF MsgLen
-----------------------------------------------------------------------------
(***************************************************************************)
(* Sequences, and the types of what the conversions make.                  *)
(***************************************************************************)

(* A function on 1 .. n is a sequence.                                     *)
LEMMA FunctionIsSeq ==
    ASSUME NEW S, NEW n \in Nat, NEW f \in [1 .. n -> S]
    PROVE  f \in Seq(S) /\ Len(f) = n
  <1>1. f \in Seq(S)
    BY SeqDef
  <1> QED
    BY <1>1, LenProperties

(* The four digits are one.                                                *)
LEMMA FourIsSeq ==
    ASSUME NEW S, NEW f \in [1 .. 4 -> S]
    PROVE  f \in Seq(S) /\ Len(f) = 4
  <1>1. PICK n \in Nat : n = 4
    OBVIOUS
  <1>2. f \in [1 .. n -> S]
    BY <1>1, Zenon
  <1>3. f \in Seq(S) /\ Len(f) = n
    BY <1>2, FunctionIsSeq
  <1> QED
    BY <1>1, <1>3, Zenon

(* The bytes of a body.                                                    *)
LEMMA BodyType ==
    ASSUME NEW m \in 1 .. MaxMsgs, NEW l \in Nat
    PROVE  /\ Body(m, l) \in Seq(Byte) /\ Len(Body(m, l)) = l
           /\ \A k \in 1 .. l : Body(m, l)[k] = [msg |-> m, pos |-> k, hex |-> NotHex]
  <1>1. ASSUME NEW k \in 1 .. l
        PROVE  [msg |-> m, pos |-> k, hex |-> NotHex] \in Byte
    BY <1>1 DEF Byte, NotHex
  <1>2. Body(m, l) \in [1 .. l -> Byte]
    BY <1>1 DEF Body
  <1>3. Body(m, l) \in Seq(Byte) /\ Len(Body(m, l)) = l
    BY <1>2, FunctionIsSeq
  <1> QED
    BY <1>3 DEF Body

(* A sequence followed by another.                                         *)
LEMMA Joined ==
    ASSUME NEW S, NEW s \in Seq(S), NEW t \in Seq(S)
    PROVE  /\ s \o t \in Seq(S) /\ Len(s \o t) = Len(s) + Len(t)
           /\ \A i \in 1 .. Len(s) : (s \o t)[i] = s[i]
           /\ \A i \in 1 .. Len(t) : (s \o t)[Len(s) + i] = t[i]
  <1> DEFINE c == s \o t
  <1>1. PICK m \in Nat, n \in Nat : m = Len(s) /\ n = Len(t)
    BY LenProperties
  <1>2. /\ c \in Seq(S) /\ Len(c) = Len(s) + Len(t)
        /\ \A i \in 1 .. Len(s) + Len(t) : c[i] = IF i <= Len(s) THEN s[i] ELSE t[i - Len(s)]
    BY ConcatProperties
  <1> HIDE DEF c
  <1>3. \A i \in 1 .. m + n : c[i] = IF i <= m THEN s[i] ELSE t[i - m]
    BY <1>1, <1>2
  <1>4. \A i \in 1 .. m : c[i] = s[i]
    BY <1>3
  <1>5. ASSUME NEW i \in 1 .. n
        PROVE  c[m + i] = t[i]
    <2>1. m + i \in 1 .. m + n /\ ~(m + i <= m) /\ (m + i) - m = i
      OBVIOUS
    <2> QED
      BY <1>3, <2>1, Zenon
  <1> QED
    BY <1>1, <1>2, <1>4, <1>5 DEF c

(* A length that four digits can hold, with what create_send_msg adds.     *)
Fits(l) == l \in Nat /\ l < 65531

(* Every length of a body is one, and has four digits.                     *)
LEMMA LengthsFit == \A l \in Length : Fits(l)
  <1>1. ASSUME NEW l \in Length
        PROVE  Fits(l)
    <2>1. l \in Nat /\ l < 65531
      BY LengthAssumption
    <2> QED
      BY <2>1 DEF Fits
  <1> QED
    BY <1>1

LEMMA FittingDigits ==
    ASSUME NEW l, Fits(l)
    PROVE  l \in Nat /\ IntToHex4(ToSendLen(l)) \in [1 .. 4 -> 0 .. 15]
  <1>1. l \in Nat
    BY DEF Fits
  <1>2. PICK n \in Nat : n = ToSendLen(l) /\ n < 65536
    BY DEF Fits, ToSendLen
  <1>3. IntToHex4(n) \in [1 .. 4 -> 0 .. 15]
    BY <1>2, DigitsMakeNumber
  <1> QED
    BY <1>1, <1>2, <1>3

(* The bytes of a frame: digits, then the body.                            *)
LEMMA FrameType ==
    ASSUME NEW m \in 1 .. MaxMsgs, NEW l, Fits(l)
    PROVE  /\ Frame(m, l) \in Seq(Byte) /\ Len(Frame(m, l)) = 4 + l
           /\ \A k \in 1 .. 4 : Frame(m, l)[k].hex = IntToHex4(ToSendLen(l))[k]
           /\ \A k \in 1 .. l : Frame(m, l)[4 + k] = Body(m, l)[k]
  <1> DEFINE h == IntToHex4(ToSendLen(l))
             head == [k \in 1 .. 4 |-> [msg |-> m, pos |-> 0, hex |-> h[k]]]
             body == Body(m, l)
  <1>1. l \in Nat
    BY FittingDigits
  <1>2. h \in [1 .. 4 -> 0 .. 15]
    BY FittingDigits
  <1> HIDE DEF h
  <1>3. ASSUME NEW k \in 1 .. 4
        PROVE  [msg |-> m, pos |-> 0, hex |-> h[k]] \in Byte
    <2>1. h[k] \in 0 .. NotHex
      BY <1>2 DEF NotHex
    <2> QED
      BY <2>1 DEF Byte
  <1>4. head \in [1 .. 4 -> Byte]
    BY <1>3
  <1>5. head \in Seq(Byte) /\ Len(head) = 4
    BY <1>4, FourIsSeq
  <1>6. \A k \in 1 .. 4 : head[k].hex = h[k]
    OBVIOUS
  <1>7. Frame(m, l) = head \o body
    BY DEF Frame, h
  <1> HIDE DEF head
  <1>8. body \in Seq(Byte) /\ Len(body) = l
    BY <1>1, BodyType
  <1> HIDE DEF body
  <1> DEFINE both == head \o body
  <1>9. /\ both \in Seq(Byte) /\ Len(both) = Len(head) + Len(body)
        /\ \A k \in 1 .. Len(head) : both[k] = head[k]
        /\ \A k \in 1 .. Len(body) : both[Len(head) + k] = body[k]
    <2>1. PICK x \in Seq(Byte), y \in Seq(Byte) : x = head /\ y = body
      BY <1>5, <1>8
    <2>2. /\ x \o y \in Seq(Byte) /\ Len(x \o y) = Len(x) + Len(y)
          /\ \A k \in 1 .. Len(x) : (x \o y)[k] = x[k]
          /\ \A k \in 1 .. Len(y) : (x \o y)[Len(x) + k] = y[k]
      BY Joined
    <2> QED
      BY <2>1, <2>2, Zenon
  <1>10. Frame(m, l) = both
    BY <1>7
  <1> HIDE DEF both
  <1>11. \A k \in 1 .. 4 : both[k].hex = h[k]
    BY <1>5, <1>6, <1>9, Zenon
  <1>12. \A k \in 1 .. l : both[4 + k] = body[k]
    BY <1>5, <1>8, <1>9, Zenon
  <1>13. both \in Seq(Byte) /\ Len(both) = 4 + l
    BY <1>5, <1>8, <1>9, Zenon
  <1> QED
    BY <1>10, <1>11, <1>12, <1>13, Zenon DEF h, body

(* sscanf takes some of the five characters.                               *)
LEMMA LeadingType ==
    ASSUME NEW c \in Seq(0 .. NotHex), Len(c) = 5
    PROVE  Leading(c) \in 0 .. 5
  <1> DEFINE P(n) == /\ \A i \in 1 .. n : c[i] # NotHex
                     /\ n < Len(c) => c[n + 1] = NotHex
  <1>1. \E n \in 0 .. Len(c) : P(n)
    <2>1. CASE c[1] = NotHex
      <3>1. P(0) /\ 0 \in 0 .. Len(c)
        BY <2>1
      <3> QED
        BY <3>1
    <2>2. CASE c[1] # NotHex /\ c[2] = NotHex
      <3>1. P(1) /\ 1 \in 0 .. Len(c)
        BY <2>2
      <3> QED
        BY <3>1
    <2>3. CASE c[1] # NotHex /\ c[2] # NotHex /\ c[3] = NotHex
      <3>1. P(2) /\ 2 \in 0 .. Len(c)
        BY <2>3
      <3> QED
        BY <3>1
    <2>4. CASE c[1] # NotHex /\ c[2] # NotHex /\ c[3] # NotHex /\ c[4] = NotHex
      <3>1. P(3) /\ 3 \in 0 .. Len(c)
        BY <2>4
      <3> QED
        BY <3>1
    <2>5. CASE /\ c[1] # NotHex /\ c[2] # NotHex /\ c[3] # NotHex /\ c[4] # NotHex
               /\ c[5] = NotHex
      <3>1. P(4) /\ 4 \in 0 .. Len(c)
        BY <2>5
      <3> QED
        BY <3>1
    <2>6. CASE \A i \in 1 .. 5 : c[i] # NotHex
      <3>1. P(5) /\ 5 \in 0 .. Len(c)
        BY <2>6
      <3> QED
        BY <3>1
    <2> QED
      BY <2>1, <2>2, <2>3, <2>4, <2>5, <2>6
  <1>2. Leading(c) = CHOOSE n \in 0 .. Len(c) : P(n)
    BY DEF Leading
  <1> HIDE DEF P
  <1> QED
    BY <1>1, <1>2

(* hex_to_int returns no negative number, whatever it scans.               *)
LEMMA HexToIntType ==
    ASSUME NEW array \in [1 .. 4 -> 0 .. NotHex], NEW behind \in 0 .. NotHex
    PROVE  HexToInt(array, behind) \in Nat
  <1> DEFINE c == Append(array, behind)
             n == Leading(c)
             digit(i) == IF i <= n THEN array[i] ELSE 0
             word == 4096 * digit(1) + 256 * digit(2) + 16 * digit(3) + digit(4)
  <1>1. array \in Seq(0 .. NotHex) /\ Len(array) = 4
    <2>1. PICK S : S = 0 .. NotHex
      OBVIOUS
    <2>2. array \in [1 .. 4 -> S]
      BY <2>1, Zenon
    <2>3. array \in Seq(S) /\ Len(array) = 4
      BY <2>2, FourIsSeq
    <2> QED
      BY <2>1, <2>3, Zenon
  <1>2. c \in Seq(0 .. NotHex) /\ Len(c) = 5
    <2>1. PICK S : S = 0 .. NotHex
      OBVIOUS
    <2>2. PICK a \in Seq(S), e \in S : a = array /\ e = behind
      BY <1>1, <2>1
    <2>3. Append(a, e) \in Seq(S) /\ Len(Append(a, e)) = Len(a) + 1
      BY AppendProperties
    <2> QED
      BY <1>1, <2>1, <2>2, <2>3
  <1>3. n \in 0 .. 5
    BY <1>2, LeadingType
  <1> HIDE DEF c, n
  <1>4. \A i \in 1 .. 4 : digit(i) \in Nat
    BY <1>3 DEF NotHex
  <1>5. word \in Nat
    BY <1>4
  <1>6. HexToInt(array, behind) = IF n = 5 THEN 16 * word + behind ELSE word \div 16 ^ (4 - n)
    BY DEF HexToInt, n, c
  <1> HIDE DEF word
  <1>7. \A p \in Nat \ {0} : word \div p \in Nat
    BY <1>5
  <1>8. n # 5 => 16 ^ (4 - n) \in Nat \ {0}
    <2>1. n = 0 => 16 ^ (4 - n) = 65536
      OBVIOUS
    <2>2. n = 1 => 16 ^ (4 - n) = 4096
      OBVIOUS
    <2>3. n = 2 => 16 ^ (4 - n) = 256
      OBVIOUS
    <2>4. n = 3 => 16 ^ (4 - n) = 16
      OBVIOUS
    <2>5. n = 4 => 16 ^ (4 - n) = 1
      OBVIOUS
    <2> QED
      BY <1>3, <2>1, <2>2, <2>3, <2>4, <2>5
  <1> QED
    BY <1>5, <1>6, <1>7, <1>8 DEF NotHex

(* msg_len is an unsigned int.                                             *)
LEMMA MsgLenType ==
    ASSUME NEW field \in Nat
    PROVE  MsgLen(field) \in 0 .. UINT - 1
  <1>1. UINT \in Nat \ {0}
    <2>1. 16 ^ 5 = 1048576
      OBVIOUS
    <2> QED
      BY <2>1, UintAssumption
  <1>2. \A x \in Int : x % UINT \in 0 .. UINT - 1
    BY <1>1
  <1> QED
    BY <1>2 DEF MsgLen

(* The first n elements of a sequence, and the rest.                       *)
LEMMA Taken ==
    ASSUME NEW S, NEW s \in Seq(S), NEW n \in 0 .. Len(s)
    PROVE  /\ SubSeq(s, 1, n) \in Seq(S) /\ Len(SubSeq(s, 1, n)) = n
           /\ \A i \in 1 .. n : SubSeq(s, 1, n)[i] = s[i]
  <1>1. Len(s) \in Nat /\ n \in Int /\ \A i \in 1 .. n : s[i] \in S
    BY ElementOfSeq, LenProperties
  <1>2. /\ SubSeq(s, 1, n) \in Seq(S) /\ Len(SubSeq(s, 1, n)) = IF 1 <= n THEN n - 1 + 1 ELSE 0
        /\ \A i \in 1 .. n - 1 + 1 : SubSeq(s, 1, n)[i] = s[1 + i - 1]
    BY <1>1, SubSeqProperties
  <1> QED
    BY <1>1, <1>2

(* What is left of a sequence when its first n elements are taken.         *)
LEMMA Left ==
    ASSUME NEW S, NEW s \in Seq(S), NEW n \in 0 .. Len(s)
    PROVE  /\ SubSeq(s, n + 1, Len(s)) \in Seq(S) /\ Len(SubSeq(s, n + 1, Len(s))) = Len(s) - n
           /\ \A i \in 1 .. Len(s) - n : SubSeq(s, n + 1, Len(s))[i] = s[n + i]
  <1>1. Len(s) \in Nat /\ n \in Nat /\ n <= Len(s) /\ \A i \in n + 1 .. Len(s) : s[i] \in S
    BY ElementOfSeq, LenProperties
  <1>2. n + 1 \in Int /\ Len(s) \in Int
    BY <1>1
  <1>3. /\ SubSeq(s, n + 1, Len(s)) \in Seq(S)
        /\ Len(SubSeq(s, n + 1, Len(s))) = IF n + 1 <= Len(s) THEN Len(s) - (n + 1) + 1 ELSE 0
        /\ \A i \in 1 .. Len(s) - (n + 1) + 1 : SubSeq(s, n + 1, Len(s))[i] = s[(n + 1) + i - 1]
    BY <1>1, <1>2, SubSeqProperties
  <1>4. Len(SubSeq(s, n + 1, Len(s))) = Len(s) - n
    BY <1>1, <1>3
  <1>5. ASSUME NEW i \in 1 .. Len(s) - n
        PROVE  SubSeq(s, n + 1, Len(s))[i] = s[n + i]
    <2>1. i \in 1 .. Len(s) - (n + 1) + 1 /\ (n + 1) + i - 1 = n + i
      BY <1>1
    <2> QED
      BY <1>3, <2>1
  <1> QED
    BY <1>3, <1>4, <1>5

(* The smaller of two lengths is none the larger of either.                *)
LEMMA LeastType ==
    ASSUME NEW m \in Nat, NEW n \in Nat
    PROVE  Least(m, n) \in 0 .. n /\ Least(m, n) \in 0 .. m
  BY DEF Least

-----------------------------------------------------------------------------
(***************************************************************************)
(* The types of the variables of Framing.                                  *)
(***************************************************************************)

(* read_header, with whatever digits and whatever byte behind them.        *)
LEMMA HeaderRead ==
    ASSUME TypeOK, read_header
    PROVE  TypeOK'
  <1> DEFINE n == Least(4, Len(wire))
             array == [k \in 1 .. 4 |-> IF k <= n THEN wire[k].hex ELSE msg_len_hex[k]]
  <1>1. /\ wire \in Seq(Byte) /\ msg_len_hex \in [1 .. 4 -> 0 .. NotHex] /\ harmed \in BOOLEAN
    BY DEF TypeOK
  <1>2. Len(wire) \in Nat /\ n \in 0 .. Len(wire)
    BY <1>1, LenProperties, LeastType
  <1>3. /\ wire' = SubSeq(wire, n + 1, Len(wire)) /\ msg_len_hex' = array
        /\ phase' = "body" /\ message' = <<>>
        /\ UNCHANGED <<sent, out, open, printed>>
    BY DEF read_header
  <1>4. PICK behind \in Behind : /\ nleft' = MsgLen(HexToInt(array, behind))
                                 /\ harmed' = (harmed \/ n < 4 \/ behind # NotHex)
    BY DEF read_header
  <1> HIDE DEF n
  <1>5. array \in [1 .. 4 -> 0 .. NotHex]
    <2>1. ASSUME NEW k \in 1 .. 4
          PROVE  (IF k <= n THEN wire[k].hex ELSE msg_len_hex[k]) \in 0 .. NotHex
      <3>1. CASE k <= n
        <4>1. wire[k] \in Byte
          BY <1>1, <1>2, <3>1, ElementOfSeq
        <4> QED
          BY <3>1, <4>1 DEF Byte
      <3> QED
        BY <1>1, <3>1
    <2> QED
      BY <2>1
  <1> HIDE DEF array
  <1>6. nleft' \in 0 .. UINT - 1
    <2>1. behind \in 0 .. NotHex
      BY BehindAssumption
    <2> QED
      BY <1>4, <1>5, <2>1, HexToIntType, MsgLenType
  <1>7. wire' \in Seq(Byte) /\ message' \in Seq(Byte)
    BY <1>1, <1>2, <1>3, Left
  <1>8. harmed' \in BOOLEAN
    BY <1>4, Zenon
  <1> QED
    BY <1>3, <1>5, <1>6, <1>7, <1>8 DEF TypeOK

(* Every action keeps the types.                                           *)
LEMMA TypeStep ==
    ASSUME TypeOK, [Next]_vars
    PROVE  TypeOK'
  <1>1. /\ sent \in Seq({Body(m, l) : m \in 1 .. MaxMsgs, l \in Length})
        /\ out \in Seq(Byte) /\ wire \in Seq(Byte) /\ message \in Seq(Byte)
        /\ printed \in Seq(Seq(Byte \union {Garbage}))
        /\ nleft \in 0 .. UINT - 1
        /\ Len(sent) \in Nat /\ Len(wire) \in Nat /\ Len(out) \in Nat
    BY LenProperties DEF TypeOK
  <1>2. UINT \in Nat
    BY UintAssumption
  <1>3. message \in Seq(Byte \union {Garbage})
    BY <1>1, SeqMonotonic
  <1>4. ASSUME create_send_msg
        PROVE  TypeOK'
    <2>1. PICK l \in Length : /\ sent' = Append(sent, Body(Len(sent) + 1, l))
                              /\ out' = Frame(Len(sent) + 1, l)
      BY <1>4 DEF create_send_msg
    <2>2. Len(sent) + 1 \in 1 .. MaxMsgs
      BY <1>1, <1>4, BoundAssumption DEF create_send_msg
    <2>3. Body(Len(sent) + 1, l) \in {Body(m, k) : m \in 1 .. MaxMsgs, k \in Length}
      BY <2>2
    <2>4. sent' \in Seq({Body(m, k) : m \in 1 .. MaxMsgs, k \in Length})
      BY <1>1, <2>1, <2>3, AppendProperties
    <2>5. out' \in Seq(Byte)
      BY <2>1, <2>2, FrameType, LengthsFit
    <2> QED
      BY <1>4, <2>4, <2>5 DEF create_send_msg, TypeOK
  <1>5. ASSUME writen
        PROVE  TypeOK'
    <2>1. PICK n \in 1 .. Len(out) :
              /\ wire' = wire \o SubSeq(out, 1, n)
              /\ out' = SubSeq(out, n + 1, Len(out))
              /\ UNCHANGED <<sent, open, msg_len_hex, phase, nleft, message, printed, harmed>>
      BY <1>5 DEF writen
    <2>2. n \in 0 .. Len(out)
      BY <1>1
    <2>3. SubSeq(out, 1, n) \in Seq(Byte) /\ out' \in Seq(Byte)
      BY <1>1, <2>1, <2>2, Taken, Left
    <2>4. wire' \in Seq(Byte)
      <3>1. wire \in Seq(Byte)
        BY <1>1
      <3>2. \A x \in Seq(Byte), y \in Seq(Byte) : x \o y \in Seq(Byte)
        BY Joined
      <3>3. wire \o SubSeq(out, 1, n) \in Seq(Byte)
        BY <2>3, <3>1, <3>2, Zenon
      <3> QED
        BY <2>1, <3>3
    <2>5. UNCHANGED <<sent, open, msg_len_hex, phase, nleft, message, printed, harmed>>
      BY <2>1
    <2> QED
      BY <2>3, <2>4, <2>5 DEF TypeOK
  <1>6. ASSUME exit
        PROVE  TypeOK'
    <2>1. /\ open' = FALSE /\ out' = <<>>
          /\ UNCHANGED <<sent, wire, msg_len_hex, phase, nleft, message, printed, harmed>>
      BY <1>6 DEF exit
    <2>2. out' \in Seq(Byte)
      BY <2>1, EmptySeq
    <2>3. open' \in BOOLEAN
      BY <2>1, Zenon
    <2>4. UNCHANGED <<sent, wire, msg_len_hex, phase, nleft, message, printed, harmed>>
      BY <2>1
    <2> QED
      BY <2>2, <2>3, <2>4 DEF TypeOK
  <1>7. ASSUME readn
        PROVE  TypeOK'
    <2> DEFINE n == Least(nleft, Len(wire))
    <2>1. n \in 0 .. nleft /\ n \in 0 .. Len(wire)
      <3>1. nleft \in Nat
        BY <1>1, <1>2
      <3> QED
        BY <1>1, <3>1, LeastType
    <2>2. /\ message' = message \o SubSeq(wire, 1, n) /\ wire' = SubSeq(wire, n + 1, Len(wire))
          /\ nleft' = nleft - n
          /\ UNCHANGED <<sent, out, open, msg_len_hex, phase, printed, harmed>>
      BY <1>7 DEF readn
    <2> HIDE DEF n
    <2>3. SubSeq(wire, 1, n) \in Seq(Byte) /\ wire' \in Seq(Byte)
      BY <1>1, <2>1, <2>2, Taken, Left
    <2>4. message' \in Seq(Byte)
      BY <1>1, <2>2, <2>3, ConcatProperties
    <2>5. nleft' \in 0 .. UINT - 1
      BY <1>1, <1>2, <2>1, <2>2
    <2>6. UNCHANGED <<sent, out, open, msg_len_hex, phase, printed, harmed>>
      BY <2>2
    <2> QED
      BY <2>3, <2>4, <2>5, <2>6 DEF TypeOK
  <1>8. ASSUME print_message
        PROVE  TypeOK'
    <2>1. printed' \in Seq(Seq(Byte \union {Garbage}))
      BY <1>1, <1>3, <1>8, AppendProperties DEF print_message
    <2> QED
      BY <1>8, <2>1 DEF print_message, TypeOK
  <1>9. ASSUME print_cut
        PROVE  TypeOK'
    <2>1. Append(message, Garbage) \in Seq(Byte \union {Garbage})
      BY <1>3, AppendProperties
    <2>2. printed' \in Seq(Seq(Byte \union {Garbage}))
      BY <1>1, <1>9, <2>1, AppendProperties DEF print_cut
    <2>3. /\ phase' = "header" /\ nleft' = 0 /\ message' = <<>>
          /\ UNCHANGED <<sent, out, open, wire, msg_len_hex, harmed>>
      BY <1>9 DEF print_cut
    <2>4. nleft' \in 0 .. UINT - 1
      BY <1>1, <1>2, <2>3
    <2>5. message' \in Seq(Byte)
      BY <2>3, EmptySeq
    <2>6. phase' \in {"header", "body", "closed"}
      BY <2>3
    <2>7. UNCHANGED <<sent, out, open, wire, msg_len_hex, harmed>>
      BY <2>3
    <2> QED
      BY <2>2, <2>4, <2>5, <2>6, <2>7 DEF TypeOK
  <1>10. ASSUME read_eof
         PROVE  TypeOK'
    BY <1>10 DEF read_eof, TypeOK
  <1>11. CASE UNCHANGED vars
    BY <1>11 DEF vars, TypeOK
  <1> QED
    BY <1>4, <1>5, <1>6, <1>7, <1>8, <1>9, <1>10, <1>11, HeaderRead DEF Next, Listen

(* The initial states have them.                                           *)
LEMMA TypeInit == Init => TypeOK
  <1> SUFFICES ASSUME Init
               PROVE  TypeOK
    OBVIOUS
  <1>1. UINT \in Nat \ {0}
    <2>1. 16 ^ 5 = 1048576
      OBVIOUS
    <2> QED
      BY <2>1, UintAssumption
  <1>2. msg_len_hex \in [1 .. 4 -> 0 .. NotHex]
    BY BehindAssumption DEF Init
  <1>3. nleft \in 0 .. UINT - 1
    BY <1>1 DEF Init
  <1>4. /\ sent \in Seq({Body(m, l) : m \in 1 .. MaxMsgs, l \in Length})
        /\ out \in Seq(Byte) /\ wire \in Seq(Byte) /\ message \in Seq(Byte)
        /\ printed \in Seq(Seq(Byte \union {Garbage}))
    BY EmptySeq DEF Init
  <1>5. open \in BOOLEAN /\ harmed \in BOOLEAN /\ phase \in {"header", "body", "closed"}
    BY Zenon DEF Init
  <1> QED
    BY <1>2, <1>3, <1>4, <1>5 DEF TypeOK

-----------------------------------------------------------------------------
(***************************************************************************)
(* Where every byte belongs.  InStep is not inductive: that the next header *)
(* is where the listener looks for it depends on every frame before it.    *)
(* With at[m] bytes written before message m, and r bytes read so far, the *)
(* inductive invariant says which byte of which frame each byte is that    *)
(* lies in wire or waits in out, and how r relates to what was printed.    *)
(* A message that a writer's end cut short is the last, so that nothing is *)
(* read after it.  Nothing is said once a length has been misread.         *)
(***************************************************************************)

(* What Writen was given.                                                  *)
BodiesSent ==
    \A m \in 1 .. Len(sent) :
        m \in 1 .. MaxMsgs /\ Len(sent[m]) \in Length /\ sent[m] = Body(m, Len(sent[m]))

(* at[m] bytes come before the frame of message m.                         *)
Offsets(at) ==
    /\ at \in [1 .. Len(sent) + 1 -> Nat] /\ at[1] = 0
    /\ \A m \in 1 .. Len(sent) : at[m + 1] = at[m] + 4 + Len(sent[m])
    /\ \A m, n \in 1 .. Len(sent) + 1 : m <= n => at[m] <= at[n]

(* After r bytes read, wire and out hold the frames' bytes in order: out   *)
(* the end of the last frame, wire what lies before it.                    *)
Placed(at, r) ==
    /\ r + Len(wire) + Len(out) <= at[Len(sent) + 1]
    /\ open => r + Len(wire) + Len(out) = at[Len(sent) + 1]
    /\ ~open => out = <<>>
    /\ \A m \in 1 .. Len(sent) : at[m] <= r + Len(wire)
    /\ \A m \in 1 .. Len(sent) : \A j \in 1 .. 4 + Len(sent[m]) :
          at[m] + j - r \in 1 .. Len(wire)
              => wire[at[m] + j - r] = Frame(m, Len(sent[m]))[j]
    /\ \A i \in 1 .. Len(out) :
          out[i] = Frame(Len(sent), Len(sent[Len(sent)]))[4 + Len(sent[Len(sent)]) - Len(out) + i]

(* r is the end of the last message printed, or as far into the next as    *)
(* the listener's message goes.                                            *)
Reading(at, r) ==
    /\ Len(printed) <= Len(sent)
    /\ phase = "header" =>
          \/ r = at[Len(printed) + 1]
          \/ Len(printed) = Len(sent) /\ wire = <<>> /\ ~open
    /\ phase = "body" =>
          /\ Len(printed) < Len(sent)
          /\ r = at[Len(printed) + 1] + 4 + Len(message)
          /\ Len(message) + nleft = Len(sent[Len(printed) + 1])
          /\ \A i \in 1 .. Len(message) : message[i] = sent[Len(printed) + 1][i]

Located(at, r) == Offsets(at) /\ Placed(at, r) /\ Reading(at, r)

SInv == TypeOK /\ BodiesSent /\ (~harmed => \E at, r : r \in Nat /\ Located(at, r))

(* Every length is a natural number.                                       *)
LEMMA Lengths ==
    ASSUME TypeOK
    PROVE  /\ Len(sent) \in Nat /\ Len(wire) \in Nat /\ Len(out) \in Nat
           /\ Len(message) \in Nat /\ Len(printed) \in Nat /\ nleft \in Nat
  <1>1. UINT \in Nat
    BY UintAssumption
  <1> QED
    BY <1>1, LenProperties DEF TypeOK

(* A message sent is the body of one of the lengths allowed.               *)
LEMMA SentLengths ==
    ASSUME BodiesSent, NEW m \in 1 .. Len(sent)
    PROVE  /\ m \in 1 .. MaxMsgs /\ Len(sent[m]) \in Nat /\ Len(sent[m]) \in Length
           /\ sent[m] = Body(m, Len(sent[m]))
  BY LengthAssumption DEF BodiesSent

(* Offsets are natural numbers.                                            *)
LEMMA OffsetsNatural ==
    ASSUME TypeOK, NEW at, Offsets(at)
    PROVE  \A m \in 1 .. Len(sent) + 1 : at[m] \in Nat
  BY Zenon DEF Offsets

(* at has a place for every message, and one behind the last.              *)
LEMMA Places ==
    ASSUME TypeOK
    PROVE  /\ Len(sent) + 1 \in 1 .. Len(sent) + 1
           /\ \A m \in 1 .. Len(sent) : m \in 1 .. Len(sent) + 1 /\ m + 1 \in 1 .. Len(sent) + 1
  <1>1. Len(sent) \in Nat
    BY Lengths
  <1> QED
    BY <1>1

(* read or Readn takes n bytes from the connection.                        *)
ReadsOff(n) ==
    wire' = SubSeq(wire, n + 1, Len(wire)) /\ UNCHANGED <<sent, out, open>>

(* What is left of the connection stays in its place.                      *)
LEMMA DropPlaced ==
    ASSUME TypeOK, BodiesSent, NEW at, NEW r \in Nat, Offsets(at), Placed(at, r),
           NEW n \in 0 .. Len(wire), ReadsOff(n)
    PROVE  r + n \in Nat /\ Placed(at, r + n)' /\ Len(wire') = Len(wire) - n
  <1>1. /\ Len(sent) \in Nat /\ Len(wire) \in Nat /\ Len(out) \in Nat
        /\ n \in Nat /\ wire \in Seq(Byte)
    BY Lengths DEF TypeOK
  <1>2. /\ Len(wire') = Len(wire) - n
        /\ \A i \in 1 .. Len(wire) - n : wire'[i] = wire[n + i]
    BY <1>1, Left DEF ReadsOff
  <1>0. UNCHANGED <<sent, out, open>>
    BY DEF ReadsOff
  <1>3. at[Len(sent) + 1] \in Nat /\ \A m \in 1 .. Len(sent) : at[m] \in Nat
    BY OffsetsNatural, Places, Zenon
  <1>4. ASSUME NEW m \in 1 .. Len(sent), NEW j \in 1 .. 4 + Len(sent[m]),
               at[m] + j - (r + n) \in 1 .. Len(wire')
        PROVE  wire'[at[m] + j - (r + n)] = Frame(m, Len(sent[m]))[j]
    <2>1. Len(sent[m]) \in Nat /\ at[m] \in Nat
      BY <1>3, SentLengths
    <2>2. j \in Nat
      BY <2>1
    <2>3. PICK i \in 1 .. Len(wire) - n : i = at[m] + j - (r + n)
      BY <1>2, <1>4
    <2>4. n + i = at[m] + j - r /\ n + i \in 1 .. Len(wire)
      <3>1. PICK p \in Nat, w \in Nat : p = at[m] /\ w = Len(wire)
        BY <1>1, <2>1
      <3>2. i = p + j - (r + n) /\ i \in 1 .. w - n
        BY <2>3, <3>1
      <3>3. n + i = p + j - r /\ n + i \in 1 .. w
        BY <1>1, <2>2, <3>2
      <3> QED
        BY <3>1, <3>3
    <2>5. wire[n + i] = Frame(m, Len(sent[m]))[j]
      <3>1. at[m] + j - r \in 1 .. Len(wire)
        BY <2>4, Zenon
      <3>2. wire[at[m] + j - r] = Frame(m, Len(sent[m]))[j]
        BY <3>1, Zenon DEF Placed
      <3> QED
        BY <2>4, <3>2, Zenon
    <2> QED
      BY <1>2, <2>3, <2>5, Zenon
  <1>5. /\ (r + n) + Len(wire') + Len(out) <= at[Len(sent) + 1]
        /\ open => (r + n) + Len(wire') + Len(out) = at[Len(sent) + 1]
        /\ \A m \in 1 .. Len(sent) : at[m] <= (r + n) + Len(wire')
    <2>1. (r + n) + Len(wire') = r + Len(wire)
      BY <1>1, <1>2
    <2>2. /\ r + Len(wire) + Len(out) <= at[Len(sent) + 1]
          /\ open => r + Len(wire) + Len(out) = at[Len(sent) + 1]
          /\ \A m \in 1 .. Len(sent) : at[m] <= r + Len(wire)
      BY DEF Placed
    <2> QED
      BY <1>0, <2>1, <2>2
  <1>6. Placed(at, r + n)'
    BY <1>0, <1>4, <1>5, Zenon DEF Placed
  <1> QED
    BY <1>1, <1>2, <1>6

(* The bytes taken are those of the frame, a bytes of which are read.      *)
LEMMA PickedUp ==
    ASSUME TypeOK, BodiesSent, NEW at, NEW r \in Nat, Offsets(at), Placed(at, r),
           NEW m \in 1 .. Len(sent), NEW a \in Nat, NEW n \in 0 .. Len(wire),
           r = at[m] + a, a + n <= 4 + Len(sent[m])
    PROVE  \A i \in 1 .. n : wire[i] = Frame(m, Len(sent[m]))[a + i]
  <1> SUFFICES ASSUME NEW i \in 1 .. n
               PROVE  wire[i] = Frame(m, Len(sent[m]))[a + i]
    OBVIOUS
  <1>1. /\ Len(sent) \in Nat /\ Len(wire) \in Nat /\ Len(sent[m]) \in Nat
    BY Lengths, SentLengths
  <1>2. at[m] \in Nat
    BY OffsetsNatural, Places, Zenon
  <1>3. a + i \in 1 .. 4 + Len(sent[m])
    BY <1>1
  <1>4. i \in 1 .. Len(wire) /\ i = at[m] + (a + i) - r
    BY <1>1, <1>2
  <1>5. wire[at[m] + (a + i) - r] = Frame(m, Len(sent[m]))[a + i]
    BY <1>3, <1>4, Zenon DEF Placed
  <1> QED
    BY <1>4, <1>5

(* The message handed to Writen becomes the last.                          *)
LEMMA SentGrows ==
    ASSUME TypeOK, NEW l \in Length, sent' = Append(sent, Body(Len(sent) + 1, l)),
           Len(sent) < MaxMsgs
    PROVE  /\ Len(sent') = Len(sent) + 1 /\ Len(sent) + 1 \in 1 .. MaxMsgs
           /\ \A m \in 1 .. Len(sent) : sent'[m] = sent[m]
           /\ sent'[Len(sent) + 1] = Body(Len(sent) + 1, l)
           /\ Len(sent'[Len(sent) + 1]) = l
  <1>1. Len(sent) + 1 \in 1 .. MaxMsgs
    BY Lengths, BoundAssumption
  <1> DEFINE Bodies == {Body(m, k) : m \in 1 .. MaxMsgs, k \in Length}
             b == Body(Len(sent) + 1, l)
  <1>2. b \in Bodies
    BY <1>1
  <1>3. sent \in Seq(Bodies)
    BY DEF TypeOK
  <1> HIDE DEF Bodies, b
  <1>4. /\ Len(sent') = Len(sent) + 1
        /\ \A m \in 1 .. Len(sent) : sent'[m] = sent[m]
        /\ sent'[Len(sent) + 1] = b
    <2>1. sent' = Append(sent, b)
      BY DEF b
    <2>2. /\ Len(Append(sent, b)) = Len(sent) + 1
          /\ \A m \in 1 .. Len(sent) : Append(sent, b)[m] = sent[m]
          /\ Append(sent, b)[Len(sent) + 1] = b
      BY <1>2, <1>3, AppendProperties
    <2> QED
      BY <2>1, <2>2, Zenon
  <1>5. Len(b) = l
    BY <1>1, BodyType, LengthAssumption DEF b
  <1> QED
    BY <1>1, <1>4, <1>5 DEF b

(* Nothing but bodies is sent.                                             *)
LEMMA BodiesStep ==
    ASSUME TypeOK, BodiesSent, [Next]_vars
    PROVE  BodiesSent'
  <1>1. CASE UNCHANGED sent
    BY <1>1 DEF BodiesSent
  <1>2. ASSUME create_send_msg
        PROVE  BodiesSent'
    <2>1. Len(sent) \in Nat /\ Len(sent) < MaxMsgs
      BY <1>2, Lengths DEF create_send_msg
    <2>2. PICK l \in Length : sent' = Append(sent, Body(Len(sent) + 1, l))
      BY <1>2 DEF create_send_msg
    <2>3. /\ Len(sent') = Len(sent) + 1 /\ Len(sent) + 1 \in 1 .. MaxMsgs
          /\ \A m \in 1 .. Len(sent) : sent'[m] = sent[m]
          /\ sent'[Len(sent) + 1] = Body(Len(sent) + 1, l)
          /\ Len(sent'[Len(sent) + 1]) = l
      BY <2>1, <2>2, SentGrows
    <2>4. ASSUME NEW m \in 1 .. Len(sent')
          PROVE  /\ m \in 1 .. MaxMsgs /\ Len(sent'[m]) \in Length
                 /\ sent'[m] = Body(m, Len(sent'[m]))
      <3>1. m \in 1 .. Len(sent) \/ m = Len(sent) + 1
        BY <2>1, <2>3
      <3>2. CASE m \in 1 .. Len(sent)
        BY <2>3, <3>2 DEF BodiesSent
      <3>3. CASE m = Len(sent) + 1
        BY <2>3, <3>3
      <3> QED
        BY <3>1, <3>2, <3>3
    <2> QED
      BY <2>4 DEF BodiesSent
  <1>3. create_send_msg \/ UNCHANGED sent
    BY DEF Next, Listen, writen, exit, read_header, readn, print_message, print_cut, read_eof, vars
  <1> QED
    BY <1>1, <1>2, <1>3

(* A message is handed to Writen: another frame begins behind the last.    *)
LEMMA LocatedSend ==
    ASSUME TypeOK, BodiesSent, NEW at, NEW r \in Nat, Located(at, r), create_send_msg
    PROVE  \E at2, r2 : r2 \in Nat /\ Located(at2, r2)'
  <1>1. /\ open /\ out = <<>> /\ Len(sent) < MaxMsgs
        /\ UNCHANGED <<open, wire, phase, nleft, message, printed>>
    BY DEF create_send_msg
  <1>2. PICK l \in Length : /\ sent' = Append(sent, Body(Len(sent) + 1, l))
                            /\ out' = Frame(Len(sent) + 1, l)
    BY DEF create_send_msg
  <1>3. /\ Len(sent') = Len(sent) + 1 /\ Len(sent) + 1 \in 1 .. MaxMsgs
        /\ \A m \in 1 .. Len(sent) : sent'[m] = sent[m]
        /\ Len(sent'[Len(sent) + 1]) = l
    BY <1>1, <1>2, SentGrows
  <1>4. Len(out') = 4 + l /\ l \in Nat /\ Len(out) = 0
    BY <1>1, <1>2, <1>3, FrameType, LengthsFit
  <1>5. Offsets(at) /\ Placed(at, r) /\ Reading(at, r)
    BY DEF Located
  <1>6. PICK N \in Nat, W \in Nat, P \in Nat :
            N = Len(sent) /\ W = Len(wire) /\ P = Len(printed)
    BY Lengths
  <1>7. PICK t \in Nat : t = at[N + 1]
    BY <1>5, <1>6, OffsetsNatural, Places, Zenon
  <1>8. /\ at \in [1 .. N + 1 -> Nat] /\ at[1] = 0
        /\ \A m \in 1 .. N : at[m + 1] = at[m] + 4 + Len(sent[m])
        /\ \A m, n \in 1 .. N + 1 : m <= n => at[m] <= at[n]
    BY <1>5, <1>6, Zenon DEF Offsets
  <1>9. r + W = t
    <2>1. r + Len(wire) + Len(out) = at[Len(sent) + 1]
      BY <1>1, <1>5 DEF Placed
    <2> QED
      BY <1>4, <1>6, <1>7, <2>1
  <1>10. PICK at2 : at2 = [m \in 1 .. N + 2 |-> IF m <= N + 1 THEN at[m] ELSE t + 4 + l]
    OBVIOUS
  <1>11. /\ at2 \in [1 .. N + 2 -> Nat] /\ at2[N + 2] = t + 4 + l
         /\ \A m \in 1 .. N + 1 : at2[m] = at[m]
    BY <1>4, <1>8, <1>10
  <1>12. Offsets(at2)'
    <2>1. at2 \in [1 .. Len(sent') + 1 -> Nat] /\ at2[1] = 0
      <3>1. 1 \in 1 .. N + 1
        OBVIOUS
      <3> QED
        BY <1>3, <1>6, <1>8, <1>11, <3>1
    <2>2. ASSUME NEW m \in 1 .. Len(sent')
          PROVE  at2[m + 1] = at2[m] + 4 + Len(sent'[m])
      <3>1. m \in 1 .. N \/ m = N + 1
        BY <1>3, <1>6
      <3>2. CASE m \in 1 .. N
        <4>1. m \in 1 .. N + 1 /\ m + 1 \in 1 .. N + 1
          BY <3>2
        <4>2. sent'[m] = sent[m]
          BY <1>3, <1>6, <3>2
        <4> QED
          BY <1>8, <1>11, <3>2, <4>1, <4>2
      <3>3. CASE m = N + 1
        BY <1>3, <1>4, <1>6, <1>7, <1>11, <3>3, SMTT(20)
      <3> QED
        BY <3>1, <3>2, <3>3
    <2>3. ASSUME NEW m \in 1 .. Len(sent') + 1, NEW n \in 1 .. Len(sent') + 1, m <= n
          PROVE  at2[m] <= at2[n]
      <3>1. m \in 1 .. N + 2 /\ n \in 1 .. N + 2
        BY <1>3, <1>6
      <3>2. CASE n = N + 2 /\ m # N + 2
        <4>1. m \in 1 .. N + 1 /\ m <= N + 1 /\ N + 1 \in 1 .. N + 1
          BY <3>1, <3>2
        <4>2. at2[m] <= t /\ at2[m] \in Nat
          BY <1>7, <1>8, <1>11, <4>1
        <4> QED
          BY <1>4, <1>11, <3>2, <4>2
      <3>3. CASE n # N + 2
        <4>1. m \in 1 .. N + 1 /\ n \in 1 .. N + 1
          BY <2>3, <3>1, <3>3
        <4> QED
          BY <1>8, <1>11, <2>3, <4>1
      <3>4. CASE m = N + 2
        BY <1>4, <1>11, <2>3, <3>1, <3>4
      <3> QED
        BY <3>2, <3>3, <3>4
    <2> QED
      BY <2>1, <2>2, <2>3 DEF Offsets
  <1>13. Placed(at2, r)'
    <2>1. r + Len(wire') + Len(out') = at2[Len(sent') + 1]
      <3>1. r + W + (4 + l) = at2[N + 2] /\ Len(sent') + 1 = N + 2
        <4>1. r + W + (4 + l) = t + 4 + l
          BY <1>4, <1>9
        <4> QED
          BY <1>3, <1>6, <1>11, <4>1
      <3> QED
        BY <1>1, <1>4, <1>6, <3>1
    <2>2. r + Len(wire') + Len(out') \in Nat
      BY <1>1, <1>4, <1>6
    <2>3. open'
      BY <1>1
    <2>4. ASSUME NEW m \in 1 .. Len(sent')
          PROVE  at2[m] <= r + Len(wire')
      <3>1. m \in 1 .. N + 1 /\ N + 1 \in 1 .. N + 1 /\ m <= N + 1
        BY <1>3, <1>6
      <3>2. at2[m] <= t
        BY <1>7, <1>8, <1>11, <3>1
      <3> QED
        BY <1>1, <1>6, <1>9, <3>2
    <2>5. ASSUME NEW m \in 1 .. Len(sent'), NEW j \in 1 .. 4 + Len(sent'[m]),
                 at2[m] + j - r \in 1 .. Len(wire')
          PROVE  wire'[at2[m] + j - r] = Frame(m, Len(sent'[m]))[j]
      <3>1. m \in 1 .. N \/ m = N + 1
        BY <1>3, <1>6
      <3>2. CASE m \in 1 .. N
        <4>1. at2[m] = at[m] /\ sent'[m] = sent[m] /\ wire' = wire
          BY <1>1, <1>3, <1>6, <1>11, <3>2
        <4> QED
          BY <1>5, <1>6, <2>5, <3>2, <4>1 DEF Placed
      <3>3. CASE m = N + 1
        <4>1. at2[m] = t /\ N + 1 \in 1 .. N + 1
          BY <1>7, <1>11, <3>3
        <4>2. Len(sent'[m]) = l
          BY <1>3, <1>6, <3>3
        <4>3. j \in Nat /\ j >= 1
          BY <1>4, <4>2
        <4>4. t + j - r \in 1 .. W
          BY <1>1, <1>6, <2>5, <4>1
        <4> QED
          BY <1>9, <4>3, <4>4
      <3> QED
        BY <3>1, <3>2, <3>3
    <2>6. ASSUME NEW i \in 1 .. Len(out')
          PROVE  out'[i] = Frame(Len(sent'), Len(sent'[Len(sent')]))
                               [4 + Len(sent'[Len(sent')]) - Len(out') + i]
      <3>1. Len(sent'[Len(sent')]) = l /\ Len(sent') = N + 1
        BY <1>3, <1>6
      <3>2. 4 + l - Len(out') + i = i
        BY <1>4
      <3> QED
        BY <1>2, <1>6, <3>1, <3>2
    <2> QED
      BY <2>1, <2>2, <2>3, <2>4, <2>5, <2>6 DEF Placed
  <1>14. Reading(at2, r)'
    <2>1. /\ P <= N
          /\ phase = "header" => r = at[P + 1]
          /\ phase = "body" =>
                /\ P < N /\ r = at[P + 1] + 4 + Len(message)
                /\ Len(message) + nleft = Len(sent[P + 1])
                /\ \A i \in 1 .. Len(message) : message[i] = sent[P + 1][i]
      BY <1>1, <1>5, <1>6 DEF Reading
    <2>2. P + 1 \in 1 .. N + 1 /\ at2[P + 1] = at[P + 1]
      BY <1>11, <2>1
    <2>3. P < N => sent'[P + 1] = sent[P + 1]
      BY <1>3, <1>6
    <2>4. Len(sent') = N + 1 /\ Len(printed') = P /\ P <= N + 1
      BY <1>1, <1>3, <1>6, <2>1
    <2>5. phase' = "header" => r = at2[Len(printed') + 1]
      BY <1>1, <2>1, <2>2, <2>4
    <2>6. phase' = "body" =>
              /\ Len(printed') < Len(sent')
              /\ r = at2[Len(printed') + 1] + 4 + Len(message')
              /\ Len(message') + nleft' = Len(sent'[Len(printed') + 1])
              /\ \A i \in 1 .. Len(message') : message'[i] = sent'[Len(printed') + 1][i]
      BY <1>1, <2>1, <2>2, <2>3, <2>4
    <2> QED
      BY <2>4, <2>5, <2>6 DEF Reading
  <1> QED
    BY <1>12, <1>13, <1>14 DEF Located

(* write takes a part of the last frame.                                   *)
LEMMA LocatedWriten ==
    ASSUME TypeOK, BodiesSent, NEW at, NEW r \in Nat, Located(at, r), writen
    PROVE  Located(at, r)'
  <1>1. PICK n \in 1 .. Len(out) :
            /\ wire' = wire \o SubSeq(out, 1, n)
            /\ out' = SubSeq(out, n + 1, Len(out))
            /\ UNCHANGED <<sent, open, msg_len_hex, phase, nleft, message, printed, harmed>>
    BY DEF writen
  <1>2. PICK N \in Nat, W \in Nat, L \in Nat :
            N = Len(sent) /\ W = Len(wire) /\ L = Len(out)
    BY Lengths
  <1>3. n \in 0 .. Len(out) /\ n \in 1 .. L /\ out \in Seq(Byte) /\ wire \in Seq(Byte)
    BY <1>2 DEF TypeOK
  <1>4. /\ Len(SubSeq(out, 1, n)) = n /\ SubSeq(out, 1, n) \in Seq(Byte)
        /\ \A i \in 1 .. n : SubSeq(out, 1, n)[i] = out[i]
    BY <1>3, Taken
  <1>5. /\ Len(out') = L - n
        /\ \A i \in 1 .. L - n : out'[i] = out[n + i]
    <2>1. /\ Len(SubSeq(out, n + 1, Len(out))) = Len(out) - n
          /\ \A i \in 1 .. Len(out) - n : SubSeq(out, n + 1, Len(out))[i] = out[n + i]
      BY <1>3, Left
    <2> QED
      BY <1>1, <1>2, <2>1, Zenon
  <1>6. /\ Len(wire') = W + n
        /\ \A i \in 1 .. W : wire'[i] = wire[i]
        /\ \A i \in 1 .. n : wire'[W + i] = out[i]
    <2> DEFINE s == SubSeq(out, 1, n)
    <2>1. wire' = wire \o s
      BY <1>1
    <2>2. s \in Seq(Byte) /\ Len(s) = n /\ \A i \in 1 .. n : s[i] = out[i]
      BY <1>4
    <2> HIDE DEF s
    <2>3. wire \in Seq(Byte) /\ s \in Seq(Byte)
      BY <1>3, <2>2
    <2>4. /\ Len(wire \o s) = Len(wire) + Len(s)
          /\ \A i \in 1 .. Len(wire) : (wire \o s)[i] = wire[i]
          /\ \A i \in 1 .. Len(s) : (wire \o s)[Len(wire) + i] = s[i]
      BY <2>3, Joined
    <2> QED
      BY <1>2, <2>1, <2>2, <2>4, Zenon
  <1>7. Offsets(at) /\ Placed(at, r) /\ Reading(at, r)
    BY DEF Located
  <1>8. open /\ r + W + L = at[N + 1] /\ \A m \in 1 .. N : at[m] <= r + W
    <2>1. open
      BY <1>2, <1>3, <1>7, EmptySeq DEF Placed
    <2> QED
      BY <1>2, <1>7, <2>1 DEF Placed
  <1>9. \A m \in 1 .. N : at[m + 1] = at[m] + 4 + Len(sent[m])
    BY <1>2, <1>7, Zenon DEF Offsets
  <1>10. \A m, n_2 \in 1 .. N + 1 : m <= n_2 => at[m] <= at[n_2]
    BY <1>2, <1>7, Zenon DEF Offsets
  <1>11. \A m \in 1 .. N + 1 : at[m] \in Nat
    BY <1>2, <1>7, OffsetsNatural, Zenon
  <1>12. \A m \in 1 .. N : Len(sent[m]) \in Nat
    BY <1>2, SentLengths
  <1>13. \A i \in 1 .. L : out[i] = Frame(N, Len(sent[N]))[4 + Len(sent[N]) - L + i]
    BY <1>2, <1>7, Zenon DEF Placed
  <1>14. N >= 1
    <2>1. CASE N = 0
      <3>1. at[1] = 0
        BY <1>7 DEF Offsets
      <3>2. r + W + L = 0
        BY <1>8, <2>1, <3>1
      <3> QED
        BY <1>3, <3>2
    <2> QED
      BY <2>1
  <1>15. Placed(at, r)'
    <2>1. r + (W + n) + (L - n) = at[N + 1]
      BY <1>3, <1>8
    <2>2. /\ r + Len(wire') + Len(out') = at[N + 1]
          /\ at[N + 1] \in Nat
      BY <1>5, <1>6, <1>11, <2>1
    <2>3. open' /\ sent' = sent
      BY <1>1, <1>8
    <2>4. \A m \in 1 .. N : at[m] <= r + Len(wire')
      <3>1. r + W <= r + Len(wire')
        BY <1>3, <1>6
      <3> QED
        BY <1>6, <1>8, <1>11, <3>1
    <2>5. ASSUME NEW m \in 1 .. N, NEW j \in 1 .. 4 + Len(sent[m]),
                 at[m] + j - r \in 1 .. Len(wire')
          PROVE  wire'[at[m] + j - r] = Frame(m, Len(sent[m]))[j]
      <3>1. PICK a \in Nat, s \in Nat : a = at[m] /\ s = Len(sent[m])
        BY <1>11, <1>12
      <3>2. PICK i : i = a + j - r
        OBVIOUS
      <3>3. i \in 1 .. W + n /\ j \in 1 .. 4 + s
        BY <1>6, <2>5, <3>1, <3>2
      <3>4. CASE i <= W
        <4>1. i \in 1 .. W
          BY <3>3, <3>4
        <4>2. wire[i] = Frame(m, Len(sent[m]))[j]
          BY <1>2, <1>7, <3>1, <3>2, <4>1, Zenon DEF Placed
        <4> QED
          BY <1>6, <3>1, <3>2, <4>1, <4>2
      <3>5. CASE i > W
        <4>1. a + j > r + W
          BY <3>2, <3>3, <3>5
        <4>2. m = N
          <5>1. CASE m < N
            <6>1. m + 1 \in 1 .. N + 1 /\ N \in 1 .. N + 1 /\ m + 1 <= N /\ N \in 1 .. N
              BY <5>1
            <6>2. at[m + 1] <= at[N] /\ at[N] <= r + W
              BY <1>8, <1>10, <6>1, Zenon
            <6>3. at[m + 1] = a + 4 + s
              BY <1>9, <3>1
            <6>4. at[m + 1] \in Nat /\ at[N] \in Nat
              BY <1>11, <6>1
            <6>5. a + 4 + s <= r + W
              BY <6>2, <6>3, <6>4
            <6> QED
              BY <3>3, <4>1, <6>5
          <5> QED
            BY <5>1
        <4>3. at[N + 1] = a + 4 + s
          BY <1>9, <3>1, <4>2
        <4>4. i - W \in 1 .. n /\ i = W + (i - W)
          BY <3>3, <3>5
        <4>5. wire'[i] = out[i - W]
          BY <1>6, <4>4, Zenon
        <4>6. i - W \in 1 .. L /\ 4 + s - L + (i - W) = j
          <5>1. r + W + L = a + 4 + s
            BY <1>8, <4>3
          <5> QED
            BY <1>3, <3>2, <3>3, <4>4, <5>1
        <4>7. out[i - W] = Frame(m, Len(sent[m]))[j]
          BY <1>13, <3>1, <4>2, <4>6
        <4> QED
          BY <3>1, <3>2, <4>5, <4>7
      <3> QED
        BY <3>3, <3>4, <3>5
    <2>6. ASSUME NEW i \in 1 .. Len(out')
          PROVE  out'[i] = Frame(N, Len(sent[N]))[4 + Len(sent[N]) - Len(out') + i]
      <3>1. i \in 1 .. L - n /\ n + i \in 1 .. L
        BY <1>3, <1>5
      <3>2. N \in 1 .. N
        BY <1>14
      <3>3. 4 + Len(sent[N]) - Len(out') + i = 4 + Len(sent[N]) - L + (n + i)
        <4>1. PICK s \in Nat, k \in Nat : s = Len(sent[N]) /\ k = Len(out') /\ k = L - n
          BY <1>3, <1>5, <1>12, <3>2
        <4>2. 4 + s - k + i = 4 + s - L + (n + i)
          <5>1. n \in Int /\ i \in Int
            BY <1>3, <3>1
          <5>2. L = k + n
            BY <4>1, <5>1
          <5>3. 4 + s - k + i = 4 + s - (k + n) + (n + i)
            BY <5>1
          <5> QED
            BY <5>2, <5>3
        <4> QED
          BY <4>1, <4>2, Zenon
      <3> QED
        BY <1>5, <1>13, <3>1, <3>3
    <2> QED
      BY <1>2, <2>2, <2>3, <2>4, <2>5, <2>6 DEF Placed
  <1>16. Offsets(at)' /\ Reading(at, r)'
    BY <1>1, <1>7, <1>8 DEF Offsets, Reading
  <1> QED
    BY <1>15, <1>16 DEF Located

(* A writer that ends takes with it what it had still to write.            *)
LEMMA LocatedExit ==
    ASSUME TypeOK, BodiesSent, NEW at, NEW r \in Nat, Located(at, r), exit
    PROVE  Located(at, r)'
  <1>1. /\ open /\ open' = FALSE /\ out' = <<>>
        /\ UNCHANGED <<sent, wire, msg_len_hex, phase, nleft, message, printed, harmed>>
    BY DEF exit
  <1>2. Offsets(at) /\ Placed(at, r) /\ Reading(at, r)
    BY DEF Located
  <1>3. Len(out') = 0 /\ Len(out) \in Nat /\ Len(wire) \in Nat
    BY <1>1, Lengths
  <1>4. r + Len(wire) + Len(out') <= at[Len(sent) + 1]
    <2>1. r + Len(wire) + Len(out) = at[Len(sent) + 1]
      BY <1>1, <1>2, Zenon DEF Placed
    <2>2. at[Len(sent) + 1] \in Nat
      BY <1>2, OffsetsNatural, Places, Zenon
    <2> QED
      BY <1>3, <2>1, <2>2
  <1>5. \A i \in 1 .. Len(out') : FALSE
    BY <1>3
  <1>6. Placed(at, r)'
    BY <1>1, <1>2, <1>4, <1>5 DEF Placed
  <1>7. Offsets(at)' /\ Reading(at, r)'
    BY <1>1, <1>2 DEF Offsets, Reading
  <1> QED
    BY <1>6, <1>7 DEF Located

(* A header read in one piece, and not with the byte behind it, holds the  *)
(* length of the message that follows.                                     *)
LEMMA LocatedHeader ==
    ASSUME TypeOK, BodiesSent, NEW at, NEW r \in Nat, Located(at, r), read_header, ~harmed'
    PROVE  \E r2 : r2 \in Nat /\ Located(at, r2)'
  <1> DEFINE n == Least(4, Len(wire))
             array == [k \in 1 .. 4 |-> IF k <= n THEN wire[k].hex ELSE msg_len_hex[k]]
  <1>1. /\ phase = "header" /\ wire # <<>> /\ phase' = "body" /\ message' = <<>>
        /\ ReadsOff(n) /\ UNCHANGED <<sent, out, open, printed>>
    BY DEF read_header, ReadsOff
  <1>2. PICK behind \in Behind : /\ nleft' = MsgLen(HexToInt(array, behind))
                                 /\ harmed' = (harmed \/ n < 4 \/ behind # NotHex)
    BY DEF read_header
  <1>3. ~(n < 4) /\ behind = NotHex
    BY <1>2, Zenon
  <1>4. n = 4 /\ 4 \in 0 .. Len(wire)
    BY <1>3, Lengths DEF Least
  <1>5. Offsets(at) /\ Placed(at, r) /\ Reading(at, r)
    BY DEF Located
  <1>6. PICK N \in Nat, P \in Nat : N = Len(sent) /\ P = Len(printed)
    BY Lengths
  <1>7. P <= N /\ r = at[P + 1]
    BY <1>1, <1>5, <1>6 DEF Reading
  <1>8. P < N
    <2>1. CASE P = N
      <3>1. PICK t \in Nat, w \in Nat, o \in Nat :
                t = at[Len(sent) + 1] /\ w = Len(wire) /\ o = Len(out)
        BY <1>5, OffsetsNatural, Places, Lengths, Zenon
      <3>2. r + w + o <= t
        BY <1>5, <3>1, Zenon DEF Placed
      <3>3. r = t /\ w >= 4
        BY <1>4, <1>6, <1>7, <2>1, <3>1
      <3> QED
        BY <3>2, <3>3
    <2> QED
      BY <1>7, <2>1
  <1>9. PICK m \in 1 .. Len(sent) : m = P + 1
    BY <1>6, <1>8
  <1>10. PICK l \in Length : l = Len(sent[m]) /\ l \in Nat
    BY SentLengths
  <1>11. m \in 1 .. MaxMsgs
    BY SentLengths
  <1>12. \A i \in 1 .. 4 : wire[i] = Frame(m, l)[i]
    <2>1. \A i \in 1 .. 4 : wire[i] = Frame(m, Len(sent[m]))[0 + i]
      <3>1. at[m] \in Nat /\ r = at[m]
        BY <1>5, <1>7, <1>9, OffsetsNatural, Places
      <3>2. r = at[m] + 0 /\ 0 + 4 <= 4 + Len(sent[m])
        BY <1>10, <3>1
      <3> QED
        BY <1>4, <1>5, <3>2, 0 \in Nat, PickedUp, SMTT(20)
    <2> QED
      BY <1>10, <2>1
  <1>13. array = IntToHex4(ToSendLen(l))
    <2>1. \A i \in 1 .. 4 : wire[i].hex = IntToHex4(ToSendLen(l))[i]
      <3>1. \A i \in 1 .. 4 : Frame(m, l)[i].hex = IntToHex4(ToSendLen(l))[i]
        BY <1>11, LengthsFit, FrameType, Zenon
      <3> QED
        BY <1>12, <3>1, Zenon
    <2>2. IntToHex4(ToSendLen(l)) \in [1 .. 4 -> 0 .. 15]
      BY LengthsFit, FittingDigits
    <2> DEFINE h == IntToHex4(ToSendLen(l))
    <2> HIDE DEF h, n
    <2>3. array \in [1 .. 4 -> 0 .. 15] /\ \A i \in 1 .. 4 : array[i] = h[i]
      <3>1. \A i \in 1 .. 4 : (IF i <= n THEN wire[i].hex ELSE msg_len_hex[i]) = h[i]
        BY <1>4, <2>1 DEF h
      <3>2. \A i \in 1 .. 4 : h[i] \in 0 .. 15
        BY <2>2 DEF h
      <3> QED
        BY <3>1, <3>2
    <2> HIDE DEF array
    <2> QED
      BY <2>2, <2>3 DEF h
  <1>14. nleft' = l
    BY <1>2, <1>3, <1>13, HeaderCarriesLength
  <1> HIDE DEF array
  <1>15. r + 4 \in Nat /\ Placed(at, r + 4)'
    <2>1. ReadsOff(4)
      BY <1>1, <1>4
    <2> HIDE DEF n
    <2> QED
      BY <1>4, <1>5, <2>1, DropPlaced
  <1>16. Offsets(at)'
    BY <1>1, <1>5 DEF Offsets
  <1>17. Reading(at, r + 4)'
    <2>1. Len(message') = 0
      BY <1>1
    <2>2. /\ Len(printed') < Len(sent')
          /\ r + 4 = at[Len(printed') + 1] + 4 + Len(message')
          /\ Len(message') + nleft' = Len(sent'[Len(printed') + 1])
      <3>1. at[m] \in Nat /\ r = at[m]
        BY <1>5, <1>7, <1>9, OffsetsNatural, Places
      <3> QED
        BY <1>1, <1>6, <1>8, <1>9, <1>10, <1>14, <2>1, <3>1
    <2>3. \A i \in 1 .. Len(message') : FALSE
      BY <2>1
    <2>4. Len(printed') <= Len(sent')
      BY <1>1, <1>6, <1>7
    <2> QED
      BY <1>1, <2>2, <2>3, <2>4 DEF Reading
  <1> QED
    BY <1>15, <1>16, <1>17 DEF Located

(* Readn gets more of the message.                                         *)
LEMMA LocatedReadn ==
    ASSUME TypeOK, BodiesSent, NEW at, NEW r \in Nat, Located(at, r), readn
    PROVE  \E r2 : r2 \in Nat /\ Located(at, r2)'
  <1>1. PICK n : n = Least(nleft, Len(wire))
    OBVIOUS
  <1>2. /\ phase = "body"
        /\ message' = message \o SubSeq(wire, 1, n)
        /\ nleft' = nleft - n
        /\ ReadsOff(n) /\ UNCHANGED <<sent, out, open, phase, printed>>
    BY <1>1 DEF readn, ReadsOff
  <1>3. PICK M \in Nat, N \in Nat, P \in Nat, k \in Nat :
            M = Len(message) /\ N = Len(sent) /\ P = Len(printed) /\ k = nleft
    BY Lengths
  <1>4. n \in 0 .. k /\ n \in 0 .. Len(wire) /\ n \in Nat
    BY <1>1, <1>3, Lengths, LeastType
  <1>5. Offsets(at) /\ Placed(at, r) /\ Reading(at, r)
    BY DEF Located
  <1>6. /\ P < N /\ r = at[P + 1] + 4 + M
        /\ M + k = Len(sent[P + 1])
        /\ \A i \in 1 .. M : message[i] = sent[P + 1][i]
    BY <1>2, <1>3, <1>5 DEF Reading
  <1>7. PICK m \in 1 .. Len(sent) : m = P + 1
    BY <1>3, <1>6
  <1>8. PICK l \in Length : l = Len(sent[m]) /\ l \in Nat /\ sent[m] = Body(m, l)
    BY SentLengths
  <1>9. PICK b \in Nat : b = at[m]
    BY <1>5, OffsetsNatural, Places
  <1>10. m \in 1 .. MaxMsgs /\ M + k = l /\ r = b + 4 + M
    BY <1>6, <1>7, <1>8, <1>9, SentLengths
  <1>11. \A i \in 1 .. n : wire[i] = Frame(m, l)[(4 + M) + i]
    <2>1. PICK a \in Nat : a = 4 + M
      OBVIOUS
    <2>2. r = b + a /\ a + n <= 4 + l
      BY <1>4, <1>10, <2>1
    <2>3. r = at[m] + a /\ a + n <= 4 + Len(sent[m])
      BY <1>8, <1>9, <2>2
    <2>4. \A i \in 1 .. n : wire[i] = Frame(m, Len(sent[m]))[a + i]
      BY <1>4, <1>5, <2>3, PickedUp
    <2> QED
      BY <1>8, <2>1, <2>4
  <1>12. ASSUME NEW i \in 1 .. n
         PROVE  wire[i] = sent[m][M + i]
    <2>1. M + i \in 1 .. l /\ (4 + M) + i = 4 + (M + i)
      BY <1>4, <1>10
    <2>2. Frame(m, l)[4 + (M + i)] = Body(m, l)[M + i]
      <3>1. \A x \in 1 .. l : Frame(m, l)[4 + x] = Body(m, l)[x]
        BY <1>10, LengthsFit, FrameType
      <3> QED
        BY <2>1, <3>1, Zenon
    <2>3. wire[i] = Frame(m, l)[(4 + M) + i]
      BY <1>11, Zenon
    <2> QED
      BY <1>8, <2>1, <2>2, <2>3, Zenon
  <1>13. /\ Len(message') = M + n
         /\ \A i \in 1 .. M : message'[i] = message[i]
         /\ \A i \in 1 .. n : message'[M + i] = wire[i]
    <2> DEFINE s == SubSeq(wire, 1, n)
    <2>1. message' = message \o s /\ message \in Seq(Byte) /\ wire \in Seq(Byte)
      BY <1>2 DEF TypeOK
    <2>2. s \in Seq(Byte) /\ Len(s) = n /\ \A i \in 1 .. n : s[i] = wire[i]
      BY <1>4, <2>1, Taken
    <2> HIDE DEF s
    <2>3. message \in Seq(Byte) /\ s \in Seq(Byte)
      BY <2>1, <2>2
    <2>4. /\ Len(message \o s) = Len(message) + Len(s)
          /\ \A i \in 1 .. Len(message) : (message \o s)[i] = message[i]
          /\ \A i \in 1 .. Len(s) : (message \o s)[Len(message) + i] = s[i]
      BY <2>3, Joined
    <2> QED
      BY <1>3, <2>1, <2>2, <2>4, Zenon
  <1>14. r + n \in Nat /\ Placed(at, r + n)'
    BY <1>2, <1>4, <1>5, DropPlaced, Zenon
  <1>15. Offsets(at)'
    BY <1>2, <1>5 DEF Offsets
  <1>16. Reading(at, r + n)'
    <2>1. r + n = b + 4 + (M + n) /\ (M + n) + (k - n) = l
      BY <1>4, <1>10
    <2>2. ASSUME NEW i \in 1 .. M + n
          PROVE  message'[i] = sent[m][i]
      <3>1. CASE i \in 1 .. M
        BY <1>6, <1>7, <1>13, <3>1
      <3>2. CASE i \notin 1 .. M
        <4>1. i - M \in 1 .. n /\ M + (i - M) = i
          BY <1>4, <3>2
        <4> QED
          BY <1>12, <1>13, <4>1
      <3> QED
        BY <3>1, <3>2
    <2>3. Len(printed') < Len(sent') /\ Len(printed') <= Len(sent') /\ Len(printed') + 1 = m
      BY <1>2, <1>3, <1>6, <1>7
    <2>4. phase' = "body" /\ phase' # "header" /\ sent' = sent /\ nleft' = k - n
      BY <1>2, <1>3
    <2>5. /\ r + n = at[Len(printed') + 1] + 4 + Len(message')
          /\ Len(message') + nleft' = Len(sent'[Len(printed') + 1])
          /\ \A i \in 1 .. Len(message') : message'[i] = sent'[Len(printed') + 1][i]
      BY <1>8, <1>9, <1>13, <2>1, <2>2, <2>3, <2>4, Zenon
    <2> QED
      BY <2>3, <2>4, <2>5, Zenon DEF Reading
  <1> QED
    BY <1>14, <1>15, <1>16, Zenon DEF Located

(* What is printed after Readn has returned is the next message sent.      *)
LEMMA WholeMessage ==
    ASSUME TypeOK, BodiesSent, NEW at, NEW r \in Nat, Located(at, r),
           phase = "body", nleft = 0
    PROVE  /\ Len(printed) < Len(sent) /\ message = sent[Len(printed) + 1]
           /\ r = at[Len(printed) + 1 + 1]
  <1>1. PICK M \in Nat, P \in Nat, N \in Nat :
            M = Len(message) /\ P = Len(printed) /\ N = Len(sent)
    BY Lengths
  <1>2. Offsets(at) /\ Reading(at, r)
    BY DEF Located
  <1>3. /\ P < N /\ r = at[P + 1] + 4 + M /\ M + nleft = Len(sent[P + 1])
        /\ \A i \in 1 .. M : message[i] = sent[P + 1][i]
    BY <1>1, <1>2 DEF Reading
  <1>4. PICK m \in 1 .. Len(sent) : m = P + 1
    BY <1>1, <1>3
  <1>5. Len(sent[m]) = M
    BY <1>3, <1>4
  <1>6. sent[m] \in Seq(Byte) /\ message \in Seq(Byte)
    <2>1. sent[m] \in Seq(Byte)
      BY SentLengths, BodyType
    <2> QED
      BY <2>1 DEF TypeOK
  <1>7. message = sent[m]
    BY <1>1, <1>3, <1>4, <1>5, <1>6, SeqEqual
  <1>8. at[m + 1] = at[m] + 4 + Len(sent[m])
    BY <1>2, Zenon DEF Offsets
  <1> QED
    BY <1>1, <1>3, <1>4, <1>5, <1>7, <1>8

(* Nothing moves on the connection.                                        *)
LEMMA PlacedKept ==
    ASSUME NEW at, NEW r, Offsets(at), Placed(at, r), UNCHANGED <<sent, out, open, wire>>
    PROVE  Offsets(at)' /\ Placed(at, r)'
  <1>1. Offsets(at)'
    BY DEF Offsets
  <1>2. Placed(at, r)'
    BY DEF Placed
  <1> QED
    BY <1>1, <1>2

(* The listener prints it, and stands before the next header.              *)
LEMMA LocatedMessage ==
    ASSUME TypeOK, BodiesSent, NEW at, NEW r \in Nat, Located(at, r), print_message
    PROVE  Located(at, r)'
  <1>1. /\ phase = "body" /\ nleft = 0 /\ phase' = "header"
        /\ printed' = Append(printed, message)
        /\ UNCHANGED <<sent, out, open, wire>>
    BY DEF print_message
  <1>2. Len(printed) < Len(sent) /\ r = at[Len(printed) + 1 + 1]
    BY <1>1, WholeMessage
  <1>3. Len(printed') = Len(printed) + 1
    BY <1>1 DEF TypeOK
  <1>4. Reading(at, r)'
    <2>1. Len(printed') <= Len(sent')
      BY <1>1, <1>2, <1>3, Lengths
    <2> QED
      BY <1>1, <1>2, <1>3, <2>1 DEF Reading
  <1> QED
    BY <1>1, <1>4, PlacedKept DEF Located

(* A message that ends before its length is the last.                      *)
LEMMA CutIsLast ==
    ASSUME TypeOK, BodiesSent, NEW at, NEW r \in Nat, Located(at, r), print_cut
    PROVE  Len(printed) + 1 = Len(sent)
  <1>1. /\ phase = "body" /\ nleft > 0 /\ Len(wire) = 0
    BY DEF print_cut
  <1>2. PICK M \in Nat, P \in Nat, N \in Nat :
            M = Len(message) /\ P = Len(printed) /\ N = Len(sent)
    BY Lengths
  <1>3. Offsets(at) /\ Placed(at, r) /\ Reading(at, r)
    BY DEF Located
  <1>4. P < N /\ r = at[P + 1] + 4 + M /\ M + nleft = Len(sent[P + 1])
    BY <1>1, <1>2, <1>3 DEF Reading
  <1>5. CASE P + 1 < N
    <2>1. PICK m \in 1 .. Len(sent) : m = P + 1 /\ m + 1 \in 1 .. Len(sent)
      BY <1>2, <1>5
    <2>2. at[m + 1] = at[m] + 4 + Len(sent[m])
      BY <1>3, Zenon DEF Offsets
    <2>3. at[m + 1] <= r + Len(wire)
      BY <1>3, <2>1, Zenon DEF Placed
    <2>4. at[m] \in Nat /\ nleft \in Nat
      BY <1>3, OffsetsNatural, Places, Lengths
    <2> QED
      BY <1>1, <1>4, <2>1, <2>2, <2>3, <2>4
  <1> QED
    BY <1>2, <1>4, <1>5

(* It is printed as it is, and no header is read after it.                 *)
LEMMA LocatedCut ==
    ASSUME TypeOK, BodiesSent, NEW at, NEW r \in Nat, Located(at, r), print_cut
    PROVE  Located(at, r)'
  <1>1. /\ wire = <<>> /\ ~open /\ phase' = "header"
        /\ printed' = Append(printed, Append(message, Garbage))
        /\ UNCHANGED <<sent, out, open, wire>>
    BY DEF print_cut
  <1>2. Len(printed) + 1 = Len(sent)
    BY CutIsLast
  <1>3. Len(printed') = Len(printed) + 1
    BY <1>1 DEF TypeOK
  <1>4. Reading(at, r)'
    <2>1. Len(printed') = Len(sent') /\ Len(printed') <= Len(sent')
      BY <1>1, <1>2, <1>3, Lengths
    <2> QED
      BY <1>1, <2>1 DEF Reading
  <1> QED
    BY <1>1, <1>4, PlacedKept DEF Located

(* The listener closes the connection.                                     *)
LEMMA LocatedEof ==
    ASSUME NEW at, NEW r \in Nat, Located(at, r), read_eof
    PROVE  Located(at, r)'
  <1>1. phase' = "closed" /\ UNCHANGED <<sent, out, open, wire, printed>>
    BY DEF read_eof
  <1>2. Reading(at, r)'
    BY <1>1 DEF Located, Reading
  <1> QED
    BY <1>1, <1>2, PlacedKept DEF Located

(* Nothing happens.                                                        *)
LEMMA LocatedStutter ==
    ASSUME NEW at, NEW r \in Nat, Located(at, r), UNCHANGED vars
    PROVE  Located(at, r)'
  <1>1. UNCHANGED <<sent, out, open, wire, printed, phase, nleft, message>>
    BY DEF vars
  <1>2. Reading(at, r)'
    BY <1>1 DEF Located, Reading
  <1> QED
    BY <1>1, <1>2, PlacedKept DEF Located

(* Once a length has been misread that remains so.                         *)
LEMMA HarmLasts ==
    ASSUME [Next]_vars, ~harmed'
    PROVE  ~harmed
  <1>1. read_header => (harmed => harmed')
    BY DEF read_header
  <1>2. ~read_header => UNCHANGED harmed
    BY DEF Next, Listen, create_send_msg, writen, exit, readn, print_message, print_cut,
           read_eof, vars
  <1> QED
    BY <1>1, <1>2

(* The invariant holds initially, and every step keeps it.                 *)
LEMMA SInvInit == Init => SInv
  <1> SUFFICES ASSUME Init
               PROVE  SInv
    OBVIOUS
  <1>1. TypeOK
    BY TypeInit
  <1>2. Len(sent) = 0 /\ Len(wire) = 0 /\ Len(out) = 0 /\ Len(printed) = 0
    BY DEF Init
  <1>3. BodiesSent
    BY <1>2 DEF BodiesSent
  <1>4. PICK at : at = [m \in 1 .. 1 |-> 0]
    OBVIOUS
  <1>5. Offsets(at)
    BY <1>2, <1>4 DEF Offsets
  <1>6. Placed(at, 0)
    <2>1. at[1] = 0 /\ open
      BY <1>4 DEF Init
    <2> QED
      BY <1>2, <2>1 DEF Placed
  <1>7. Reading(at, 0)
    BY <1>2, <1>4 DEF Init, Reading
  <1> QED
    BY <1>1, <1>3, <1>5, <1>6, <1>7 DEF SInv, Located

(* Every action.                                                           *)
LEMMA SInvStep == SInv /\ [Next]_vars => SInv'
  <1> SUFFICES ASSUME SInv, [Next]_vars
               PROVE  SInv'
    OBVIOUS
  <1>1. TypeOK /\ BodiesSent
    BY DEF SInv
  <1>2. TypeOK' /\ BodiesSent'
    BY <1>1, TypeStep, BodiesStep
  <1>3. ASSUME ~harmed'
        PROVE  \E at, r : r \in Nat /\ Located(at, r)'
    <2>1. PICK at, r : r \in Nat /\ Located(at, r)
      BY <1>3, HarmLasts DEF SInv
    <2> QED
      BY <1>1, <1>3, <2>1, LocatedSend, LocatedWriten, LocatedExit, LocatedHeader, LocatedReadn,
         LocatedMessage, LocatedCut, LocatedEof, LocatedStutter DEF Next, Listen
  <1> QED
    BY <1>2, <1>3 DEF SInv

(* So it always holds.                                                     *)
LEMMA SInvInvariant == Spec => []SInv
  BY SInvInit, SInvStep, PTL DEF Spec

(* Every variable keeps its type, also after a length was misread.         *)
THEOREM TypeCorrect == Spec => []TypeOK
  <1>1. SInv => TypeOK
    BY DEF SInv
  <1> QED
    BY <1>1, SInvInvariant, PTL

(* As long as no header was read in pieces or with the byte behind it, the *)
(* listener stops reading a message where the writer ended it, however     *)
(* write and read cut the bytes.                                           *)
THEOREM InStepAlways == Spec => []InStep
  <1>1. SInv => InStep
    BY DEF SInv, Located, Reading, InStep
  <1> QED
    BY <1>1, SInvInvariant, PTL

(* A connection shows the messages sent, each once, whole and in order     *)
(* until a length is misread: every step of Framing is one of              *)
(* MessageStream or none, for messages of any lengths and any number.      *)
THEOREM ImplementsStream == Spec => StreamSpec
  <1>1. Init => Stream!Init
    BY DEF Init, Stream!Init
  <1>2. ASSUME SInv, [Next]_vars
        PROVE  [Stream!Next]_Stream!vars
    <2>1. TypeOK /\ BodiesSent /\ Len(sent) \in Nat /\ Len(printed) \in Nat
      BY <1>2, Lengths DEF SInv
    <2>2. ASSUME create_send_msg
          PROVE  Stream!Send
      <3>1. Len(sent) + 1 \in 1 .. MaxMsgs
        BY <2>1, <2>2, BoundAssumption DEF create_send_msg
      <3> QED
        BY <2>2, <3>1 DEF create_send_msg, Stream!Send
    <2>3. ASSUME exit
          PROVE  Stream!Close
      BY <2>3 DEF exit, Stream!Close
    <2>4. ASSUME read_header
          PROVE  [Stream!Next]_Stream!vars
      <3>1. /\ UNCHANGED <<sent, printed, open>> /\ (harmed => harmed')
            /\ harmed \in BOOLEAN /\ harmed' \in BOOLEAN
        BY <1>2, <2>1, <2>4, TypeStep DEF read_header, TypeOK
      <3>2. CASE harmed' = harmed
        BY <3>1, <3>2 DEF Stream!vars
      <3>3. CASE ~harmed /\ harmed' = TRUE
        BY <3>1, <3>3 DEF Stream!Misread, Stream!Next
      <3> QED
        BY <3>1, <3>2, <3>3
    <2>5. ASSUME NEW x, printed' = Append(printed, x), x \in Seq(Byte \union {Garbage})
          PROVE  Stream!PrintsSomething
      <3>1. printed \in Seq(Seq(Byte \union {Garbage}))
        BY <2>1 DEF TypeOK
      <3> DEFINE p == Append(printed, x)
      <3>2. /\ Len(p) = Len(printed) + 1 /\ p \in Seq(Seq(Byte \union {Garbage}))
            /\ \A i \in 1 .. Len(printed) : p[i] = printed[i]
        BY <2>5, <3>1, AppendProperties
      <3> HIDE DEF p
      <3>3. Len(printed) \in 0 .. Len(p)
        BY <2>1, <3>2
      <3>4. /\ SubSeq(p, 1, Len(printed)) \in Seq(Seq(Byte \union {Garbage}))
            /\ Len(SubSeq(p, 1, Len(printed))) = Len(printed)
            /\ \A i \in 1 .. Len(printed) : SubSeq(p, 1, Len(printed))[i] = p[i]
        BY <3>2, <3>3, Taken
      <3>5. printed = SubSeq(p, 1, Len(printed))
        BY <3>1, <3>2, <3>4, SeqEqual
      <3> QED
        BY <2>5, <3>2, <3>5 DEF Stream!PrintsSomething, p
    <2>6. message \in Seq(Byte \union {Garbage})
      BY <2>1, SeqMonotonic DEF TypeOK
    <2>7. ASSUME print_message
          PROVE  Stream!Next
      <3>1. /\ phase = "body" /\ nleft = 0 /\ printed' = Append(printed, message)
            /\ UNCHANGED <<sent, open, harmed>>
        BY <2>7 DEF print_message
      <3>2. CASE harmed
        BY <2>5, <2>6, <3>1, <3>2 DEF Stream!PrintAnything, Stream!Next
      <3>3. CASE ~harmed
        <4>1. PICK at, r : r \in Nat /\ Located(at, r)
          BY <1>2, <3>3 DEF SInv
        <4>2. Len(printed) < Len(sent) /\ message = sent[Len(printed) + 1]
          BY <2>1, <3>1, <4>1, WholeMessage
        <4> QED
          BY <3>1, <3>3, <4>2 DEF Stream!Deliver, Stream!Next
      <3> QED
        BY <3>2, <3>3
    <2>8. ASSUME print_cut
          PROVE  Stream!Next
      <3>1. /\ ~open /\ printed' = Append(printed, Append(message, Garbage))
            /\ UNCHANGED <<sent, open, harmed>>
        BY <2>8 DEF print_cut
      <3>2. Stream!PrintsSomething
        <4>1. Append(message, Garbage) \in Seq(Byte \union {Garbage})
          BY <2>6, AppendProperties
        <4> QED
          BY <2>5, <3>1, <4>1
      <3>3. CASE harmed
        BY <3>1, <3>2, <3>3 DEF Stream!PrintAnything, Stream!Next
      <3>4. CASE ~harmed
        <4>1. PICK at, r : r \in Nat /\ Located(at, r)
          BY <1>2, <3>4 DEF SInv
        <4>2. Len(printed) + 1 = Len(sent)
          BY <2>1, <2>8, <4>1, CutIsLast
        <4> QED
          BY <3>1, <3>2, <3>4, <4>2 DEF Stream!PrintCut, Stream!Next
      <3> QED
        BY <3>3, <3>4
    <2>9. ASSUME writen \/ readn \/ read_eof \/ UNCHANGED vars
          PROVE  UNCHANGED Stream!vars
      BY <2>9 DEF writen, readn, read_eof, vars, Stream!vars
    <2> QED
      BY <1>2, <2>2, <2>3, <2>4, <2>7, <2>8, <2>9 DEF Next, Listen, Stream!Next
  <1> QED
    BY <1>1, <1>2, SInvInvariant, PTL DEF Spec, StreamSpec, Stream!Spec

-----------------------------------------------------------------------------
(***************************************************************************)
(* Messages as datagrams.                                                  *)
(***************************************************************************)

(* Every datagram is a message made by create_send_msg or its static twin. *)
IsFrame(d) ==
    \E m \in 1 .. MaxMsgs, l \in Length \union {AUTH_LEN} : d = Frame(m, l)

(* What is peeked stays at the head of the buffer, and the length made of  *)
(* its digits reaches to its end, or beyond it if a fifth digit was read.  *)
PeekOK ==
    rpc = "recv" =>
        /\ rcvq # <<>> /\ peeked = Head(rcvq)
        /\ msg_len - 1 >= Len(peeked)
        /\ ~misread => msg_len - 1 = Len(peeked)

ReceivedOK ==
    \A k \in DOMAIN received :
        /\ received[k].text = SubSeq(received[k].of, 5, Len(received[k].of))
        /\ received[k].garbage => received[k].misread

DInv ==
    /\ DgTypeOK
    /\ \A d \in network : IsFrame(d)
    /\ \A k \in DOMAIN rcvq : IsFrame(rcvq[k])
    /\ PeekOK
    /\ ReceivedOK

-----------------------------------------------------------------------------
(* The frame of a message that fits into four digits.                      *)
LEMMA AFrame ==
    ASSUME NEW d, IsFrame(d)
    PROVE  \E l :
               /\ Fits(l) /\ d \in Seq(Byte) /\ Len(d) = 4 + l
               /\ [k \in 1 .. 4 |-> d[k].hex] = IntToHex4(ToSendLen(l))
  <1>1. PICK m \in 1 .. MaxMsgs, l \in Length \union {AUTH_LEN} : d = Frame(m, l)
    BY DEF IsFrame
  <1>2. Fits(l)
    <2>1. CASE l \in Length
      BY <2>1, LengthsFit
    <2>2. CASE l = AUTH_LEN
      BY <2>2 DEF Fits, AUTH_LEN
    <2> QED
      BY <2>1, <2>2
  <1>3. /\ d \in Seq(Byte) /\ Len(d) = 4 + l
        /\ \A k \in 1 .. 4 : d[k].hex = IntToHex4(ToSendLen(l))[k]
    <2>1. /\ Frame(m, l) \in Seq(Byte) /\ Len(Frame(m, l)) = 4 + l
          /\ \A k \in 1 .. 4 : Frame(m, l)[k].hex = IntToHex4(ToSendLen(l))[k]
      BY <1>2, FrameType
    <2> QED
      BY <1>1, <2>1, Zenon
  <1> DEFINE h == IntToHex4(ToSendLen(l))
  <1>4. h \in [1 .. 4 -> 0 .. 15]
    BY <1>2, FittingDigits
  <1>5. \A k \in 1 .. 4 : d[k].hex = h[k]
    BY <1>3
  <1> HIDE DEF h
  <1>6. h = [k \in 1 .. 4 |-> h[k]]
    BY <1>4
  <1>7. [k \in 1 .. 4 |-> d[k].hex] = h
    BY <1>5, <1>6
  <1> QED
    BY <1>2, <1>3, <1>7 DEF h

(* With a digit behind them, five digits are read.                         *)
LEMMA FiveDigitsRead ==
    ASSUME NEW array \in [1 .. 4 -> 0 .. 15], NEW behind \in 0 .. 15
    PROVE  Leading(Append(array, behind)) = 5
  <1> DEFINE c == Append(array, behind)
  <1>0. array \in Seq(0 .. 15) /\ Len(array) = 4
    <2>1. PICK S : S = 0 .. 15
      OBVIOUS
    <2>2. array \in [1 .. 4 -> S]
      BY <2>1, Zenon
    <2>3. array \in Seq(S) /\ Len(array) = 4
      BY <2>2, FourIsSeq
    <2> QED
      BY <2>1, <2>3, Zenon
  <1>1. PICK a \in Seq(0 .. 15) : a = array /\ Len(a) = 4
    BY <1>0, Zenon
  <1>2. c \in Seq(0 .. 15) /\ Len(c) = 5
    <2> DEFINE D == 0 .. 15
    <2>1. a \in Seq(D) /\ behind \in D
      OBVIOUS
    <2> HIDE DEF D
    <2>2. Len(Append(a, behind)) = Len(a) + 1 /\ Append(a, behind) \in Seq(D)
      BY <2>1, AppendProperties
    <2> QED
      BY <1>1, <2>2 DEF D
  <1> HIDE DEF c
  <1>3. \A i \in 1 .. 5 : c[i] # NotHex
    <2>1. \A i \in 1 .. 5 : c[i] \in 0 .. 15
      BY <1>2, ElementOfSeq
    <2>2. \A x \in 0 .. 15 : x # NotHex
      BY DEF NotHex
    <2> QED
      BY <2>1, <2>2, Zenon
  <1>4. ASSUME NEW n \in 0 .. Len(c), n < Len(c) => c[n + 1] = NotHex
        PROVE  n = 5
    <2>1. CASE n < 5
      <3>1. n + 1 \in 1 .. 5 /\ n < Len(c)
        BY <1>2, <2>1
      <3> QED
        BY <1>3, <1>4, <3>1
    <2> QED
      BY <1>2, <2>1
  <1>5. 5 \in 0 .. Len(c) /\ (\A i \in 1 .. 5 : c[i] # NotHex) /\ ~(5 < Len(c))
    BY <1>2, <1>3
  <1>6. Leading(c) = 5
    BY <1>4, <1>5 DEF Leading
  <1> QED
    BY <1>6 DEF c

(* A fifth digit makes the number larger.                                  *)
LEMMA LongerRead ==
    ASSUME NEW n \in Nat, n < 65536, NEW behind \in 0 .. NotHex
    PROVE  /\ HexToInt(IntToHex4(n), behind) \in Nat
           /\ HexToInt(IntToHex4(n), behind) >= n
           /\ behind = NotHex => HexToInt(IntToHex4(n), behind) = n
  <1>1. CASE behind = NotHex
    BY <1>1, HexRoundTrip
  <1>2. CASE behind # NotHex
    <2> DEFINE h == IntToHex4(n)
    <2>1. /\ h \in [1 .. 4 -> 0 .. 15]
          /\ 4096 * h[1] + 256 * h[2] + 16 * h[3] + h[4] = n
      BY DigitsMakeNumber
    <2> HIDE DEF h
    <2>2. behind \in 0 .. 15
      BY <1>2 DEF NotHex
    <2>3. Leading(Append(h, behind)) = 5
      BY <2>1, <2>2, FiveDigitsRead
    <2>4. HexToInt(h, behind) = 16 * (4096 * h[1] + 256 * h[2] + 16 * h[3] + h[4]) + behind
      BY <2>3 DEF HexToInt
    <2>5. HexToInt(h, behind) = 16 * n + behind
      BY <2>1, <2>4
    <2> QED
      BY <1>2, <2>2, <2>5 DEF h
  <1> QED
    BY <1>1, <1>2

-----------------------------------------------------------------------------
(* A message that is sent is a frame, and nothing else changes.            *)
LEMMA PostDInv ==
    ASSUME DInv, NEW l \in Length \union {AUTH_LEN}, Post(l)
    PROVE  DInv'
  <1>1. posted < MaxMsgs /\ posted \in 0 .. MaxMsgs
    BY DEF Post, DInv, DgTypeOK
  <1>2. /\ posted' = posted + 1 /\ network' = network \union {Frame(posted', l)}
        /\ UNCHANGED <<rcvq, rpc, msg_len, peeked, misread, received>>
    BY DEF Post
  <1>3. posted' \in 1 .. MaxMsgs
    BY <1>1, <1>2, BoundAssumption
  <1>4. PICK d : d = Frame(posted', l)
    OBVIOUS
  <1>5. IsFrame(d)
    BY <1>3, <1>4 DEF IsFrame
  <1>6. d \in Seq(Byte)
    BY <1>5, AFrame
  <1>7. \A e \in network' : IsFrame(e)
    BY <1>2, <1>4, <1>5 DEF DInv
  <1>8. DgTypeOK'
    <2>1. network' \subseteq Seq(Byte) /\ posted' \in 0 .. MaxMsgs
      BY <1>2, <1>3, <1>4, <1>6 DEF DInv, DgTypeOK
    <2> QED
      BY <1>2, <2>1 DEF DInv, DgTypeOK
  <1>9. PeekOK' /\ ReceivedOK' /\ (\A k \in DOMAIN rcvq : IsFrame(rcvq[k]))'
    BY <1>2 DEF DInv, PeekOK, ReceivedOK
  <1> QED
    BY <1>7, <1>8, <1>9 DEF DInv

(* What arrives was under way, so it is a frame; what has been peeked stays*)
(* at the head of the buffer, because arrivals go behind it.               *)
LEMMA ArriveDInv ==
    ASSUME DInv, Arrive
    PROVE  DInv'
  <1>1. PICK d \in network : /\ rcvq' = Append(rcvq, d)
                             /\ network' \in {network, network \ {d}}
                             /\ UNCHANGED <<posted, rpc, msg_len, peeked, misread, received>>
    BY DEF Arrive
  <1>2. network \subseteq Seq(Byte) /\ rcvq \in Seq(Seq(Byte)) /\ d \in Seq(Byte)
    BY DEF DInv, DgTypeOK
  <1>3. /\ rcvq' \in Seq(Seq(Byte)) /\ rcvq' # <<>> /\ Len(rcvq') = Len(rcvq) + 1
        /\ \A k \in 1 .. Len(rcvq) : rcvq'[k] = rcvq[k]
        /\ rcvq'[Len(rcvq) + 1] = d
    <2> DEFINE q == Append(rcvq, d)
    <2>1. /\ q \in Seq(Seq(Byte)) /\ q # <<>> /\ Len(q) = Len(rcvq) + 1
          /\ \A k \in 1 .. Len(rcvq) : q[k] = rcvq[k]
          /\ q[Len(rcvq) + 1] = d
      BY <1>2, AppendProperties
    <2> HIDE DEF q
    <2>2. rcvq' = q
      BY <1>1 DEF q
    <2> QED
      BY <2>1, <2>2, Zenon
  <1>4. Len(rcvq) \in Nat /\ DOMAIN rcvq = 1 .. Len(rcvq) /\ DOMAIN rcvq' = 1 .. Len(rcvq')
    BY <1>2, <1>3, LenProperties
  <1>5. network' \subseteq network
    BY <1>1
  <1>6. \A k \in DOMAIN rcvq' : IsFrame(rcvq'[k])
    <2> SUFFICES ASSUME NEW k \in 1 .. Len(rcvq')
                 PROVE  IsFrame(rcvq'[k])
      BY <1>4
    <2>1. k \in 1 .. Len(rcvq) \/ k = Len(rcvq) + 1
      BY <1>3, <1>4
    <2> QED
      BY <1>3, <1>4, <2>1, Zenon DEF DInv
  <1>7. PeekOK'
    <2>1. rcvq # <<>> => Head(rcvq') = Head(rcvq)
      <3>1. rcvq # <<>> => Len(rcvq) # 0
        BY <1>2, EmptySeq
      <3>2. Head(rcvq') = rcvq'[1] /\ Head(rcvq) = rcvq[1]
        OBVIOUS
      <3>3. rcvq # <<>> => 1 \in 1 .. Len(rcvq)
        BY <1>4, <3>1
      <3> QED
        BY <1>3, <3>2, <3>3, Zenon
    <2> QED
      BY <1>1, <1>3, <2>1 DEF DInv, PeekOK
  <1>8. DgTypeOK'
    BY <1>1, <1>2, <1>3, <1>5 DEF DInv, DgTypeOK
  <1>9. ReceivedOK'
    BY <1>1 DEF DInv, ReceivedOK
  <1> QED
    BY <1>5, <1>6, <1>7, <1>8, <1>9 DEF DInv

(* The length peeked is that of the frame at the head, or larger if a digit*)
(* lies behind it.                                                         *)
LEMMA PeekDInv ==
    ASSUME DInv, recv_message_length
    PROVE  DInv'
  <1>1. /\ rcvq # <<>> /\ peeked' = Head(rcvq) /\ rcvq' = rcvq /\ rpc' = "recv"
        /\ UNCHANGED <<posted, network, received>>
    BY DEF recv_message_length, recv_peek
  <1>2. PICK behind \in Behind :
            /\ msg_len' = HexToInt([k \in 1 .. 4 |-> peeked'[k].hex], behind)
            /\ misread' = (behind # NotHex)
    BY DEF recv_message_length
  <1>3. PICK d : d = peeked'
    OBVIOUS
  <1>4. rcvq \in Seq(Seq(Byte)) /\ DOMAIN rcvq = 1 .. Len(rcvq) /\ Len(rcvq) \in Nat
    BY LenProperties DEF DInv, DgTypeOK
  <1>5. IsFrame(d)
    <2>1. 1 \in DOMAIN rcvq
      BY <1>1, <1>4, EmptySeq
    <2>2. d = rcvq[1]
      BY <1>1, <1>3
    <2> QED
      BY <2>1, <2>2, Zenon DEF DInv
  <1>6. PICK l : /\ Fits(l) /\ d \in Seq(Byte) /\ Len(d) = 4 + l
                 /\ [k \in 1 .. 4 |-> d[k].hex] = IntToHex4(ToSendLen(l))
    BY <1>5, AFrame
  <1>7. ToSendLen(l) \in Nat /\ ToSendLen(l) < 65536 /\ ToSendLen(l) - 1 = Len(d)
    BY <1>6 DEF Fits, ToSendLen
  <1>8. behind \in 0 .. NotHex
    BY BehindAssumption
  <1>9. /\ msg_len' \in Nat /\ msg_len' >= ToSendLen(l)
        /\ behind = NotHex => msg_len' = ToSendLen(l)
    <2>1. msg_len' = HexToInt(IntToHex4(ToSendLen(l)), behind)
      BY <1>2, <1>3, <1>6
    <2> QED
      BY <1>7, <1>8, <2>1, LongerRead
  <1>10. misread' \in BOOLEAN /\ (~misread' => behind = NotHex)
    BY <1>2, Zenon
  <1>11. PeekOK'
    <2>0. PICK n : n = Len(d)
      OBVIOUS
    <2>1. PICK s \in Nat, w \in Nat : s = ToSendLen(l) /\ w = msg_len' /\ n = Len(d)
      BY <1>7, <1>9, <2>0
    <2>2. s - 1 = n /\ w >= s /\ (behind = NotHex => w = s)
      BY <1>7, <1>9, <2>1
    <2>3. w - 1 >= n /\ (behind = NotHex => w - 1 = n)
      BY <2>2
    <2> QED
      BY <1>1, <1>3, <1>10, <2>1, <2>3 DEF PeekOK
  <1>12. DgTypeOK'
    BY <1>1, <1>9, <1>10 DEF DInv, DgTypeOK
  <1>13. ReceivedOK'
    BY <1>1 DEF DInv, ReceivedOK
  <1> QED
    BY <1>1, <1>11, <1>12, <1>13 DEF DInv

(* The datagram read is the one that was peeked, and the length asked for  *)
(* reaches to its end.                                                     *)
LEMMA ReceiveDInv ==
    ASSUME DInv, recv_message
    PROVE  DInv'
  <1> DEFINE d == Head(rcvq)
             n == Least(msg_len - 1, Len(d))
             m == [of |-> peeked, text |-> SubSeq(d, 5, n),
                   garbage |-> msg_len - 1 > Len(d), misread |-> misread]
             Returned == [of : Seq(Byte), text : Seq(Byte), garbage : BOOLEAN, misread : BOOLEAN]
  <1>1. /\ rpc = "recv" /\ rcvq # <<>> /\ received' = Append(received, m)
        /\ rcvq' = Tail(rcvq) /\ rpc' = "select"
        /\ msg_len' = 0 /\ peeked' = <<>> /\ misread' = FALSE
        /\ UNCHANGED <<posted, network>>
    BY DEF recv_message
  <1>2. /\ peeked = d /\ msg_len - 1 >= Len(d) /\ (~misread => msg_len - 1 = Len(d))
        /\ msg_len \in Nat /\ misread \in BOOLEAN
        /\ rcvq \in Seq(Seq(Byte)) /\ received \in Seq(Returned)
    BY <1>1 DEF DInv, PeekOK, DgTypeOK
  <1>3. d \in Seq(Byte) /\ Len(d) \in Nat
    <2>1. d \in Seq(Byte)
      BY <1>1, <1>2, HeadTailProperties
    <2> HIDE DEF d
    <2> QED
      BY <2>1, LenProperties
  <1> HIDE DEF d
  <1>4. n = Len(d)
    BY <1>2, <1>3 DEF Least
  <1> HIDE DEF n
  <1>5. SubSeq(d, 5, Len(d)) \in Seq(Byte)
    <2>1. \A i \in 5 .. Len(d) : d[i] \in Byte
      BY <1>3, ElementOfSeq
    <2> QED
      BY <1>3, <2>1, 5 \in Int, SubSeqProperties
  <1>6. /\ m.of = d /\ m.text = SubSeq(d, 5, Len(d)) /\ m.misread = misread
        /\ m.garbage = (msg_len - 1 > Len(d))
    BY <1>2, <1>4
  <1>7. m \in Returned
    <2>1. (msg_len - 1 > Len(d)) \in BOOLEAN
      OBVIOUS
    <2> QED
      BY <1>2, <1>3, <1>4, <1>5, <2>1
  <1>8. m.garbage => m.misread
    <2>1. CASE ~misread
      <3>1. ~(msg_len - 1 > Len(d))
        BY <1>2, <1>3, <2>1
      <3> QED
        BY <1>6, <3>1, Zenon
    <2>2. CASE misread
      BY <1>6, <2>2, Zenon
    <2> QED
      BY <2>1, <2>2
  <1> HIDE DEF m
  <1>9. /\ received' \in Seq(Returned) /\ Len(received') = Len(received) + 1
        /\ \A k \in 1 .. Len(received) : received'[k] = received[k]
        /\ received'[Len(received) + 1] = m
    <2> HIDE DEF Returned
    <2> DEFINE q == Append(received, m)
    <2>1. /\ q \in Seq(Returned) /\ Len(q) = Len(received) + 1
          /\ \A k \in 1 .. Len(received) : q[k] = received[k]
          /\ q[Len(received) + 1] = m
      BY <1>2, <1>7, AppendProperties
    <2> HIDE DEF q
    <2>2. received' = q
      BY <1>1 DEF q
    <2> QED
      BY <2>1, <2>2, Zenon
  <1>10. /\ Len(received) \in Nat /\ DOMAIN received = 1 .. Len(received)
         /\ DOMAIN received' = 1 .. Len(received')
    <2> HIDE DEF Returned
    <2> QED
      BY <1>2, <1>9, LenProperties
  <1>11. ReceivedOK'
    <2> SUFFICES ASSUME NEW k \in 1 .. Len(received')
                 PROVE  /\ received'[k].text = SubSeq(received'[k].of, 5, Len(received'[k].of))
                        /\ received'[k].garbage => received'[k].misread
      BY <1>10 DEF ReceivedOK
    <2>1. k \in 1 .. Len(received) \/ k = Len(received) + 1
      BY <1>9, <1>10
    <2>2. CASE k \in 1 .. Len(received)
      <3>1. received'[k] = received[k] /\ k \in DOMAIN received
        BY <1>9, <1>10, <2>2
      <3> QED
        BY <3>1, Zenon DEF DInv, ReceivedOK
    <2>3. CASE k = Len(received) + 1
      BY <1>6, <1>8, <1>9, <2>3
    <2> QED
      BY <2>1, <2>2, <2>3
  <1>12. \A k \in DOMAIN rcvq' : IsFrame(rcvq'[k])
    <2>1. /\ rcvq' \in Seq(Seq(Byte)) /\ Len(rcvq') = Len(rcvq) - 1
          /\ \A k \in 1 .. Len(rcvq') : rcvq'[k] = rcvq[k + 1]
      BY <1>1, <1>2, HeadTailProperties
    <2>2. DOMAIN rcvq' = 1 .. Len(rcvq') /\ DOMAIN rcvq = 1 .. Len(rcvq) /\ Len(rcvq) \in Nat
      BY <1>2, <2>1, LenProperties
    <2> SUFFICES ASSUME NEW k \in 1 .. Len(rcvq')
                 PROVE  IsFrame(rcvq'[k])
      BY <2>2
    <2>3. k + 1 \in DOMAIN rcvq
      BY <2>1, <2>2
    <2> QED
      BY <2>1, <2>3, Zenon DEF DInv
  <1>13. DgTypeOK'
    <2>1. rcvq' \in Seq(Seq(Byte))
      BY <1>1, <1>2, HeadTailProperties
    <2>2. misread' \in BOOLEAN /\ msg_len' \in Nat
      BY <1>1
    <2>3. posted' \in 0 .. MaxMsgs /\ network' \subseteq Seq(Byte)
      BY <1>1 DEF DInv, DgTypeOK
    <2> QED
      BY <1>1, <1>9, <2>1, <2>2, <2>3 DEF DgTypeOK
  <1>14. PeekOK'
    BY <1>1 DEF PeekOK
  <1>15. \A e \in network' : IsFrame(e)
    BY <1>1 DEF DInv
  <1> QED
    BY <1>11, <1>12, <1>13, <1>14, <1>15 DEF DInv

(* DInv holds in every reachable state.                                    *)
LEMMA DInvInvariant == DgSpec => []DInv
  <1>1. DgInit => DInv
    <2> SUFFICES ASSUME DgInit
                 PROVE  DInv
      OBVIOUS
    <2>1. rcvq = <<>> /\ received = <<>> /\ network = {} /\ rpc = "select" /\ misread = FALSE
          /\ posted = 0 /\ msg_len = 0
      BY DEF DgInit
    <2>2. DgTypeOK
      <3>1. misread \in BOOLEAN
        BY <2>1, Zenon
      <3>2. posted \in 0 .. MaxMsgs
        BY <2>1, BoundAssumption
      <3> QED
        BY <2>1, <3>1, <3>2, EmptySeq DEF DgTypeOK
    <2>3. PeekOK
      BY <2>1 DEF PeekOK
    <2>4. DOMAIN rcvq = {} /\ DOMAIN received = {}
      BY <2>1
    <2> QED
      BY <2>1, <2>2, <2>3, <2>4 DEF DInv, ReceivedOK
  <1>2. DInv /\ [DgNext]_dgVars => DInv'
    <2>1. ASSUME DInv, UNCHANGED dgVars
          PROVE  DInv'
      BY <2>1 DEF dgVars, DInv, DgTypeOK, PeekOK, ReceivedOK
    <2> QED
      BY <2>1, PostDInv, ArriveDInv, PeekDInv, ReceiveDInv DEF DgNext, send_text, send_auth
  <1> QED
    BY <1>1, <1>2, PTL DEF DgSpec

(* The variables of the datagram receiver keep their types.                *)
THEOREM DgTypeCorrect == DgSpec => []DgTypeOK
  <1>1. DInv => DgTypeOK
    BY DEF DInv
  <1> QED
    BY <1>1, DInvInvariant, PTL

(* What recv_message returns is the text of one datagram, whole, for       *)
(* messages of every length that fits into four digits, and in whatever    *)
(* order and however often they arrive.                                    *)
THEOREM DatagramsAreMessages == DgSpec => []DatagramIsMessage
  <1>1. DInv => DatagramIsMessage
    BY DEF DInv, PeekOK, ReceivedOK, DatagramIsMessage
  <1> QED
    BY <1>1, DInvInvariant, PTL
=============================================================================
