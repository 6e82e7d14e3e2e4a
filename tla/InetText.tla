------------------------------ MODULE InetText ------------------------------
(***************************************************************************)
(* Addresses as text and the Internet checksum, from libfree/: inet_ntop.c,*)
(* inet_pton.c, inet_aton.c and in_cksum.c.  An address is written, a      *)
(* character of it may be mistyped, and it is read again; a sender adds a  *)
(* checksum, and a receiver computes it over the whole.                    *)
(*                                                                         *)
(* Characters are numbers: a digit of either case is its value.            *)
(***************************************************************************)
EXTENDS Integers, Sequences, FiniteSets, SequencesExt

CONSTANTS
    Quads,         \* IPv4 addresses: four bytes
    Words8,        \* IPv6 addresses: eight words
    Mistyped,      \* those of both whose text may have an error
    Keys,          \* characters typed by mistake
    Packets,       \* sequences of bytes
    LittleEndian   \* the byte order

Colon == 16
Dot == 17
Other == 18

u_char == 0 .. 255         \* a byte
uint16_t == 0 .. 65535     \* two bytes

ASSUME AddressAssumption ==
    /\ \A a \in Quads : a \in [1 .. 4 -> u_char]
    /\ \A a \in Words8 : a \in [1 .. 8 -> uint16_t]
    /\ Mistyped \subseteq Quads \union Words8 /\ Keys \subseteq 0 .. Other

ASSUME OrderAssumption == LittleEndian \in BOOLEAN

(* No packet is longer than IP allows, so that the 32 bits of sum hold the *)
(* sum of its words.                                                       *)
ASSUME PacketAssumption == \A p \in Packets : p \in Seq(u_char) /\ Len(p) <= 65535

(* What a function that returns 0 has for an address.                      *)
Invalid == <<>>

(* The arrays in which inet_ntop4 and inet_ntop6 put a text together, the  *)
(* byte behind it included.                                                *)
ntop4_tmp == 16
ntop6_tmp == 46

-----------------------------------------------------------------------------
(* Writing.                                                                *)

Decimal(n) ==
    IF n < 10 THEN <<n>>
    ELSE IF n < 100 THEN <<n \div 10, n % 10>>
    ELSE <<n \div 100, (n \div 10) % 10, n % 10>>

Hexadecimal(n) ==
    IF n < 16 THEN <<n>>
    ELSE IF n < 256 THEN <<n \div 16, n % 16>>
    ELSE IF n < 4096 THEN <<n \div 256, (n \div 16) % 16, n % 16>>
    ELSE <<n \div 4096, (n \div 256) % 16, (n \div 16) % 16, n % 16>>

inet_ntop4(b) ==
    Decimal(b[1]) \o <<Dot>> \o Decimal(b[2]) \o <<Dot>> \o Decimal(b[3])
        \o <<Dot>> \o Decimal(b[4])

BytesOf(w) == <<w[7] \div 256, w[7] % 256, w[8] \div 256, w[8] % 256>>

(* The first of the longest runs of at least two zero words, or nothing.   *)
BestRun(w) ==
    LET runs == {r \in (1 .. 8) \X (2 .. 8) :
                    r[1] + r[2] <= 9 /\ \A i \in r[1] .. r[1] + r[2] - 1 : w[i] = 0}
        better(r, s) == r[2] > s[2] \/ (r[2] = s[2] /\ r[1] <= s[1])
    IN  IF runs = {} THEN <<0, 0>> ELSE CHOOSE r \in runs : \A s \in runs : better(r, s)

(* Variant: a run up to the last word is not closed by a second colon.     *)
NoClosing(run) == <<>>

Closing(run) == IF run[1] + run[2] = 9 THEN <<Colon>> ELSE <<>>

inet_ntop6(w) ==
    LET run == BestRun(w)
        ipv4 == run[1] = 1 /\ (run[2] = 6 \/ (run[2] = 5 /\ w[6] = 65535))
        word(i) == IF ~ipv4 \/ i < 7 THEN Hexadecimal(w[i]) ELSE inet_ntop4(BytesOf(w))
        piece(i) ==
            IF i \in run[1] .. run[1] + run[2] - 1
            THEN IF i = run[1] THEN <<Colon>> ELSE <<>>
            ELSE IF ipv4 /\ i = 8 THEN <<>>
            ELSE IF i = 1 THEN word(i) ELSE <<Colon>> \o word(i)
    IN  FlattenSeq([i \in 1 .. 8 |-> piece(i)]) \o Closing(run)

-----------------------------------------------------------------------------
(* Reading.                                                                *)

(* One character of inet_pton4.                                            *)
Step4(s, ch) ==
    LET new == s.tmp[s.tp] * 10 + ch
    IN  IF ch < 10 /\ new <= 255 /\ (s.saw_digit \/ s.octets < 4)
        THEN [s EXCEPT !.tmp[s.tp] = new, !.saw_digit = TRUE,
                       !.octets = IF s.saw_digit THEN @ ELSE @ + 1]
        ELSE IF ch = Dot /\ s.saw_digit /\ s.octets < 4
        THEN [s EXCEPT !.tp = @ + 1, !.saw_digit = FALSE]
        ELSE [s EXCEPT !.ok = FALSE]

inet_pton4(text) ==
    LET state[i \in 0 .. Len(text)] ==
            IF i = 0 THEN [ok |-> TRUE, tmp |-> <<0, 0, 0, 0>>, tp |-> 1,
                           octets |-> 0, saw_digit |-> FALSE]
            ELSE LET s == state[i - 1] IN IF s.ok THEN Step4(s, text[i]) ELSE s
        last == state[Len(text)]
    IN  IF last.ok /\ last.octets = 4 THEN last.tmp ELSE Invalid

(* The octets of inet_aton may be empty, and missing ones are zeros on the *)
(* right.                                                                  *)
StepAton(s, ch) ==
    IF ch < 10 THEN [s EXCEPT !.acc = @ * 10 + ch]
    ELSE IF ch = Dot /\ s.dots < 3 /\ s.acc <= 255
    THEN [s EXCEPT !.dots = @ + 1, !.addr = Append(@, s.acc), !.acc = 0]
    ELSE [s EXCEPT !.ok = FALSE]

inet_aton(text) ==
    LET state[i \in 0 .. Len(text)] ==
            IF i = 0 THEN [ok |-> TRUE, dots |-> 0, acc |-> 0, addr |-> <<>>]
            ELSE LET s == state[i - 1] IN IF s.ok THEN StepAton(s, text[i]) ELSE s
        last == state[Len(text)]
        addr == Append(last.addr, last.acc)
    IN  IF last.ok /\ last.acc <= 255
        THEN [k \in 1 .. 4 |-> IF k <= Len(addr) THEN addr[k] ELSE 0]
        ELSE Invalid

(* The word read so far is stored, if there is room.                       *)
StoreWord(s) ==
    IF Len(s.tmp) = 8 THEN [s EXCEPT !.ok = FALSE]
    ELSE [s EXCEPT !.tmp = Append(@, s.val), !.saw_xdigit = FALSE, !.val = 0]

(* One character of inet_pton6: the i-th of text.                          *)
Step6(s, text, i) ==
    LET ch == text[i]
        quad == inet_pton4(SubSeq(text, s.curtok, Len(text)))
    IN  IF ch < 16 /\ s.val < 4096
        THEN [s EXCEPT !.val = 16 * @ + ch, !.saw_xdigit = TRUE]
        ELSE IF ch = Colon /\ s.saw_xdigit THEN [StoreWord(s) EXCEPT !.curtok = i + 1]
        ELSE IF ch = Colon /\ s.colonp = -1
        THEN [s EXCEPT !.colonp = Len(s.tmp), !.curtok = i + 1]
        ELSE IF ch = Dot /\ Len(s.tmp) <= 6 /\ quad # Invalid
        THEN [s EXCEPT !.tmp = @ \o <<256 * quad[1] + quad[2], 256 * quad[3] + quad[4]>>,
                       !.saw_xdigit = FALSE, !.end = TRUE]
        ELSE [s EXCEPT !.ok = FALSE]

(* The shift: what follows the double colon is moved to the end, word by   *)
(* word from the last, and zero is left where it was.  Without room to     *)
(* move, every word is copied to its own place and then made zero.         *)
Spread(tmp, colonp) ==
    LET room == 8 - Len(tmp)
    IN  [k \in 1 .. 8 |-> IF k <= colonp THEN tmp[k]
                          ELSE IF k > colonp + room /\ room > 0 THEN tmp[k - room]
                          ELSE 0]

inet_pton6(text) ==
    LET first == IF text # <<>> /\ text[1] = Colon THEN 1 ELSE 0
        state[i \in first .. Len(text)] ==
            IF i = first
            THEN [ok |-> TRUE, end |-> FALSE, tmp |-> <<>>, colonp |-> -1,
                  curtok |-> first + 1, saw_xdigit |-> FALSE, val |-> 0]
            ELSE LET s == state[i - 1] IN IF s.ok /\ ~s.end THEN Step6(s, text, i) ELSE s
        read == state[Len(text)]
        last == IF read.saw_xdigit THEN StoreWord(read) ELSE read
    IN  IF (first = 1 /\ (Len(text) = 1 \/ text[2] # Colon)) \/ ~read.ok \/ ~last.ok
        THEN Invalid
        ELSE IF last.colonp # -1 THEN Spread(last.tmp, last.colonp)
        ELSE IF Len(last.tmp) = 8 THEN last.tmp ELSE Invalid

inet_ntop(family, a) == IF family = "AF_INET" THEN inet_ntop4(a) ELSE inet_ntop6(a)

inet_pton(family, text) ==
    IF family = "AF_INET" THEN inet_pton4(text) ELSE inet_pton6(text)

(* inet_pton of a system without IPv6 reads with inet_aton.                *)
inet_pton_ipv4(text) == inet_aton(text)

-----------------------------------------------------------------------------
(* The checksum.                                                           *)

Word(a, b) == IF LittleEndian THEN a + 256 * b ELSE 256 * a + b

(* The sum of the words, an odd byte as if a zero followed.                *)
SumOf(p) ==
    LET sum[n \in 0 .. (Len(p) + 1) \div 2] ==
            IF n = 0 THEN 0
            ELSE sum[n - 1] + Word(p[2 * n - 1], IF 2 * n <= Len(p) THEN p[2 * n] ELSE 0)
    IN  sum[(Len(p) + 1) \div 2]

(* Variant: the carry of the first folding is not added.                   *)
FoldOnce(sum) == (sum \div 65536) + (sum % 65536)

Fold(sum) ==
    LET once == (sum \div 65536) + (sum % 65536)
    IN  once + (once \div 65536)

in_cksum(p) == 65535 - (Fold(SumOf(p)) % 65536)

-----------------------------------------------------------------------------
VARIABLES
    iphase,   \* what has happened: nothing, written, read, summed
    af,       \* the family
    iaddr,    \* the address
    itext,    \* its text
    edited,   \* has the text been mistyped?
    reader,   \* the function that reads it
    iback,    \* what it has read, or Invalid
    packet,
    csum      \* the checksum of packet

inetVars == <<iphase, af, iaddr, itext, edited, reader, iback, packet, csum>>

InetTypeOK ==
    /\ iphase \in {"nothing", "written", "read", "summed"}
    /\ af \in {"AF_INET", "AF_INET6"} /\ edited \in BOOLEAN
    /\ iaddr \in Quads \union Words8 \union {Invalid} /\ itext \in Seq(0 .. Other)
    /\ ~edited => Len(itext) < (IF af = "AF_INET" THEN ntop4_tmp ELSE ntop6_tmp)
    /\ iback = Invalid \/ iback \in [1 .. 4 -> u_char] \union [1 .. 8 -> uint16_t]
    /\ packet \in Seq(u_char) /\ csum \in uint16_t

InetInit ==
    /\ iphase = "nothing" /\ af = "AF_INET" /\ iaddr = Invalid /\ itext = <<>>
    /\ edited = FALSE /\ reader = "none" /\ iback = Invalid /\ packet = <<>> /\ csum = 0

write_address(family, a) ==
    /\ iphase = "nothing" /\ iphase' = "written"
    /\ af' = family /\ iaddr' = a /\ itext' = inet_ntop(family, a)
    /\ UNCHANGED <<edited, reader, iback, packet, csum>>

(* A character is left out, put in, or replaced.                           *)
mistype ==
    /\ iphase = "written" /\ ~edited /\ iaddr \in Mistyped
    /\ edited' = TRUE
    /\ \/ \E i \in 1 .. Len(itext) : itext' = RemoveAt(itext, i)
       \/ \E i \in 1 .. Len(itext) + 1, key \in Keys : itext' = InsertAt(itext, i, key)
       \/ \E i \in 1 .. Len(itext), key \in Keys : itext' = ReplaceAt(itext, i, key)
    /\ UNCHANGED <<iphase, af, iaddr, reader, iback, packet, csum>>

read_address ==
    /\ iphase = "written" /\ iphase' = "read"
    /\ \/ reader' = "inet_pton" /\ iback' = inet_pton(af, itext)
       \/ af = "AF_INET" /\ reader' = "inet_aton" /\ iback' = inet_pton_ipv4(itext)
    /\ UNCHANGED <<af, iaddr, itext, edited, packet, csum>>

(* The sender, who has put zero where the checksum goes.                   *)
checksum ==
    /\ iphase = "nothing" /\ iphase' = "summed"
    /\ packet' \in Packets /\ csum' = in_cksum(packet')
    /\ UNCHANGED <<af, iaddr, itext, edited, reader, iback>>

InetNext ==
    \/ \E a \in Quads : write_address("AF_INET", a)
    \/ \E a \in Words8 : write_address("AF_INET6", a)
    \/ mistype \/ read_address \/ checksum

InetSpec == InetInit /\ [][InetNext]_inetVars

-----------------------------------------------------------------------------
(* What a text means, said of its pieces between separators.               *)

Pieces(text, separator) ==
    LET at == {i \in DOMAIN text : text[i] = separator}
        cut(n) == IF n = 0 THEN 0 ELSE IF n > Cardinality(at) THEN Len(text) + 1
                  ELSE CHOOSE i \in at : Cardinality({j \in at : j <= i}) = n
    IN  [n \in 1 .. Cardinality(at) + 1 |-> SubSeq(text, cut(n - 1) + 1, cut(n) - 1)]

(* The number with these digits, or Limit if it is not below it.           *)
Limit == 65536
Number(digits, base) ==
    LET value[n \in 0 .. Len(digits)] ==
            IF n = 0 THEN 0
            ELSE LET v == base * value[n - 1] + digits[n] IN IF v < Limit THEN v ELSE Limit
    IN  value[Len(digits)]

Digits(piece, base) == \A k \in DOMAIN piece : piece[k] < base

Octet(piece) == Digits(piece, 10) /\ Number(piece, 10) <= 255

(* Four decimal numbers; in inet_aton's view a number may be empty, and    *)
(* those missing at the end are zero.                                      *)
MeansQuad(text, aton) ==
    LET p == Pieces(text, Dot)
    IN  IF /\ Len(p) <= 4 /\ \A k \in DOMAIN p : Octet(p[k])
           /\ aton \/ (Len(p) = 4 /\ <<>> \notin Range(p))
        THEN [k \in 1 .. 4 |-> IF k <= Len(p) THEN Number(p[k], 10) ELSE 0]
        ELSE Invalid

(* The pieces of an IPv6 address: a double colon is one empty piece,       *)
(* wherever it is.                                                         *)
Begins(p) == Len(p) > 2 /\ p[1] = <<>> /\ p[2] = <<>>
Ends(p) == Len(p) > 2 /\ p[Len(p) - 1] = <<>> /\ p[Len(p)] = <<>>

Groups(text) ==
    LET p == Pieces(text, Colon)
    IN  SubSeq(p, IF Begins(p) THEN 2 ELSE 1, IF Ends(p) THEN Len(p) - 1 ELSE Len(p))

(* The words of one group, an IPv4 address being two.                      *)
WordsOf(group) ==
    LET quad == MeansQuad(group, FALSE)
    IN  IF group = <<>> THEN <<>>
        ELSE IF Digits(group, 16) THEN <<Number(group, 16)>>
        ELSE <<256 * quad[1] + quad[2], 256 * quad[3] + quad[4]>>

IsGroup(text, k) ==
    LET p == Pieces(text, Colon)
        g == Groups(text)
    IN  \/ g[k] = <<>> /\ (k = 1 => Begins(p)) /\ (k = Len(g) => Ends(p))
        \/ g[k] # <<>> /\ Digits(g[k], 16) /\ Number(g[k], 16) < Limit
        \/ k = Len(g) /\ MeansQuad(g[k], FALSE) # Invalid

(* The words before the double colon and those behind it.                  *)
Sides(text) ==
    LET g == Groups(text)
        gap == CHOOSE k \in DOMAIN g : g[k] = <<>>
        words(s) == FlattenSeq([k \in DOMAIN s |-> WordsOf(s[k])])
    IN  IF <<>> \in Range(g)
        THEN <<words(SubSeq(g, 1, gap - 1)), words(SubSeq(g, gap + 1, Len(g)))>>
        ELSE <<words(g), <<>>>>

Zeros(n) == [k \in 1 .. n |-> 0]

(* Eight words, or fewer with one double colon in place of the others.     *)
MeansWords(text) ==
    LET g == Groups(text)
        gaps == {k \in DOMAIN g : g[k] = <<>>}
        s == Sides(text)
        room == 8 - Len(s[1]) - Len(s[2])
    IN  IF /\ \A k \in DOMAIN g : IsGroup(text, k)
           /\ Cardinality(gaps) <= 1 /\ room >= 0 /\ (gaps = {} => room = 0)
        THEN s[1] \o Zeros(room) \o s[2]
        ELSE Invalid

Meaning ==
    IF af = "AF_INET6" THEN MeansWords(itext) ELSE MeansQuad(itext, reader = "inet_aton")

(* A single colon behind the last word is not seen: the text is read       *)
(* without it.                                                             *)
Seen ==
    LET p == Pieces(itext, Colon)
        n == Len(p)
    IN  IF af = "AF_INET6" /\ n > 1 /\ p[n] = <<>> /\ p[n - 1] # <<>> /\ Digits(p[n - 1], 16)
        THEN Front(itext)
        ELSE itext

(* A double colon in an address that has all its words.                    *)
FullWithGap(text) ==
    /\ MeansWords(text) # Invalid /\ <<>> \in Range(Groups(text))
    /\ Len(Sides(text)[1]) + Len(Sides(text)[2]) = 8

(* An address that is written and read again is the same, however its      *)
(* zeros are abbreviated.  A text with an error in it is refused, or is    *)
(* read as the address it means, with two exceptions in inet_pton6, which  *)
(* are stated as they are: a colon at the end is not seen, and a double    *)
(* colon in an address that has all its words makes zeros of the words     *)
(* behind it.                                                              *)
TextMeansAddress ==
    iphase = "read" =>
        /\ ~edited => iback = iaddr
        /\ iback = IF af = "AF_INET" THEN Meaning
                   ELSE IF FullWithGap(Seen)
                   THEN Sides(Seen)[1] \o Zeros(8 - Len(Sides(Seen)[1]))
                   ELSE MeansWords(Seen)

(* inet_pton6 returns ``1 if `src' is a valid [RFC1884 2.2] address, else  *)
(* 0'', and ``:: in a full address is silently ignored''.  Neither is so:  *)
(* see the exceptions above.                                               *)
ReadsAsPromised == iphase = "read" /\ af = "AF_INET6" => iback = Meaning

Bytes(n) == IF LittleEndian THEN <<n % 256, n \div 256>> ELSE <<n \div 256, n % 256>>

(* Over a packet followed by its checksum, the checksum is zero, however   *)
(* often the sum of its words carries.                                     *)
ChecksumVerifies ==
    iphase = "summed" =>
        in_cksum(packet \o [k \in 1 .. Len(packet) % 2 |-> 0] \o Bytes(csum)) = 0
=============================================================================
