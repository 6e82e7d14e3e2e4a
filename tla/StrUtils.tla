------------------------------ MODULE StrUtils ------------------------------
(***************************************************************************)
(* A message of the chats as lib/str_utils.c makes it: four hexadecimal    *)
(* digits for its length, then user name, ``: '' and text.  The receivers  *)
(* of Framing and Datagram read the digits back with hex_to_int.           *)
(***************************************************************************)
EXTENDS Integers, Sequences

CONSTANTS
    Length,    \* lengths of ``user: text''
    Behind,    \* what may lie behind msg_len_hex: digits, or NotHex
    MaxMsgs    \* bound: messages sent

(* A character that is no hexadecimal digit.                               *)
NotHex == 16

ASSUME LengthAssumption == \A l \in Length : l \in Nat /\ l < 65531
ASSUME BehindAssumption == Behind \subseteq 0 .. NotHex /\ Behind # {}
ASSUME BoundAssumption == MaxMsgs \in Nat

Least(m, n) == IF m <= n THEN m ELSE n

(* int_to_hex_4, for numbers of at most four digits.                       *)
IntToHex4(n) == <<n \div 4096, (n \div 256) % 16, (n \div 16) % 16, n % 16>>

(* How many of the characters c are digits, up to the first that is not.   *)
Leading(c) ==
    CHOOSE n \in 0 .. Len(c) :
        /\ \A i \in 1 .. n : c[i] # NotHex
        /\ n < Len(c) => c[n + 1] = NotHex

(* hex_to_int: sscanf with %x of the array of four and the byte behind it. *)
HexToInt(array, behind) ==
    LET n == Leading(Append(array, behind))
        digit(i) == IF i <= n THEN array[i] ELSE 0
        word == 4096 * digit(1) + 256 * digit(2) + 16 * digit(3) + digit(4)
    IN  IF n = 5 THEN 16 * word + behind ELSE word \div 16 ^ (4 - n)

(* Variant: to_send_len without the NUL.                                   *)
ToSendLenBare(l) == 4 + l

(* to_send_len for a body of length l counts the NUL that is not sent.     *)
ToSendLen(l) == 4 + l + 1

(* A byte: which message it is of, its place in it, and its digit.         *)
Byte == [msg : 1 .. MaxMsgs, pos : Nat, hex : 0 .. NotHex]

Body(m, l) == [k \in 1 .. l |-> [msg |-> m, pos |-> k, hex |-> NotHex]]

(* create_send_msg, or create_send_msg_static; a body has no newline, as   *)
(* chomp has cut it off.                                                   *)
Frame(m, l) ==
    [k \in 1 .. 4 |-> [msg |-> m, pos |-> 0, hex |-> IntToHex4(ToSendLen(l))[k]]]
        \o Body(m, l)
=============================================================================
