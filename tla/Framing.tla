------------------------------- MODULE Framing -------------------------------
(***************************************************************************)
(* The bytes of one connection of the TCP chats: create_send_msg of        *)
(* lib/str_utils.c, Writen (lib/writen.c) in message_loop, and read and    *)
(* Readn (lib/readn.c) in listener_task of lan_chat-v1.c and -v2.c.        *)
(*                                                                         *)
(* A message is four hexadecimal digits, then user name, ``: '' and text.  *)
(* write and read may move any part of what they are asked to.  Readn      *)
(* repeats read until it has all; the header is read with a bare read into *)
(* an array of four bytes that keeps its old contents where nothing is     *)
(* read, and sscanf scans that array although no NUL ends it, so the byte  *)
(* that happens to lie behind it may be taken for a fifth digit.           *)
(***************************************************************************)
EXTENDS StrUtils

CONSTANT UINT   \* the range of an unsigned int (2^32)

ASSUME UintAssumption == UINT \in Nat /\ UINT >= 16 ^ 5

-----------------------------------------------------------------------------
(* Variant: msg_len is a signed int.                                       *)
MsgLenSigned(field) == field - 5

(* msg_len of the listener, an unsigned int.                               *)
MsgLen(field) == (field - 5) % UINT

-----------------------------------------------------------------------------
VARIABLES
    sent,         \* the messages handed to Writen
    out,          \* what Writen has still to write
    open,         \* is the writer there?
    wire,         \* bytes that have arrived and are unread
    msg_len_hex,  \* the digits in the listener's array
    phase,        \* the listener: in read, in Readn, or at Close
    nleft,        \* what Readn has still to read
    message,      \* what it has read
    printed,      \* the messages printed
    harmed        \* history: a length was taken from other than its digits

vars == <<sent, out, open, wire, msg_len_hex, phase, nleft, message, printed, harmed>>

Garbage == [msg |-> 0, pos |-> 0, hex |-> NotHex]

TypeOK ==
    /\ sent \in Seq({Body(m, l) : m \in 1 .. MaxMsgs, l \in Length})
    /\ out \in Seq(Byte) /\ wire \in Seq(Byte)
    /\ open \in BOOLEAN /\ harmed \in BOOLEAN
    /\ msg_len_hex \in [1 .. 4 -> 0 .. NotHex]
    /\ phase \in {"header", "body", "closed"}
    /\ nleft \in 0 .. UINT - 1
    /\ message \in Seq(Byte)
    /\ printed \in Seq(Seq(Byte \union {Garbage}))

Init ==
    /\ sent = <<>> /\ out = <<>> /\ open = TRUE /\ wire = <<>>
    /\ msg_len_hex \in {[k \in 1 .. 4 |-> c] : c \in Behind}
    /\ phase = "header" /\ nleft = 0 /\ message = <<>>
    /\ printed = <<>> /\ harmed = FALSE

-----------------------------------------------------------------------------
(* The writer.                                                             *)

(* message_loop has a line and calls Writen.                               *)
create_send_msg ==
    /\ open /\ out = <<>> /\ Len(sent) < MaxMsgs
    /\ \E l \in Length :
        /\ sent' = Append(sent, Body(Len(sent) + 1, l))
        /\ out' = Frame(Len(sent) + 1, l)
    /\ UNCHANGED <<open, wire, msg_len_hex, phase, nleft, message, printed, harmed>>

(* Variant: the part that write did not take is not written again.         *)
WriteOnce ==
    \E n \in 1 .. Len(out) :
        /\ wire' = wire \o SubSeq(out, 1, n)
        /\ out' = <<>>
        /\ UNCHANGED <<sent, open, msg_len_hex, phase, nleft, message, printed, harmed>>

(* One round of writen: write takes the first n bytes, which arrive.       *)
writen ==
    \E n \in 1 .. Len(out) :
        /\ wire' = wire \o SubSeq(out, 1, n)
        /\ out' = SubSeq(out, n + 1, Len(out))
        /\ UNCHANGED <<sent, open, msg_len_hex, phase, nleft, message, printed, harmed>>

(* The writer ends, perhaps inside Writen.                                 *)
exit ==
    /\ open
    /\ open' = FALSE /\ out' = <<>>
    /\ UNCHANGED <<sent, wire, msg_len_hex, phase, nleft, message, printed, harmed>>

-----------------------------------------------------------------------------
(* The listener.                                                           *)

(* read returns up to four bytes, and message is allocated.                *)
read_header ==
    LET n == Least(4, Len(wire))
        array == [k \in 1 .. 4 |-> IF k <= n THEN wire[k].hex ELSE msg_len_hex[k]]
    IN  /\ phase = "header" /\ wire # <<>>
        /\ wire' = SubSeq(wire, n + 1, Len(wire))
        /\ msg_len_hex' = array
        /\ \E behind \in Behind :
            /\ nleft' = MsgLen(HexToInt(array, behind))
            /\ harmed' = (harmed \/ n < 4 \/ behind # NotHex)
        /\ phase' = "body" /\ message' = <<>>
        /\ UNCHANGED <<sent, out, open, printed>>

(* One round of readn.                                                     *)
readn ==
    LET n == Least(nleft, Len(wire))
    IN  /\ phase = "body" /\ n > 0
        /\ message' = message \o SubSeq(wire, 1, n)
        /\ wire' = SubSeq(wire, n + 1, Len(wire))
        /\ nleft' = nleft - n
        /\ UNCHANGED <<sent, out, open, msg_len_hex, phase, printed, harmed>>

(* Variant: Readn gives up when one read did not get everything.           *)
PrintAfterOneRead ==
    /\ phase = "body" /\ message # <<>>
    /\ printed' = Append(printed, message)
    /\ phase' = "header" /\ nleft' = 0 /\ message' = <<>>
    /\ UNCHANGED <<sent, out, open, wire, msg_len_hex, harmed>>

(* Readn has everything; printf and free.                                  *)
print_message ==
    /\ phase = "body" /\ nleft = 0
    /\ printed' = Append(printed, message)
    /\ phase' = "header" /\ message' = <<>>
    /\ UNCHANGED <<sent, out, open, wire, msg_len_hex, nleft, harmed>>

(* End of file inside Readn: the rest of message was never written to.     *)
print_cut ==
    /\ phase = "body" /\ nleft > 0 /\ wire = <<>> /\ ~open
    /\ printed' = Append(printed, Append(message, Garbage))
    /\ phase' = "header" /\ nleft' = 0 /\ message' = <<>>
    /\ UNCHANGED <<sent, out, open, wire, msg_len_hex, harmed>>

(* End of file where a header was expected.                                *)
read_eof ==
    /\ phase = "header" /\ wire = <<>> /\ ~open
    /\ phase' = "closed"
    /\ UNCHANGED <<sent, out, open, wire, msg_len_hex, nleft, message, printed, harmed>>

Listen == read_header \/ readn \/ print_message \/ print_cut \/ read_eof

Next == create_send_msg \/ writen \/ exit \/ Listen

Spec == Init /\ [][Next]_vars

(* Writen and the listener go on; nothing is assumed of the user.          *)
FairSpec == Spec /\ WF_vars(writen) /\ WF_vars(Listen)

-----------------------------------------------------------------------------
Stream == INSTANCE MessageStream
            WITH Message <- {Body(m, l) : m \in 1 .. MaxMsgs, l \in Length}

(* However write and read cut the bytes into pieces, the listener prints   *)
(* the messages sent, each once and in order, until a header is read in    *)
(* two pieces or with the byte behind it.                                  *)
StreamSpec == Stream!Spec

(* A message whose Writen has returned is printed, whatever becomes of the *)
(* writer.                                                                 *)
WrittenIsPrinted ==
    \A n \in 1 .. MaxMsgs :
        (Len(sent) >= n /\ out = <<>> /\ open) ~> (Len(printed) >= n \/ harmed)

(* Writer and listener agree on where a message ends: what the listener    *)
(* has read of one and what it still expects is that message.              *)
InStep ==
    ~harmed /\ phase = "body" /\ open
        => Len(printed) < Len(sent) /\ Len(message) + nleft = Len(sent[Len(printed) + 1])
=============================================================================
