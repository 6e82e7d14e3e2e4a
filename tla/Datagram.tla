------------------------------ MODULE Datagram ------------------------------
(***************************************************************************)
(* The messages of the UDP chats as datagrams: create_send_msg and         *)
(* create_send_msg_static of lib/str_utils.c at the sender, recv_message   *)
(* of udp-multicast.c (the same in udp-broadcast.c) at the receiver, which *)
(* reads the length with MSG_PEEK and then the whole datagram.  Others may *)
(* arrive in between.  UDP loses, repeats and reorders datagrams.  As in   *)
(* Framing, the byte behind the four of msg_len_hex may be taken for a     *)
(* digit; message has then bytes at its end that were never written to.    *)
(***************************************************************************)
EXTENDS StrUtils

VARIABLES
    posted,    \* how many messages have been sent
    network,   \* datagrams under way
    rcvq,      \* the buffer of the socket, in the order of arrival
    rpc,       \* the receiver: in select, or between its two Recvfrom
    msg_len,   \* what hex_to_int made of the peeked digits
    peeked,    \* history: the datagram they were peeked from
    misread,   \* history: was the byte behind taken for a digit?
    received   \* history: the messages returned by recv_message

dgVars == <<posted, network, rcvq, rpc, msg_len, peeked, misread, received>>

DgTypeOK ==
    /\ posted \in 0 .. MaxMsgs /\ network \subseteq Seq(Byte) /\ rcvq \in Seq(Seq(Byte))
    /\ rpc \in {"select", "recv"} /\ msg_len \in Nat /\ misread \in BOOLEAN
    /\ received \in Seq([of : Seq(Byte), text : Seq(Byte), garbage : BOOLEAN, misread : BOOLEAN])

DgInit ==
    /\ posted = 0 /\ network = {} /\ rcvq = <<>>
    /\ rpc = "select" /\ msg_len = 0 /\ peeked = <<>> /\ misread = FALSE
    /\ received = <<>>

-----------------------------------------------------------------------------
(* Sendto of strlen bytes: the NUL that the length counts stays behind.    *)
Post(l) ==
    /\ posted < MaxMsgs
    /\ posted' = posted + 1
    /\ network' = network \union {Frame(posted', l)}
    /\ UNCHANGED <<rcvq, rpc, msg_len, peeked, misread, received>>

send_text == \E l \in Length : Post(l)

(* "auth: CAN" or "auth: OFC".                                             *)
AUTH_LEN == 9

send_auth == Post(AUTH_LEN)

(* A datagram arrives, perhaps not for the last time.  Bound: MaxMsgs      *)
(* arrivals.                                                               *)
Arrive ==
    /\ Len(received) + Len(rcvq) < MaxMsgs
    /\ \E d \in network :
        /\ rcvq' = Append(rcvq, d)
        /\ network' \in {network, network \ {d}}
    /\ UNCHANGED <<posted, rpc, msg_len, peeked, misread, received>>

(* Variant: without MSG_PEEK.                                              *)
recv_length(q) == Tail(q)

(* What the first Recvfrom leaves in the buffer q.                         *)
recv_peek(q) == q

recv_message_length ==
    /\ rpc = "select" /\ rcvq # <<>>
    /\ peeked' = Head(rcvq) /\ rcvq' = recv_peek(rcvq)
    /\ \E behind \in Behind :
        /\ msg_len' = HexToInt([k \in 1 .. 4 |-> peeked'[k].hex], behind)
        /\ misread' = (behind # NotHex)
    /\ rpc' = "recv"
    /\ UNCHANGED <<posted, network, received>>

(* The second Recvfrom fills message as far as it and the datagram go, and *)
(* a NUL is put at its end.                                                *)
recv_message ==
    /\ rpc = "recv" /\ rcvq # <<>>
    /\ LET d == Head(rcvq)
       IN  received' = Append(received,
                         [of |-> peeked, text |-> SubSeq(d, 5, Least(msg_len - 1, Len(d))),
                          garbage |-> msg_len - 1 > Len(d), misread |-> misread])
    /\ rcvq' = Tail(rcvq) /\ rpc' = "select"
    /\ msg_len' = 0 /\ peeked' = <<>> /\ misread' = FALSE
    /\ UNCHANGED <<posted, network>>

DgNext == send_text \/ send_auth \/ Arrive \/ recv_message_length \/ recv_message

DgSpec == DgInit /\ [][DgNext]_dgVars

-----------------------------------------------------------------------------
(* A datagram is one message, whatever arrives while it is being read: the *)
(* second Recvfrom does not block, and its text is whole.  Bytes follow it *)
(* that nobody sent only if its own length was misread; unlike on a        *)
(* connection, the messages after it are not harmed.                       *)
DatagramIsMessage ==
    /\ rpc = "recv" => rcvq # <<>>
    /\ \A k \in DOMAIN received :
        /\ received[k].text = SubSeq(received[k].of, 5, Len(received[k].of))
        /\ received[k].garbage => received[k].misread
=============================================================================
