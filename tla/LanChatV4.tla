----------------------------- MODULE LanChatV4 -----------------------------
(***************************************************************************)
(* The broadcast chat, 02-lan-p2p-chat/lan_chat-v4.c with udp-broadcast.c  *)
(* (the same code as udp-multicast.c).  It differs from LanChatV5 in its   *)
(* one listening socket: requests and chat messages share listenfd, a      *)
(* prefix of the text tells them apart, and datagrams whose source address *)
(* begins with bind_addr are dropped, which is meant to stop a process     *)
(* from answering its own broadcasts.                                      *)
(*                                                                         *)
(* A host is the last octet of its address, so that the comparison of the  *)
(* two address strings can be modelled by what it does.  find_peer and the *)
(* commands are those of LanChatV5.  The one buffer of listenfd is kept as *)
(* two sets, as its datagrams are read in any order: joinQ has those that  *)
(* read ``auth: CAN'', listenQ the others.                                 *)
(***************************************************************************)
EXTENDS Naturals, Sequences, FiniteSets

CONSTANTS
    Peer,        \* the hosts: last octets of addresses of one /24 subnet
    AuthNamed,   \* the hosts whose user_name is "auth"
    MAX_PEERS, Lossy, StrayBits, MaxStarts, MaxReq

ASSUME OctetAssumption == Peer \subseteq 1 .. 254 /\ AuthNamed \subseteq Peer
ASSUME MaxPeersAssumption == MAX_PEERS \in Nat
ASSUME LossyAssumption == Lossy \in BOOLEAN
ASSUME StrayAssumption == StrayBits \in (SUBSET BOOLEAN) \ {{}}
ASSUME BoundsAssumption == MaxStarts \in Nat /\ MaxReq \in Nat

VARIABLES pc, inc, peers, sockQ, listenQ, joinQ, rset, stray, typed, req

vars == <<pc, inc, peers, sockQ, listenQ, joinQ, rset, stray, typed, req>>

V5 == INSTANCE LanChatV5

TypeOK == V5!TypeOK

Init == V5!Init

-----------------------------------------------------------------------------
(* Like V5, up to message_loop.                                            *)

connect_to_listener(p) == V5!connect_to_listener(p)

find_peer_confirm(p) == V5!find_peer_confirm(p)
find_peer_stdin(p) == V5!find_peer_stdin(p)
find_peer_unblock(p) == V5!find_peer_unblock(p)
find_peer_alarm(p) == V5!find_peer_alarm(p)

FindStep(p) ==
    find_peer_confirm(p) \/ find_peer_stdin(p) \/ find_peer_unblock(p) \/ find_peer_alarm(p)

-----------------------------------------------------------------------------
(* message_loop.                                                           *)

Readable(p) ==
    {f \in {"listenfd", "stdin"} :
        IF f = "listenfd" THEN listenQ[p] \union joinQ[p] # {} ELSE typed[p]}

message_loop_select(p) ==
    /\ pc[p] = "loop" /\ rset[p] = {} /\ Readable(p) # {}
    /\ rset' = [rset EXCEPT ![p] = Readable(p)]
    /\ UNCHANGED <<pc, inc, peers, sockQ, listenQ, joinQ, stray, typed, req>>

(* Variant: without the filter.                                            *)
IgnoresNobody(p, q) == FALSE

(* strncmp(bind_addr, <address of q>, strlen(bind_addr)) = 0 at p: the     *)
(* decimal digits of p are the first digits of q.                          *)
Ignores(p, q) == \E k \in {1, 10, 100} : q \div k = p

(* Variant: the request is answered and its sender is not recorded.        *)
HandleWithoutEntry(p, d) ==
    IF d.body = "CAN" /\ ~Ignores(p, d.host)
    THEN V5!auth_accept(p, d) /\ UNCHANGED <<pc, peers>>
    ELSE UNCHANGED <<pc, peers, sockQ>>

(* What is done with datagram d: if it is not dropped, a text that begins  *)
(* with ``auth: CAN'' is a request, whoever wrote it, others are printed.  *)
Handle(p, d) ==
    IF d.body = "CAN" /\ ~Ignores(p, d.host)
    THEN V5!auth_accept(p, d) /\ V5!AddPeer(p, V5!Requester(d), "loop")
    ELSE UNCHANGED <<pc, peers, sockQ>>

(* The first handler: read one datagram of listenfd.                       *)
handle_listenfd(p) ==
    /\ pc[p] = "loop" /\ "listenfd" \in rset[p]
    /\ rset' = [rset EXCEPT ![p] = @ \ {"listenfd"}]
    /\ \E d \in listenQ[p] \union joinQ[p] :
        /\ listenQ' = [listenQ EXCEPT ![p] = @ \ {d}]
        /\ joinQ' = [joinQ EXCEPT ![p] = @ \ {d}]
        /\ Handle(p, d)
    /\ UNCHANGED <<inc, stray, typed, req>>

stdin_end(p) == V5!stdin_end(p)
stdin_eof(p) == V5!stdin_eof(p)
stdin_find(p) == V5!stdin_find(p)
stdin_find_confirm(p) == V5!stdin_find_confirm(p)

(* A line goes from sockfd to the listenfd of each entry, until a Sendto   *)
(* fails.  What a user named "auth" writes may read ``auth: CAN''.         *)
Deliver(Q, R, d) ==
    [q \in Peer |-> IF q \in R /\ pc[q] \in V5!Listening THEN Q[q] \union {d} ELSE Q[q]]

stdin_text(p) ==
    /\ V5!ReadStdin(p)
    /\ \E k \in 0 .. Len(peers[p]) :
        /\ \E R \in V5!Reached({peers[p][i].host : i \in 1 .. k}) :
             LET text(b) == [body |-> b, host |-> p, port |-> inc[p], inc |-> inc[p], n |-> 0]
             IN  \/ /\ listenQ' = Deliver(listenQ, R, text("TXT"))
                    /\ UNCHANGED joinQ
                 \/ /\ p \in AuthNamed
                    /\ joinQ' = Deliver(joinQ, R, text("CAN"))
                    /\ UNCHANGED listenQ
        /\ pc' = [pc EXCEPT ![p] = IF k < Len(peers[p]) THEN "failed" ELSE "loop"]
    /\ UNCHANGED <<inc, peers, sockQ, stray, req>>

user_types(p) == V5!user_types(p)
err_sys(p) == V5!err_sys(p)

StdinStep(p) == stdin_end(p) \/ stdin_eof(p) \/ stdin_find(p) \/ stdin_text(p)

LoopStep(p) ==
    message_loop_select(p) \/ handle_listenfd(p) \/ StdinStep(p) \/ stdin_find_confirm(p)

Next ==
    \E p \in Peer :
        \/ connect_to_listener(p)
        \/ FindStep(p)
        \/ LoopStep(p)
        \/ user_types(p)
        \/ err_sys(p)

Spec == Init /\ [][Next]_vars

(* As in LanChatV5: a process that can go on goes on.                      *)
FairSpec == Spec /\ \A p \in Peer : WF_vars(FindStep(p)) /\ WF_vars(LoopStep(p))

-----------------------------------------------------------------------------
(* The filter does its work: no process ever lists itself, although its    *)
(* am-find requests come back to its own listenfd, and although a user     *)
(* named "auth" may write texts that are taken for requests.               *)
NeverListsSelf ==
    \A p \in Peer : \A i \in DOMAIN peers[p] : peers[p][i].host # p

(* As in LanChatV5, now with requests that are chat texts: who answered    *)
(* and still listens lists whom it answered.                               *)
ConfirmedIsMutual == V5!ConfirmedIsMutual

Acq == INSTANCE Acquaintance
         WITH Ignored <- {pair \in Peer \X Peer : Ignores(pair[1], pair[2])},
              Mimics <- AuthNamed,
              place <- [p \in Peer |-> V5!Phase(p)],
              life <- inc, asked <- req,
              heard <- [p \in Peer |-> V5!Numbered(joinQ[p])],
              accepted <- [p \in Peer |-> V5!Entered(p, "CAN")],
              granted <- [p \in Peer |-> V5!Numbered(sockQ[p])],
              confirmed <- [p \in Peer |-> V5!Entered(p, "OFC")],
              inbox <- [p \in Peer |-> V5!Senders(listenQ[p])]

(* This chat keeps the same promise as LanChatV5, but for the requests it  *)
(* ignores and the texts it takes for requests.                            *)
AcquaintanceSpec == Acq!Spec

(* "It uses bind_address to disable self-reception of requests": a request *)
(* that a process reads and that comes from another host is accepted.      *)
IgnoresOnlySelf ==
    [][\A p \in Peer : \A d \in joinQ[p] \ joinQ'[p] :
          d.host # p /\ pc[p] = "loop" /\ pc'[p] = "loop"
              => Len(peers'[p]) > Len(peers[p])]_vars

(* Without loss, an am-find whose request waits at another process that    *)
(* does not ignore the sender and stays in its loop is answered.           *)
AmFindAnswered ==
    \A p, q \in Peer :
        (/\ pc[p] = "amfind" /\ ~Ignores(q, p)
         /\ \E d \in joinQ[q] : d.host = p /\ d.port = inc[p])
            ~> (pc[p] # "amfind" \/ pc[q] # "loop")
=============================================================================
