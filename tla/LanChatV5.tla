----------------------------- MODULE LanChatV5 -----------------------------
(***************************************************************************)
(* The multicast chat, 02-lan-p2p-chat/lan_chat-v5.c with udp-multicast.c. *)
(*                                                                         *)
(* Every host of the LAN runs one single-threaded process.  A process      *)
(* multicasts ``auth: CAN'' on sockfd and gathers the ``auth: OFC''        *)
(* answers until SIGALRM interrupts pselect (find_peer); only then does it *)
(* open listenfd (chat messages) and joinfd (multicast requests) and serve *)
(* them and stdin from one Select loop (message_loop).                     *)
(*                                                                         *)
(* An unread datagram sits in a socket buffer and is read at any later     *)
(* time, in any order.  A datagram reaches only sockets open when it is    *)
(* sent.  The fields inc and n of a datagram, inc and via of an entry of   *)
(* peers, and the variable req are history: no guard on a datagram or an   *)
(* entry reads them.                                                       *)
(***************************************************************************)
EXTENDS Naturals, Sequences, FiniteSets

CONSTANTS
    Peer,        \* the hosts of the LAN
    MAX_PEERS,   \* size of the array peers
    Lossy,       \* may the network drop datagrams?
    StrayBits,   \* what the uninitialized rset of find_peer may hold for stdin
    MaxStarts,   \* bound: how often a host starts the program
    MaxReq       \* bound: requests (one at start, then am-find) per process

ASSUME MaxPeersAssumption == MAX_PEERS \in Nat
ASSUME LossyAssumption == Lossy \in BOOLEAN
ASSUME StrayAssumption == StrayBits \in (SUBSET BOOLEAN) \ {{}}
ASSUME BoundsAssumption == MaxStarts \in Nat /\ MaxReq \in Nat

(* UDP ports: CHAT_PORT is 0 here; the port the kernel gives to sockfd of  *)
(* the i-th process of a host is i.                                        *)
CHAT_PORT == 0

Address == [host : Peer, port : Nat]

(* What recv_message and auth_try_confirm tell apart, and the address that *)
(* Recvfrom fills in.                                                      *)
Datagram == [body : {"CAN", "OFC", "TXT"}, host : Peer, port : Nat,
             inc : Nat, n : Nat]

(* An element of peers: a socket address; inc is the process it was learnt *)
(* from, via the message it was learnt with.                               *)
PeerEntry == [host : Peer, port : Nat, inc : Nat, via : {"CAN", "OFC"}]

(* Where a process is: not running; at pselect of find_peer; blocked in    *)
(* Recvfrom inside find_peer; in message_loop; blocked in auth_try_confirm *)
(* of am-find; past a write behind the end of peers; on its way from       *)
(* err_sys to exit(1).                                                     *)
Place == {"off", "find", "blocked", "loop", "amfind", "overrun", "failed"}

Running == {"find", "blocked", "loop", "amfind"}
Listening == {"loop", "amfind"}

VARIABLES
    pc,       \* pc[p] : the place of the process of host p
    inc,      \* inc[p] : how often p has started, the port of its sockfd
    peers,    \* peers[p] : the array peers up to peer_count
    sockQ,    \* sockQ[p] : unread datagrams on sockfd
    listenQ,  \* listenQ[p] : unread chat messages on listenfd
    joinQ,    \* joinQ[p] : unread requests on joinfd
    rset,     \* rset[p] : descriptors of the last Select not handled yet
    stray,    \* stray[p] : is stdin set in rset of find_peer?
    typed,    \* typed[p] : is stdin readable?
    req       \* req[p] : requests sent by the process p started last

vars == <<pc, inc, peers, sockQ, listenQ, joinQ, rset, stray, typed, req>>

(* One type invariant for the whole state.                                 *)
TypeOK ==
    /\ pc \in [Peer -> Place]
    /\ inc \in [Peer -> Nat]
    /\ peers \in [Peer -> Seq(PeerEntry)]
    /\ sockQ \in [Peer -> SUBSET Datagram]
    /\ listenQ \in [Peer -> SUBSET Datagram]
    /\ joinQ \in [Peer -> SUBSET Datagram]
    /\ rset \in [Peer -> SUBSET {"listenfd", "joinfd", "stdin"}]
    /\ stray \in [Peer -> BOOLEAN]
    /\ typed \in [Peer -> BOOLEAN]
    /\ req \in [Peer -> Nat]

Init ==
    /\ pc = [p \in Peer |-> "off"]
    /\ inc = [p \in Peer |-> 0]
    /\ peers = [p \in Peer |-> <<>>]
    /\ sockQ = [p \in Peer |-> {}]
    /\ listenQ = [p \in Peer |-> {}]
    /\ joinQ = [p \in Peer |-> {}]
    /\ rset = [p \in Peer |-> {}]
    /\ stray = [p \in Peer |-> FALSE]
    /\ typed = [p \in Peer |-> FALSE]
    /\ req = [p \in Peer |-> 0]

-----------------------------------------------------------------------------
(* The network and the socket buffers.                                     *)

(* Which of the receivers of S a datagram sent to all of them may reach.   *)
Reached(S) == IF Lossy THEN SUBSET S ELSE {S}

(* The sockets a datagram to address a ends up in.  listenfd is bound to   *)
(* CHAT_PORT of every local address, joinfd to the group's address only.   *)
AtListenfd(a) == a.port = CHAT_PORT /\ pc[a.host] \in Listening
AtSockfd(a) == a.port # CHAT_PORT /\ a.port = inc[a.host] /\ pc[a.host] \in Running

(* Sendto of d to each of the addresses A.                                 *)
Sendto(A, d) ==
    /\ listenQ' = [q \in Peer |->
           IF \E a \in A : a.host = q /\ AtListenfd(a)
           THEN listenQ[q] \union {d} ELSE listenQ[q]]
    /\ sockQ' = [q \in Peer |->
           IF \E a \in A : a.host = q /\ AtSockfd(a)
           THEN sockQ[q] \union {d} ELSE sockQ[q]]

(* Variant: joinfd is opened before the first request.                     *)
MembersBoundBeforeFind(p) == {q \in Peer : pc[q] \in Running} \union {p}

(* The hosts whose joinfd is a member of the group when p multicasts; p's  *)
(* own joinfd is one of them (multicast loopback), once bind_listener has  *)
(* opened it.                                                              *)
Members(p) == {q \in Peer : pc[q] \in Listening}

(* auth_request: multicast the i-th request of the c-th process of p.      *)
auth_request(p, c, i) ==
    \E R \in Reached(Members(p)) :
        joinQ' = [q \in Peer |->
            IF q \in R
            THEN joinQ[q] \union {[body |-> "CAN", host |-> p, port |-> c,
                                   inc |-> c, n |-> i]}
            ELSE joinQ[q]]

(* Variant: sin_port is rewritten before auth_accept.                      *)
AnswerToChatPort(d) == [host |-> d.host, port |-> CHAT_PORT]

(* auth_accept: the address the answer to request d goes to.               *)
AnswerAddress(d) == [host |-> d.host, port |-> d.port]

(* auth_accept: `auth: OFC' from joinfd, hence from CHAT_PORT, to the      *)
(* sender of request d.                                                    *)
auth_accept(p, d) ==
    \E A \in Reached({AnswerAddress(d)}) :
        Sendto(A, [body |-> "OFC", host |-> p, port |-> CHAT_PORT,
                   inc |-> inc[p], n |-> d.n])

(* Variant: sin_port is not rewritten.                                     *)
RequesterAsReceived(d) == [host |-> d.host, port |-> d.port, inc |-> d.inc, via |-> "CAN"]

(* The entry made for the sender of request d, with sin_port = CHAT_PORT.  *)
Requester(d) == [host |-> d.host, port |-> CHAT_PORT, inc |-> d.inc, via |-> "CAN"]

(* Variant: Recvfrom is not given an address to fill in (INADDR_ANY).      *)
ConfirmerUnknown(d) == [host |-> 0, port |-> d.port, inc |-> d.inc, via |-> "OFC"]

(* The entry made for the sender of answer d, as Recvfrom filled it in.    *)
Confirmer(d) == [host |-> d.host, port |-> d.port, inc |-> d.inc, via |-> "OFC"]

(* peers[peer_count++] = e, without a check of peer_count; then go on at   *)
(* place next.  What follows a write behind the array is undefined: the    *)
(* model stops the process there.                                          *)
AddPeer(p, e, next) ==
    IF Len(peers[p]) < MAX_PEERS
    THEN /\ peers' = [peers EXCEPT ![p] = Append(@, e)]
         /\ pc' = [pc EXCEPT ![p] = next]
    ELSE /\ pc' = [pc EXCEPT ![p] = "overrun"]
         /\ UNCHANGED peers

(* auth_try_confirm: read a datagram of sockfd; an OFC adds its sender to  *)
(* peers, anything else is err_sys.                                        *)
auth_try_confirm(p, next) ==
    \E d \in sockQ[p] :
        /\ sockQ' = [sockQ EXCEPT ![p] = @ \ {d}]
        /\ IF d.body = "OFC"
           THEN AddPeer(p, Confirmer(d), next)
           ELSE /\ pc' = [pc EXCEPT ![p] = "failed"]
                /\ UNCHANGED peers

(* exit: the kernel closes the sockets, their buffers are gone.            *)
Exit(p) ==
    /\ pc' = [pc EXCEPT ![p] = "off"]
    /\ peers' = [peers EXCEPT ![p] = <<>>]
    /\ sockQ' = [sockQ EXCEPT ![p] = {}]
    /\ listenQ' = [listenQ EXCEPT ![p] = {}]
    /\ joinQ' = [joinQ EXCEPT ![p] = {}]
    /\ rset' = [rset EXCEPT ![p] = {}]
    /\ stray' = [stray EXCEPT ![p] = FALSE]
    /\ typed' = [typed EXCEPT ![p] = FALSE]
    /\ UNCHANGED <<inc, req>>

-----------------------------------------------------------------------------
(* main, connect_to_listener and find_peer.                                *)

(* Start the program: open sockfd, send the first request, reach pselect   *)
(* with an rset nobody has zeroed.                                         *)
connect_to_listener(p) ==
    /\ pc[p] = "off" /\ inc[p] < MaxStarts
    /\ auth_request(p, inc[p] + 1, 1)
    /\ pc' = [pc EXCEPT ![p] = "find"]
    /\ inc' = [inc EXCEPT ![p] = @ + 1]
    /\ req' = [req EXCEPT ![p] = 1]
    /\ \E b \in StrayBits : stray' = [stray EXCEPT ![p] = b]
    /\ UNCHANGED <<peers, sockQ, listenQ, rset, typed>>

(* pselect would also report stdin.                                        *)
StdinInPselect(p) == stray[p] /\ typed[p]

(* pselect returns 1 for sockfd, which leaves only sockfd in rset.         *)
find_peer_confirm(p) ==
    /\ pc[p] = "find" /\ ~StdinInPselect(p)
    /\ auth_try_confirm(p, "find")
    /\ stray' = [stray EXCEPT ![p] = FALSE]
    /\ UNCHANGED <<inc, listenQ, joinQ, rset, typed, req>>

(* pselect reports stdin: alone it returns 1 and Recvfrom blocks with      *)
(* SIGALRM blocked; together with sockfd it returns 2, which is err_sys.   *)
find_peer_stdin(p) ==
    /\ pc[p] = "find" /\ StdinInPselect(p)
    /\ IF sockQ[p] = {}
       THEN /\ pc' = [pc EXCEPT ![p] = "blocked"]
            /\ UNCHANGED <<inc, peers, sockQ, listenQ, joinQ, rset, stray, typed, req>>
       ELSE Exit(p)

(* An answer ends the blocked Recvfrom; stdin is still in rset.            *)
find_peer_unblock(p) ==
    /\ pc[p] = "blocked"
    /\ auth_try_confirm(p, "find")
    /\ UNCHANGED <<inc, listenQ, joinQ, rset, stray, typed, req>>

(* Variant: EINTR is taken as a reason to call pselect again.              *)
AlarmRestartsPselect(p) ==
    /\ pc[p] = "find" /\ sockQ[p] = {} /\ ~StdinInPselect(p)
    /\ UNCHANGED vars

(* Variant: the alarm ends the search though an answer is waiting.         *)
AlarmBeforeAnswers(p) ==
    /\ pc[p] = "find" /\ ~StdinInPselect(p)
    /\ pc' = [pc EXCEPT ![p] = "loop"]
    /\ stray' = [stray EXCEPT ![p] = FALSE]
    /\ UNCHANGED <<inc, peers, sockQ, listenQ, joinQ, rset, typed, req>>

(* SIGALRM: pselect reports ready descriptors first, so EINTR breaks the   *)
(* loop only when there are none.  message_loop then opens listenfd and    *)
(* joinfd (bind_listener); the rset of find_peer is gone.                  *)
find_peer_alarm(p) ==
    /\ pc[p] = "find" /\ sockQ[p] = {} /\ ~StdinInPselect(p)
    /\ pc' = [pc EXCEPT ![p] = "loop"]
    /\ stray' = [stray EXCEPT ![p] = FALSE]
    /\ UNCHANGED <<inc, peers, sockQ, listenQ, joinQ, rset, typed, req>>

-----------------------------------------------------------------------------
(* message_loop.                                                           *)

(* The descriptors Select reports.                                         *)
Readable(p) ==
    {f \in {"listenfd", "joinfd", "stdin"} :
        \/ f = "listenfd" /\ listenQ[p] # {}
        \/ f = "joinfd" /\ joinQ[p] # {}
        \/ f = "stdin" /\ typed[p]}

(* Select returns once some descriptor is readable.                        *)
message_loop_select(p) ==
    /\ pc[p] = "loop" /\ rset[p] = {} /\ Readable(p) # {}
    /\ rset' = [rset EXCEPT ![p] = Readable(p)]
    /\ UNCHANGED <<pc, inc, peers, sockQ, listenQ, joinQ, stray, typed, req>>

(* The first of the three handlers: read one message and print it.         *)
handle_listenfd(p) ==
    /\ pc[p] = "loop" /\ "listenfd" \in rset[p]
    /\ \E d \in listenQ[p] : listenQ' = [listenQ EXCEPT ![p] = @ \ {d}]
    /\ rset' = [rset EXCEPT ![p] = @ \ {"listenfd"}]
    /\ UNCHANGED <<pc, inc, peers, sockQ, joinQ, stray, typed, req>>

(* Variant: the request is answered and its sender is not recorded.        *)
AnswerWithoutEntry(p) ==
    /\ pc[p] = "loop" /\ "listenfd" \notin rset[p] /\ "joinfd" \in rset[p]
    /\ rset' = [rset EXCEPT ![p] = @ \ {"joinfd"}]
    /\ \E d \in joinQ[p] :
        /\ joinQ' = [joinQ EXCEPT ![p] = @ \ {d}]
        /\ auth_accept(p, d)
    /\ UNCHANGED <<pc, peers, inc, stray, typed, req>>

(* The second: read one datagram; if it is a request, answer its sender    *)
(* and add it to peers.                                                    *)
handle_joinfd(p) ==
    /\ pc[p] = "loop" /\ "listenfd" \notin rset[p] /\ "joinfd" \in rset[p]
    /\ rset' = [rset EXCEPT ![p] = @ \ {"joinfd"}]
    /\ \E d \in joinQ[p] :
        /\ joinQ' = [joinQ EXCEPT ![p] = @ \ {d}]
        /\ IF d.body = "CAN"
           THEN auth_accept(p, d) /\ AddPeer(p, Requester(d), "loop")
           ELSE UNCHANGED <<pc, peers, sockQ, listenQ>>
    /\ UNCHANGED <<inc, stray, typed, req>>

(* The last handler has its turn and Read takes what is there.             *)
ReadStdin(p) ==
    /\ pc[p] = "loop" /\ rset[p] = {"stdin"}
    /\ rset' = [rset EXCEPT ![p] = {}]
    /\ typed' = [typed EXCEPT ![p] = FALSE]

(* am-end: break, exit(0).                                                 *)
stdin_end(p) ==
    /\ pc[p] = "loop" /\ rset[p] = {"stdin"}
    /\ Exit(p)

(* End of file: Read returns 0, nothing is done and stdin stays readable.  *)
stdin_eof(p) ==
    /\ pc[p] = "loop" /\ rset[p] = {"stdin"}
    /\ rset' = [rset EXCEPT ![p] = {}]
    /\ UNCHANGED <<pc, inc, peers, sockQ, listenQ, joinQ, stray, typed, req>>

(* am-find: multicast a request and block in auth_try_confirm.             *)
stdin_find(p) ==
    /\ req[p] < MaxReq
    /\ ReadStdin(p)
    /\ auth_request(p, inc[p], req[p] + 1)
    /\ req' = [req EXCEPT ![p] = @ + 1]
    /\ pc' = [pc EXCEPT ![p] = "amfind"]
    /\ UNCHANGED <<inc, peers, sockQ, listenQ, stray>>

(* The first datagram on sockfd ends am-find, whichever request of this    *)
(* process it answers.                                                     *)
stdin_find_confirm(p) ==
    /\ pc[p] = "amfind"
    /\ auth_try_confirm(p, "loop")
    /\ UNCHANGED <<inc, listenQ, joinQ, rset, stray, typed, req>>

(* Any other line goes to peers[0], peers[1], ... in order, from sockfd;   *)
(* when the (k+1)-th Sendto fails the first k are out and err_sys exits.   *)
stdin_text(p) ==
    /\ ReadStdin(p)
    /\ \E k \in 0 .. Len(peers[p]) :
        /\ \E A \in Reached({[host |-> peers[p][i].host, port |-> peers[p][i].port]
                             : i \in 1 .. k}) :
               Sendto(A, [body |-> "TXT", host |-> p, port |-> inc[p],
                          inc |-> inc[p], n |-> 0])
        /\ pc' = [pc EXCEPT ![p] = IF k < Len(peers[p]) THEN "failed" ELSE "loop"]
    /\ UNCHANGED <<inc, peers, joinQ, stray, req>>

-----------------------------------------------------------------------------
(* The user, and the end of a process.                                     *)

(* The user types a line, or ends the input.                               *)
user_types(p) ==
    /\ pc[p] \in Running /\ ~typed[p]
    /\ typed' = [typed EXCEPT ![p] = TRUE]
    /\ UNCHANGED <<pc, inc, peers, sockQ, listenQ, joinQ, rset, stray, req>>

(* A wrapper (Socket, Bind, Select, Recvfrom, ...) fails and err_sys calls *)
(* exit(1), or a signal ends the process.                                  *)
err_sys(p) ==
    /\ pc[p] \in Running \union {"failed"}
    /\ Exit(p)

StdinStep(p) == stdin_end(p) \/ stdin_eof(p) \/ stdin_find(p) \/ stdin_text(p)

FindStep(p) ==
    find_peer_confirm(p) \/ find_peer_stdin(p) \/ find_peer_unblock(p) \/ find_peer_alarm(p)

LoopStep(p) ==
    \/ message_loop_select(p) \/ handle_listenfd(p) \/ handle_joinfd(p)
    \/ StdinStep(p) \/ stdin_find_confirm(p)

Next ==
    \E p \in Peer :
        \/ connect_to_listener(p)
        \/ FindStep(p)
        \/ LoopStep(p)
        \/ user_types(p)
        \/ err_sys(p)

Spec == Init /\ [][Next]_vars

(* A process that can take a step of its own takes one; the alarm is such  *)
(* a step, as alarm(5) has been called.  Nothing is assumed of the user,   *)
(* of failures or of starts.                                               *)
FairSpec == Spec /\ \A p \in Peer : WF_vars(FindStep(p)) /\ WF_vars(LoopStep(p))

-----------------------------------------------------------------------------
(* Safety.                                                                 *)

(* Only answers ever reach sockfd: chat messages go to CHAT_PORT, because  *)
(* joinfd's handler rewrites sin_port before it records the requester.  So *)
(* neither find_peer nor am-find takes its err_sys("auth_try_confirm       *)
(* error") branch because of another peer's chat message.                  *)
SockfdOnlyOfc == \A p \in Peer : \A d \in sockQ[p] : d.body = "OFC"

(* p's list holds host q as it is now (its running process), learnt from a *)
(* message via.                                                            *)
Lists(p, q, via) ==
    \E i \in DOMAIN peers[p] :
        /\ peers[p][i].host = q
        /\ peers[p][i].inc = inc[q]
        /\ peers[p][i].via = via

(* q as it is now has accepted p, and p has recorded that or has still to  *)
(* read it on sockfd (once find_peer is over only am-find reads sockfd).   *)
Answered(p, q) ==
    \/ Lists(p, q, "OFC")
    \/ \E d \in sockQ[p] : d.host = q /\ d.inc = inc[q]

(* A peer that answered OFC and still listens lists the process it         *)
(* answered: whom we chat to after a successful search chats to us too,    *)
(* with loss, restarts and late answers.                                   *)
ConfirmedIsMutual ==
    \A p, q \in Peer :
        pc[p] \in Running /\ pc[q] \in Listening /\ Answered(p, q)
            => Lists(q, p, "CAN")

(* Without loss, a process that is listed because of its request lists the *)
(* peer that accepted it, or the acceptance waits unread on its sockfd.    *)
AcceptedIsKnown ==
    ~Lossy =>
        \A p, q \in Peer :
            pc[p] \in Running /\ pc[q] \in Running /\ Lists(q, p, "CAN")
                => Answered(p, q)

(* As long as no host restarted the program and nobody used am-find, no    *)
(* process lists itself and none lists a host twice (a text would be sent  *)
(* to it twice): find_peer sends its request before bind_listener opens    *)
(* joinfd, so of two processes at most one hears the other's first request.*)
StartupListsOnce ==
    (\A p \in Peer : inc[p] <= 1 /\ req[p] <= 1) =>
        \A p \in Peer : \A i, j \in DOMAIN peers[p] :
            /\ peers[p][i].host # p
            /\ peers[p][i].host = peers[p][j].host => i = j

(* The processes p's list holds because of a message via.                  *)
Entered(p, via) ==
    {[host |-> peers[p][i].host, life |-> peers[p][i].inc] :
        i \in {j \in DOMAIN peers[p] : peers[p][j].via = via}}

(* What Acquaintance keeps of a datagram.                                  *)
Numbered(Q) == {[host |-> d.host, life |-> d.inc, n |-> d.n] : d \in Q}
Senders(Q) == {[host |-> d.host, life |-> d.inc] : d \in Q}

Phase(p) ==
    CASE pc[p] = "off" -> "off"
      [] pc[p] \in {"find", "blocked"} -> "search"
      [] pc[p] \in Listening -> "listen"
      [] OTHER -> "stopped"

Acq == INSTANCE Acquaintance
         WITH Ignored <- {}, Mimics <- {},
              place <- [p \in Peer |-> Phase(p)],
              life <- inc, asked <- req,
              heard <- [p \in Peer |-> Numbered(joinQ[p])],
              accepted <- [p \in Peer |-> Entered(p, "CAN")],
              granted <- [p \in Peer |-> Numbered(sockQ[p])],
              confirmed <- [p \in Peer |-> Entered(p, "OFC")],
              inbox <- [p \in Peer |-> Senders(listenQ[p])]

(* With its ports, its descriptors, pselect and Select, its am-find that   *)
(* blocks and its table without a check, a process comes to know others    *)
(* and writes to them only as Acquaintance says.                           *)
AcquaintanceSpec == Acq!Spec

(* No process writes behind the end of the array peers.                    *)
PeerTableBounded == \A p \in Peer : pc[p] # "overrun"

-----------------------------------------------------------------------------
(* Liveness, under FairSpec.                                               *)

(* find_peer returns (or the process ends): "gather all responses which    *)
(* were received in the next 5 seconds".                                   *)
FindPeerReturns ==
    \A p \in Peer : pc[p] \in {"find", "blocked"} ~> pc[p] \notin {"find", "blocked"}

(* Without loss, an am-find whose request waits at a process that stays in *)
(* its loop is answered: only a peer that ends or searches itself at the   *)
(* same time leaves it blocked.                                            *)
AmFindAnswered ==
    \A p, q \in Peer :
        (pc[p] = "amfind" /\ \E d \in joinQ[q] : d.host = p /\ d.port = inc[p])
            ~> (pc[p] # "amfind" \/ pc[q] # "loop")
=============================================================================
