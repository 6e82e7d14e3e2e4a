----------------------------- MODULE LanChatV3 -----------------------------
(***************************************************************************)
(* The unicast UDP chat, 02-lan-p2p-chat/lan_chat-v3.c with udp-iterate.c. *)
(*                                                                         *)
(* The program forks a listener, which answers requests and prints         *)
(* messages on CHAT_PORT, while the main process asks the hosts of the     *)
(* subnet one after the other, each for one second (SO_RCVTIMEO), until    *)
(* one answers, and then sends it every line of stdin.  An answer may come *)
(* after its second is over; Recvfrom then returns it while another host   *)
(* is being asked, and its source address replaces the one asked.          *)
(*                                                                         *)
(* Any datagram may be lost.  A host is the last octet of its address.     *)
(***************************************************************************)
EXTENDS Naturals, FiniteSets

CONSTANTS
    Peer,       \* the hosts that run the program
    LastOctet,  \* the first octet that cannot be asked: the broadcast address
    StartIdx,   \* the values of <start-idx>
    MaxStarts   \* bound, per host: how often it starts the program

ASSUME OctetAssumption ==
    /\ LastOctet \in Nat
    /\ Peer \subseteq 1 .. (LastOctet - 1)
    /\ StartIdx \subseteq 0 .. LastOctet /\ StartIdx # {}
    /\ MaxStarts \in [Peer -> Nat]

None == 0

VARIABLES
    main,       \* main[p] : where the main process of p is
    inc,        \* inc[p] : how often p has started, the port of its sockfd
    from,       \* from[p] : start_idx
    idx,        \* idx[p] : i of find_peer, the host it asks
    found,      \* found[p] : found_peer
    sockQ,      \* sockQ[p] : the hosts whose OFC is unread on sockfd
    forked,     \* forked[p] : the starts of p whose listener has not bound yet
    bound,      \* bound[p] : the starts of p whose listener is bound
    listenQ,    \* listenQ[p] : unread datagrams of p's listeners
    accepted,   \* history: <<q, p, i>> if q's OFC reached the i-th process of p
    failed      \* history: the starts whose main ended without killing its listener

vars == <<main, inc, from, idx, found, sockQ, forked, bound, listenQ, accepted, failed>>

Datagram == [body : {"CAN", "TXT"}, host : Peer, inc : Nat]

TypeOK ==
    /\ main \in [Peer -> {"off", "ask", "wait", "chat"}]
    /\ inc \in [Peer -> Nat] /\ idx \in [Peer -> Nat] /\ from \in [Peer -> Nat]
    /\ found \in [Peer -> Peer \union {None}]
    /\ sockQ \in [Peer -> SUBSET Peer]
    /\ forked \in [Peer -> SUBSET Nat] /\ bound \in [Peer -> SUBSET Nat]
    /\ listenQ \in [Peer -> SUBSET Datagram]
    /\ accepted \subseteq Peer \X Peer \X Nat
    /\ failed \in [Peer -> SUBSET Nat]

Init ==
    /\ main = [p \in Peer |-> "off"]
    /\ inc = [p \in Peer |-> 0] /\ idx = [p \in Peer |-> 0] /\ from = [p \in Peer |-> 0]
    /\ found = [p \in Peer |-> None]
    /\ sockQ = [p \in Peer |-> {}]
    /\ forked = [p \in Peer |-> {}] /\ bound = [p \in Peer |-> {}]
    /\ listenQ = [p \in Peer |-> {}]
    /\ accepted = {}
    /\ failed = [p \in Peer |-> {}]

(* Sendto of d to CHAT_PORT of host h: it reaches a bound listener of h,   *)
(* if there is one, or is lost.                                            *)
Sendto(h, d) ==
    \/ /\ h \in Peer /\ bound[h] # {}
       /\ listenQ' = [listenQ EXCEPT ![h] = @ \union {d}]
    \/ UNCHANGED listenQ

(* The listener of the i-th start of p ends; what it has not read is lost. *)
EndListener(p, i) ==
    /\ bound' = [bound EXCEPT ![p] = @ \ {i}]
    /\ \E L \in SUBSET listenQ[p] :
        /\ bound[p] = {i} => L = {}
        /\ listenQ' = [listenQ EXCEPT ![p] = L]

-----------------------------------------------------------------------------
(* The main process.                                                       *)

(* main: fork the listener, open sockfd, begin at start_idx.               *)
spawn_listener(p) ==
    /\ main[p] = "off" /\ inc[p] < MaxStarts[p]
    /\ main' = [main EXCEPT ![p] = "ask"]
    /\ inc' = [inc EXCEPT ![p] = @ + 1]
    /\ \E i \in StartIdx : /\ from' = [from EXCEPT ![p] = i]
                           /\ idx' = [idx EXCEPT ![p] = i]
    /\ forked' = [forked EXCEPT ![p] = @ \union {inc[p] + 1}]
    /\ UNCHANGED <<found, sockQ, bound, listenQ, accepted, failed>>

(* The end of the main process: its variables and its sockfd are gone.     *)
Exit(p) ==
    /\ main' = [main EXCEPT ![p] = "off"]
    /\ from' = [from EXCEPT ![p] = 0]
    /\ idx' = [idx EXCEPT ![p] = 0]
    /\ found' = [found EXCEPT ![p] = None]
    /\ sockQ' = [sockQ EXCEPT ![p] = {}]
    /\ accepted' = {a \in accepted : a[2] # p}

(* It ends with an error: the listener is not killed.                      *)
Fail(p) ==
    /\ Exit(p)
    /\ failed' = [failed EXCEPT ![p] = @ \union {inc[p]}]
    /\ UNCHANGED <<inc, forked, bound, listenQ>>

(* update_try_address and auth_request: ask host i.  Past the last host    *)
(* Sendto (broadcast without SO_BROADCAST) or Inet_pton fails.             *)
auth_request(p) ==
    /\ main[p] = "ask"
    /\ IF idx[p] < LastOctet
       THEN /\ Sendto(idx[p], [body |-> "CAN", host |-> p, inc |-> inc[p]])
            /\ main' = [main EXCEPT ![p] = "wait"]
            /\ UNCHANGED <<inc, from, idx, found, sockQ, forked, bound, accepted, failed>>
       ELSE Fail(p)

(* Variant: the address asked is kept, not the one recvfrom fills in.      *)
KeepAsked(p, q) == idx[p]

(* Variant: the address the loop would go on with.                         *)
TakeNext(p, q) == idx[p] + 1

(* The address left in servaddr when q's answer has been read.             *)
AnswerFrom(p, q) == q

(* auth_try_confirm returns 1: the loop ends with the sender's address.    *)
auth_try_confirm(p) ==
    /\ main[p] = "wait"
    /\ \E q \in sockQ[p] :
        /\ found' = [found EXCEPT ![p] = AnswerFrom(p, q)]
        /\ sockQ' = [sockQ EXCEPT ![p] = @ \ {q}]
    /\ idx' = [idx EXCEPT ![p] = @ + 1]
    /\ main' = [main EXCEPT ![p] = "chat"]
    /\ UNCHANGED <<inc, from, forked, bound, listenQ, accepted, failed>>

(* Variant: the host that did not answer is asked again.                   *)
AskAgain(p) ==
    /\ main[p] = "wait" /\ sockQ[p] = {}
    /\ main' = [main EXCEPT ![p] = "ask"]
    /\ UNCHANGED <<inc, from, idx, found, sockQ, forked, bound, listenQ, accepted, failed>>

(* recvfrom times out: ask the next host.                                  *)
recv_timeout(p) ==
    /\ main[p] = "wait" /\ sockQ[p] = {}
    /\ idx' = [idx EXCEPT ![p] = @ + 1]
    /\ main' = [main EXCEPT ![p] = "ask"]
    /\ UNCHANGED <<inc, from, found, sockQ, forked, bound, listenQ, accepted, failed>>

(* message_loop sends a line; the text of a user named "auth" may read     *)
(* ``auth: CAN''.                                                          *)
message_loop(p) ==
    /\ main[p] = "chat"
    /\ \E b \in {"TXT", "CAN"} : Sendto(found[p], [body |-> b, host |-> p, inc |-> inc[p]])
    /\ UNCHANGED <<main, inc, from, idx, found, sockQ, forked, bound, accepted, failed>>

(* Variant: without kill(listenerpid, SIGKILL).                            *)
EndWithoutKill(p) ==
    /\ main[p] = "chat"
    /\ Exit(p)
    /\ UNCHANGED <<inc, forked, bound, listenQ, failed>>

(* am-end or end of file: kill the listener, if it has not ended already,  *)
(* and exit.                                                               *)
kill_and_exit(p) ==
    /\ main[p] = "chat"
    /\ Exit(p)
    /\ forked' = [forked EXCEPT ![p] = @ \ {inc[p]}]
    /\ IF inc[p] \in bound[p] THEN EndListener(p, inc[p]) ELSE UNCHANGED <<bound, listenQ>>
    /\ UNCHANGED <<inc, failed>>

(* A wrapper fails, or a signal ends the main process.                     *)
err_sys(p) == main[p] # "off" /\ Fail(p)

-----------------------------------------------------------------------------
(* The listener, a process of its own.                                     *)

(* bind_listener; with SO_REUSEADDR it succeeds beside older listeners,    *)
(* unless Socket, Setsockopt or Bind fails: err_sys then ends the forked   *)
(* process, and main does not notice.                                      *)
bind_listener(p, i) ==
    /\ i \in forked[p]
    /\ forked' = [forked EXCEPT ![p] = @ \ {i}]
    /\ \/ bound' = [bound EXCEPT ![p] = @ \union {i}]
       \/ UNCHANGED bound
    /\ UNCHANGED <<main, inc, from, idx, found, sockQ, listenQ, accepted, failed>>

(* listener_task: answer a request (to the sockfd that sent it, if that is *)
(* still open) or print a message.                                         *)
listener_task(p) ==
    /\ bound[p] # {}
    /\ \E d \in listenQ[p] :
        /\ listenQ' = [listenQ EXCEPT ![p] = @ \ {d}]
        /\ IF d.body = "CAN"
           THEN \/ /\ main[d.host] # "off" /\ inc[d.host] = d.inc
                   /\ accepted' = accepted \union {<<p, d.host, d.inc>>}
                   /\ sockQ' = [sockQ EXCEPT ![d.host] = @ \union {p}]
                \/ UNCHANGED <<accepted, sockQ>>
           ELSE UNCHANGED <<accepted, sockQ>>
    /\ UNCHANGED <<main, inc, from, idx, found, forked, bound, failed>>

(* Recvfrom or Sendto of a listener fails, or a signal ends it, while main *)
(* goes on or is long gone.                                                *)
listener_err_sys(p, i) ==
    /\ i \in bound[p]
    /\ EndListener(p, i)
    /\ UNCHANGED <<main, inc, from, idx, found, sockQ, forked, accepted, failed>>

FindStep(p) == auth_request(p) \/ auth_try_confirm(p) \/ recv_timeout(p)

Next ==
    \E p \in Peer :
        \/ spawn_listener(p)
        \/ FindStep(p)
        \/ message_loop(p)
        \/ kill_and_exit(p)
        \/ err_sys(p)
        \/ \E i \in forked[p] : bind_listener(p, i)
        \/ listener_task(p)
        \/ \E i \in bound[p] : listener_err_sys(p, i)

Spec == Init /\ [][Next]_vars

(* The main process goes on and its receive timeout runs; nothing is       *)
(* assumed of the user, of the listeners or of the network.                *)
FairSpec == Spec /\ \A p \in Peer : WF_vars(FindStep(p))

-----------------------------------------------------------------------------
(* A process chats only to a host that has accepted it, and it asked that  *)
(* host: also when an answer came after its timeout, or an orphan answered.*)
FoundHasAccepted ==
    \A p \in Peer : main[p] = "chat" =>
        /\ <<found[p], p, inc[p]>> \in accepted
        /\ found[p] \in from[p] .. (idx[p] - 1)

(* Every listener that runs without its main process, bound or not, is of  *)
(* a start that failed: am-end leaves none, whether the listener of its    *)
(* start has bound by then or not, and beside whatever older ones there    *)
(* are.                                                                    *)
OrphansOnlyFromFailures ==
    \A p \in Peer : \A i \in forked[p] \union bound[p] :
        (i = inc[p] /\ main[p] # "off") \/ i \in failed[p]

(* find_peer ends, with a peer or with an error.                           *)
FindPeerEnds == \A p \in Peer : main[p] \in {"ask", "wait"} ~> main[p] \notin {"ask", "wait"}
=============================================================================
