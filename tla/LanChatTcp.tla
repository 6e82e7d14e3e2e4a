----------------------------- MODULE LanChatTcp -----------------------------
(***************************************************************************)
(* The TCP chats, 02-lan-p2p-chat/lan_chat-v1.c and lan_chat-v2.c.  Both   *)
(* fork a listener, connect to the first listener they find and write each *)
(* line of stdin to it; they differ only in where they look.  v1 listens   *)
(* on a port of its user's choice and goes round the ports of its own      *)
(* host; v2 listens on CHAT_PORT, which is v1's PORT_MIN, and goes through *)
(* the hosts of the subnet.  They speak the same protocol, so users of     *)
(* both may share a LAN and even a host.                                   *)
(*                                                                         *)
(* A listener serves one connection at a time: the kernel completes the    *)
(* others and their lines wait unread.  A line is one step from Writen to  *)
(* printf; its bytes are the subject of another module.                    *)
(***************************************************************************)
EXTENDS Naturals, Sequences

CONSTANTS
    User,       \* those who start the programs
    Host,       \* Host[u] : the last octet of the address of u's computer
    PORT_MIN, PORT_MAX,
    LastOctet,  \* the last octet Inet_pton takes (255)
    StartIdx,   \* the values of <start-idx>
    SendBuf,    \* how many unread lines a connection holds before Writen blocks
    MaxStarts   \* bound, per user: how often a program is started

ASSUME PortAssumption == PORT_MIN \in Nat /\ PORT_MAX \in Nat /\ PORT_MIN <= PORT_MAX
ASSUME HostAssumption == LastOctet \in Nat /\ Host \in [User -> 1 .. LastOctet]
ASSUME IdxAssumption == StartIdx \subseteq Nat
ASSUME BoundsAssumption == SendBuf \in Nat \ {0} /\ MaxStarts \in [User -> Nat]

CHAT_PORT == PORT_MIN

Address == [host : 1 .. LastOctet, port : PORT_MIN .. PORT_MAX]

(* A start of a program by a user.  It makes at most one connection, which *)
(* has the same name.                                                      *)
Proc == UNION {[user : {u}, inc : 1 .. MaxStarts[u]] : u \in User}

(* A forked listener: which start it belongs to, and its address.          *)
Listener == [proc : Proc, addr : Address]

VARIABLES
    main,    \* main[u] : where the main process is
    inc,     \* inc[u] : how often u has started a program
    prog,    \* prog[u] : which one last
    own,     \* own[u] : listen_port
    next,    \* next[u] : current_port of v1, i of v2
    forked,  \* the listeners that have not bound yet
    bound,   \* the listeners that listen
    queue,   \* queue[a] : connections to a that are not accepted yet
    connfd,  \* connfd[a] : the connection the listener of a reads, if any
    unread,  \* the connections with unread lines, and how many they have
    failed   \* history: the starts whose main ended without killing its listener

vars == <<main, inc, prog, own, next, forked, bound, queue, connfd, unread, failed>>

TypeOK ==
    /\ main \in [User -> {"off", "find", "chat"}]
    /\ inc \in [User -> Nat]
    /\ prog \in [User -> {"v1", "v2"}]
    /\ own \in [User -> PORT_MIN .. PORT_MAX]
    /\ next \in [User -> Nat]
    /\ forked \subseteq Listener /\ bound \subseteq Listener
    /\ queue \in [Address -> Seq(Proc)]
    /\ connfd \in [Address -> SUBSET Proc]
    /\ DOMAIN unread \subseteq Proc /\ \A c \in DOMAIN unread : unread[c] \in 1 .. SendBuf
    /\ failed \subseteq Proc

Init ==
    /\ main = [u \in User |-> "off"]
    /\ inc = [u \in User |-> 0]
    /\ prog = [u \in User |-> "v1"]
    /\ own = [u \in User |-> PORT_MIN]
    /\ next = [u \in User |-> 0]
    /\ forked = {} /\ bound = {}
    /\ queue = [a \in Address |-> <<>>]
    /\ connfd = [a \in Address |-> {}]
    /\ unread = [c \in {} |-> 0]
    /\ failed = {}

This(u) == [user |-> u, inc |-> inc[u]]

(* The main process of start c is there, and so is its end of connection c.*)
Alive(c) == main[c.user] # "off" /\ inc[c.user] = c.inc

(* The connections a listener of address a holds, accepted or not.         *)
Held(a) == {queue[a][i] : i \in DOMAIN queue[a]} \union connfd[a]

Lines(c) == IF c \in DOMAIN unread THEN unread[c] ELSE 0

(* unread with n lines on connection c.                                    *)
WithLines(c, n) ==
    [d \in (DOMAIN unread \ {c}) \union (IF n = 0 THEN {} ELSE {c}) |->
        IF d = c THEN n ELSE unread[d]]

(* The end of listener l: its connections are reset.                       *)
EndListener(l) ==
    /\ bound' = bound \ {l}
    /\ queue' = [queue EXCEPT ![l.addr] = <<>>]
    /\ connfd' = [connfd EXCEPT ![l.addr] = {}]
    /\ unread' = [c \in DOMAIN unread \ Held(l.addr) |-> unread[c]]

-----------------------------------------------------------------------------
(* The main process.                                                       *)

(* main and spawn_listener: fork the listener of address a, and begin the  *)
(* search at i.                                                            *)
spawn_listener(u, program, port, i) ==
    /\ main[u] = "off" /\ inc[u] < MaxStarts[u]
    /\ main' = [main EXCEPT ![u] = "find"]
    /\ inc' = [inc EXCEPT ![u] = @ + 1]
    /\ prog' = [prog EXCEPT ![u] = program]
    /\ own' = [own EXCEPT ![u] = port]
    /\ next' = [next EXCEPT ![u] = i]
    /\ forked' = forked \union
           {[proc |-> [user |-> u, inc |-> inc[u] + 1],
             addr |-> [host |-> Host[u], port |-> port]]}
    /\ UNCHANGED <<bound, queue, connfd, unread, failed>>

(* Variant: the check of listen_port lets PORT_MAX + 1 pass.               *)
StartAboveMax(u) == \E port \in PORT_MIN .. PORT_MAX + 1 : spawn_listener(u, "v1", port, PORT_MIN)

start_v1(u) == \E port \in PORT_MIN .. PORT_MAX : spawn_listener(u, "v1", port, PORT_MIN)

start_v2(u) == \E i \in StartIdx : spawn_listener(u, "v2", CHAT_PORT, i)

(* The main process ends without reaching kill.                            *)
Fail(u) ==
    /\ main' = [main EXCEPT ![u] = "off"]
    /\ failed' = failed \union {This(u)}
    /\ UNCHANGED <<inc, prog, own, next, forked, bound, queue, connfd, unread>>

Listens(a) == \E l \in bound : l.addr = a

(* connect succeeds.                                                       *)
Connect(u, a) ==
    /\ main' = [main EXCEPT ![u] = "chat"]
    /\ queue' = [queue EXCEPT ![a] = Append(@, This(u))]

(* Variant: the comparison with listen_port comes before the one with      *)
(* PORT_MAX.                                                               *)
TrySkipFirst(u) ==
    LET skipped == IF next[u] = own[u] THEN next[u] + 1 ELSE next[u]
    IN  IF skipped > PORT_MAX THEN PORT_MIN ELSE skipped

(* Variant: the search goes back to the port after PORT_MIN.               *)
TryFromSecond(u) ==
    LET wrapped == IF next[u] > PORT_MAX THEN PORT_MIN + 1 ELSE next[u]
    IN  IF wrapped = own[u] THEN wrapped + 1 ELSE wrapped

(* The port that find_peer of v1 tries next: PORT_MAX + 1 follows the own  *)
(* port if that is PORT_MAX.                                               *)
TryPort(u) ==
    LET wrapped == IF next[u] > PORT_MAX THEN PORT_MIN ELSE next[u]
    IN  IF wrapped = own[u] THEN wrapped + 1 ELSE wrapped

(* One round of find_peer of v1.  On localhost connect succeeds iff        *)
(* somebody listens.                                                       *)
find_peer_v1(u) ==
    LET a == [host |-> Host[u], port |-> TryPort(u)]
    IN  /\ main[u] = "find" /\ prog[u] = "v1"
        /\ next' = [next EXCEPT ![u] = a.port + 1]
        /\ IF Listens(a) THEN Connect(u, a) ELSE UNCHANGED <<main, queue>>
        /\ UNCHANGED <<inc, prog, own, forked, bound, connfd, unread, failed>>

(* One round of find_peer of v2: Inet_pton does not take an octet behind   *)
(* LastOctet, and connect may also fail for a host that listens.           *)
find_peer_v2(u) ==
    LET a == [host |-> next[u], port |-> CHAT_PORT]
    IN  /\ main[u] = "find" /\ prog[u] = "v2" /\ next[u] <= LastOctet
        /\ next' = [next EXCEPT ![u] = @ + 1]
        /\ \/ Listens(a) /\ Connect(u, a)
           \/ UNCHANGED <<main, queue>>
        /\ UNCHANGED <<inc, prog, own, forked, bound, connfd, unread, failed>>

(* Inet_pton calls err_quit.                                               *)
find_peer_v2_quit(u) ==
    /\ main[u] = "find" /\ prog[u] = "v2" /\ next[u] > LastOctet
    /\ Fail(u)

(* message_loop writes a line.  Into a connection that has been reset a    *)
(* line is written in vain, until SIGPIPE ends the process.                *)
message_loop(u) ==
    /\ main[u] = "chat"
    /\ IF \E a \in Address : This(u) \in Held(a)
       THEN /\ Lines(This(u)) < SendBuf
            /\ unread' = WithLines(This(u), Lines(This(u)) + 1)
            /\ UNCHANGED <<main, inc, prog, own, next, forked, bound, queue, connfd, failed>>
       ELSE Fail(u)

(* Variant: without kill(listenerpid, SIGKILL).                            *)
EndWithoutKill(u) ==
    /\ main[u] = "chat"
    /\ main' = [main EXCEPT ![u] = "off"]
    /\ UNCHANGED <<inc, prog, own, next, forked, bound, queue, connfd, unread, failed>>

(* am-end or end of file: kill the listener, if it has not ended already.  *)
kill_and_exit(u) ==
    /\ main[u] = "chat"
    /\ main' = [main EXCEPT ![u] = "off"]
    /\ forked' = {l \in forked : l.proc # This(u)}
    /\ \/ \E l \in bound : l.proc = This(u) /\ EndListener(l)
       \/ /\ \A l \in bound : l.proc # This(u)
          /\ UNCHANGED <<bound, queue, connfd, unread>>
    /\ UNCHANGED <<inc, prog, own, next, failed>>

(* A wrapper fails, or a signal ends the main process.                     *)
err_sys(u) == main[u] # "off" /\ Fail(u)

-----------------------------------------------------------------------------
(* The listener, a process of its own.                                     *)

(* bind_listener: Bind fails if somebody listens on the address (the       *)
(* listener of another user, or one left over); err_sys ends the listener, *)
(* and main does not notice.                                               *)
bind_listener(l) ==
    /\ l \in forked
    /\ forked' = forked \ {l}
    /\ bound' = IF Listens(l.addr) THEN bound ELSE bound \union {l}
    /\ UNCHANGED <<main, inc, prog, own, next, queue, connfd, unread, failed>>

(* Accept.                                                                 *)
listener_accept(a) ==
    /\ Listens(a) /\ connfd[a] = {} /\ queue[a] # <<>>
    /\ connfd' = [connfd EXCEPT ![a] = {Head(queue[a])}]
    /\ queue' = [queue EXCEPT ![a] = Tail(@)]
    /\ UNCHANGED <<main, inc, prog, own, next, forked, bound, unread, failed>>

(* read, Readn and printf of one line.                                     *)
listener_read(a) ==
    /\ \E c \in connfd[a] : Lines(c) > 0 /\ unread' = WithLines(c, Lines(c) - 1)
    /\ UNCHANGED <<main, inc, prog, own, next, forked, bound, queue, connfd, failed>>

(* Variant: Close as soon as the writer has gone.                          *)
CloseUnread(a) ==
    /\ \E c \in connfd[a] : ~Alive(c)
    /\ connfd' = [connfd EXCEPT ![a] = {}]
    /\ UNCHANGED <<main, inc, prog, own, next, forked, bound, queue, unread, failed>>

(* Variant: at end of file read is called again.                           *)
ReadAtEof(a) ==
    /\ \E c \in connfd[a] : Lines(c) = 0 /\ ~Alive(c)
    /\ UNCHANGED vars

(* read returns 0, as the writer has gone and has left nothing: Close.     *)
listener_close(a) ==
    /\ \E c \in connfd[a] : Lines(c) = 0 /\ ~Alive(c)
    /\ connfd' = [connfd EXCEPT ![a] = {}]
    /\ UNCHANGED <<main, inc, prog, own, next, forked, bound, queue, unread, failed>>

(* A wrapper of the listener fails, or a signal ends it.                   *)
listener_err_sys(l) ==
    /\ EndListener(l)
    /\ UNCHANGED <<main, inc, prog, own, next, forked, failed>>

FindStep(u) == find_peer_v1(u) \/ find_peer_v2(u) \/ find_peer_v2_quit(u)

ListenerStep(a) == listener_accept(a) \/ listener_read(a) \/ listener_close(a)

Next ==
    \/ \E u \in User :
        \/ start_v1(u) \/ start_v2(u)
        \/ FindStep(u)
        \/ message_loop(u)
        \/ kill_and_exit(u)
        \/ err_sys(u)
    \/ \E l \in forked : bind_listener(l)
    \/ \E l \in bound : listener_err_sys(l)
    \/ \E a \in Address : ListenerStep(a)

Spec == Init /\ [][Next]_vars

(* The search and a listener that can go on go on; nothing is assumed of   *)
(* users, failures, or how long a fork takes to bind.                      *)
FairSpec ==
    /\ Spec
    /\ \A u \in User : WF_vars(FindStep(u))
    /\ \A a \in Address : WF_vars(ListenerStep(a))

-----------------------------------------------------------------------------
(* Every listener whose main process has gone was left by a failure: what  *)
(* am-end leaves behind is nothing, also if the fork had not bound yet.    *)
OrphansOnlyFromFailures ==
    \A l \in forked \union bound : Alive(l.proc) \/ l.proc \in failed

(* v1 never connects to the port it was told to listen on: not after the   *)
(* round at PORT_MAX either, and not to another process that has the port. *)
NoChatWithOwnPort ==
    \A u \in User :
        main[u] = "chat" /\ prog[u] = "v1"
            => This(u) \notin Held([host |-> Host[u], port |-> own[u]])

(* A line that Writen has accepted waits at exactly one listener, which    *)
(* will come to it, whatever became of the writer: only the end of that    *)
(* listener loses it.                                                      *)
UnreadHasReader ==
    \A c \in DOMAIN unread :
        \E a \in Address : Listens(a) /\ \A b \in Address : c \in Held(b) <=> b = a

(* v1 goes round for ever, but not past a listener that stays: somebody    *)
(* who listens on another port of the host is found.                       *)
FindPeerFinds ==
    \A u \in User : \A port \in PORT_MIN .. PORT_MAX :
        LET l == [host |-> Host[u], port |-> port]
        IN  (main[u] = "find" /\ prog[u] = "v1" /\ own[u] # port /\ Listens(l))
                ~> (main[u] # "find" \/ ~Listens(l))

(* A connection gets its turn once those before it have ended.             *)
ServedAfterClosed ==
    \A a \in Address : \A c \in Proc :
        (c \in Held(a) /\ \A d \in Held(a) \ {c} : ~Alive(d))
            ~> (c \in connfd[a] \/ c \notin Held(a))

(* "accepts any connection and outputs each received message on the        *)
(* terminal": a line that has arrived is read, or its listener ends.       *)
EveryLinePrinted ==
    \A a \in Address : \A c \in Proc :
        (c \in Held(a) /\ Lines(c) > 0) ~> (c \notin Held(a) \/ Lines(c) = 0)
=============================================================================
