----------------------------- MODULE Connections -----------------------------
(***************************************************************************)
(* The functions of lib/ that call getaddrinfo and go through its list     *)
(* until a socket can be used: tcp_connect, tcp_listen, udp_connect,       *)
(* udp_client and udp_server; and host_serv, which returns the list.       *)
(* They differ in their hints and in what they do with each socket, which  *)
(* is a record for each; the loop is the same.                             *)
(***************************************************************************)
EXTENDS GetAddrInfo

tcp_connect == [name |-> "tcp_connect", socktype |-> SockStream, passive |-> FALSE,
                use |-> "connect", wrappers |-> {"Close"}]
tcp_listen == [name |-> "tcp_listen", socktype |-> SockStream, passive |-> TRUE,
               use |-> "bind", wrappers |-> {"Setsockopt", "Close", "Listen"}]
udp_connect == [name |-> "udp_connect", socktype |-> SockDgram, passive |-> FALSE,
                use |-> "connect", wrappers |-> {"Close"}]
udp_client == [name |-> "udp_client", socktype |-> SockDgram, passive |-> FALSE,
               use |-> "nothing", wrappers |-> {"Malloc"}]
udp_server == [name |-> "udp_server", socktype |-> SockDgram, passive |-> TRUE,
               use |-> "bind", wrappers |-> {"Close"}]

NoFunction == [name |-> "none", socktype |-> SockAny, passive |-> FALSE,
               use |-> "nothing", wrappers |-> {}]

Functions5 == {tcp_connect, tcp_listen, udp_connect, udp_client, udp_server}

VARIABLES
    fn,     \* the function
    cpc,    \* where it is in its loop
    res,    \* place in the list
    fds,    \* open descriptors, by the place they were opened for
    tried   \* history: places that failed

connVars == <<fn, cpc, res, fds, tried>>

ConnTypeOK ==
    /\ fn \in Functions5 \union {NoFunction}
    /\ cpc \in {"none", "socket", "use", "finish", "returned", "ended"}
    /\ res \in 1 .. Len(ais) + 1 \/ cpc \in {"returned", "ended"}
    /\ fds \subseteq Nat /\ tried \subseteq Nat

ConnInit ==
    GaInit /\ fn = NoFunction /\ cpc = "none" /\ res = 1 /\ fds = {} /\ tried = {}

(* host_serv wants the canonical name, and returns the list or NULL: no    *)
(* more happens to a list that was asked for with canon.                   *)
host_serv(r) == r.canon /\ ~r.passive

(* getaddrinfo has returned to f, which had called it with these hints.    *)
CalledBy(f, r) ==
    /\ ~host_serv(r) /\ ~r.badflags /\ r.family = Unspec
    /\ r.socktype = f.socktype /\ r.passive = f.passive

loop_begin ==
    /\ gphase = "returned" /\ cpc = "none"
    /\ \E f \in Functions5 : CalledBy(f, req) /\ fn' = f
    /\ cpc' = IF rc = "0" THEN "socket" ELSE "ended"
    /\ UNCHANGED <<gaVars, res, fds, tried>>

(* The next structure of the list; err_sys when there is none.             *)
TryNext ==
    /\ tried' = tried \union {res}
    /\ res' = res + 1
    /\ cpc' = IF res = Len(ais) THEN "ended" ELSE "socket"

loop_socket ==
    /\ cpc = "socket"
    /\ \/ TryNext /\ UNCHANGED fds
       \/ /\ fds' = fds \union {res}
          /\ cpc' = IF fn.use = "nothing" THEN "finish" ELSE "use"
          /\ UNCHANGED <<res, tried>>
    /\ UNCHANGED <<gaVars, fn>>

(* Variant: a socket that could not be connected or bound is left open.    *)
use_without_close ==
    /\ cpc = "use"
    /\ \/ cpc' = "finish" /\ UNCHANGED <<res, fds, tried>>
       \/ TryNext /\ UNCHANGED fds
    /\ UNCHANGED <<gaVars, fn>>

(* connect or bind.                                                        *)
loop_use ==
    /\ cpc = "use"
    /\ \/ cpc' = "finish" /\ UNCHANGED <<res, fds, tried>>
       \/ TryNext /\ fds' = fds \ {res}
    /\ UNCHANGED <<gaVars, fn>>

(* The list is freed and the descriptor returned.                          *)
loop_finish ==
    /\ cpc = "finish"
    /\ cpc' = "returned" /\ gphase' = "freed"
    /\ blocks' = blocks - BlocksOf(ais) /\ ais' = <<>> /\ at' = 1
    /\ UNCHANGED <<req, rc, useInet6, search, todo, canon, passes, nfound,
                   missed, failed, fn, res, fds, tried>>

(* A wrapper ends the process: Setsockopt or Close in the loop, Listen or  *)
(* Malloc after it.                                                        *)
loop_err_sys ==
    /\ \/ cpc = "use" /\ fn.wrappers \intersect {"Setsockopt", "Close"} # {}
       \/ cpc = "finish" /\ fn.wrappers \intersect {"Listen", "Malloc"} # {}
    /\ cpc' = "ended"
    /\ UNCHANGED <<gaVars, fn, res, fds, tried>>

(* The process goes on to another call.                                    *)
conn_next ==
    /\ cpc \in {"none", "returned"}
    /\ next_call
    /\ fn' = NoFunction /\ cpc' = "none" /\ res' = 1 /\ fds' = {} /\ tried' = {}

ConnNext ==
    \/ GaStep /\ UNCHANGED connVars
    \/ loop_begin \/ loop_socket \/ loop_use \/ loop_finish \/ loop_err_sys
    \/ conn_next

ConnSpec == ConnInit /\ [][ConnNext]_<<gaVars, connVars>>

(* The socket returned is that of the first address that could be used:    *)
(* all before it have been tried and have failed, no other descriptor is   *)
(* open, and nothing of the list is left.                                  *)
FirstUsableOnly ==
    cpc = "returned" => fds = {res} /\ tried = 1 .. res - 1 /\ blocks = 0
=============================================================================
