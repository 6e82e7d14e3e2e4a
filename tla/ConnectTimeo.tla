---------------------------- MODULE ConnectTimeo ----------------------------
(***************************************************************************)
(* Connecting with a time limit: connect_timeo (lib/connect_timeo.c),      *)
(* which lets SIGALRM interrupt a blocking connect, and connect_nonb       *)
(* (lib/connect_nonb.c), which waits in select for a non-blocking one.     *)
(* The kernel completes a connection, refuses it, or does neither; other   *)
(* alarms of the process and other signals may come at any time.           *)
(***************************************************************************)

VARIABLES
    call,      \* the function called
    pc,        \* where it is
    limited,   \* is nsec other than 0?
    alarm,     \* whose alarm is set: off, own, caller
    handler,   \* what SIGALRM runs: the caller's function or connect_alarm
    sock,      \* is sockfd open?
    nonblock,  \* its O_NONBLOCK flag
    kernel,    \* the connection: idle, pending, up, failed
    everUp,    \* history: it has been up
    error,     \* errno
    result,    \* what the call has returned
    stray      \* history: the function's alarm ran the caller's handler

connectVars == <<call, pc, limited, alarm, handler, sock, nonblock,
                 kernel, everUp, error, result, stray>>

ConnectTypeOK ==
    /\ call \in {"none", "connect_timeo", "connect_nonb"}
    /\ pc \in {"caller", "Signal", "alarm", "connect", "connecting", "alarm_off",
               "restore", "Fcntl", "connect_nb", "Select", "getsockopt", "done",
               "returned", "ended"}
    /\ alarm \in {"off", "own", "caller"} /\ handler \in {"caller", "connect_alarm"}
    /\ kernel \in {"idle", "pending", "up", "failed"}
    /\ sock \in {"open", "closed"} /\ error \in {"none", "ETIMEDOUT", "other"}
    /\ result \in {"none", "ok", "error"}
    /\ {limited, nonblock, everUp, stray} \subseteq BOOLEAN

ConnectInit ==
    /\ call = "none" /\ pc = "caller" /\ limited = FALSE
    /\ alarm = "off" /\ handler = "caller" /\ sock = "open" /\ nonblock = FALSE
    /\ kernel = "idle" /\ everUp = FALSE /\ error = "none" /\ result = "none"
    /\ stray = FALSE

(* Somebody calls one of the two, perhaps with an alarm of its own set.    *)
call_connect ==
    /\ pc = "caller"
    /\ limited' \in BOOLEAN /\ alarm' \in {"off", "caller"}
    /\ \/ call' = "connect_timeo" /\ pc' = "Signal"
       \/ call' = "connect_nonb" /\ pc' = "Fcntl"
    /\ UNCHANGED <<handler, sock, nonblock, kernel, everUp, error, result, stray>>

-----------------------------------------------------------------------------
(* The kernel.                                                             *)

(* The connection comes up, is refused, or is reset after it has come up.  *)
KernelMoves ==
    /\ sock = "open"
    /\ \/ kernel = "pending" /\ kernel' = "up" /\ everUp' = TRUE
       \/ kernel \in {"pending", "up"} /\ kernel' = "failed" /\ UNCHANGED everUp
    /\ UNCHANGED <<call, pc, limited, alarm, handler, sock, nonblock, error, result, stray>>

(* Variant: signal() treats SIGALRM like every other signal.               *)
RestartsAll(signo) == TRUE

(* signal() asks for interrupted calls to be restarted, but for SIGALRM.   *)
Restarts(signo) == signo # "SIGALRM"

(* What connect_timeo does when connect returns -1.                        *)
ConnectFails(e) == sock' = "closed" /\ error' = e /\ result' = "error" /\ pc' = "alarm_off"

(* The alarm goes off.  It interrupts a connect that is waiting, and does  *)
(* nothing else under connect_alarm: before connect it is lost.            *)
SIGALRM ==
    /\ alarm # "off"
    /\ alarm' = "off"
    /\ stray' = (stray \/ (alarm = "own" /\ handler = "caller"))
    /\ IF pc = "connecting" /\ ~Restarts("SIGALRM")
       THEN ConnectFails("ETIMEDOUT")
       ELSE IF pc = "Select" THEN pc' = "ended" /\ UNCHANGED <<sock, error, result>>
                             ELSE UNCHANGED <<pc, sock, error, result>>
    /\ UNCHANGED <<call, limited, handler, nonblock, kernel, everUp>>

-----------------------------------------------------------------------------
(* connect_timeo.                                                          *)

Signal_connect_alarm ==
    /\ pc = "Signal"
    /\ handler' = "connect_alarm" /\ pc' = "alarm"
    /\ UNCHANGED <<call, limited, alarm, sock, nonblock, kernel, everUp, error, result, stray>>

(* alarm(nsec) takes the place of an alarm that was set; alarm(0) is none. *)
alarm_nsec ==
    /\ pc = "alarm"
    /\ alarm' = IF limited THEN "own" ELSE "off"
    /\ pc' = "connect"
    /\ UNCHANGED <<call, limited, handler, sock, nonblock, kernel, everUp, error, result, stray>>

connect ==
    /\ pc = "connect"
    /\ kernel' = "pending" /\ pc' = "connecting"
    /\ UNCHANGED <<call, limited, alarm, handler, sock, nonblock, everUp, error, result, stray>>

connect_returns ==
    /\ pc = "connecting"
    /\ \/ /\ kernel = "up"
          /\ result' = "ok" /\ pc' = "alarm_off" /\ UNCHANGED <<sock, error>>
       \/ kernel = "failed" /\ ConnectFails("other")
    /\ UNCHANGED <<call, limited, alarm, handler, nonblock, kernel, everUp, stray>>

(* Variant: the alarm is turned off only when connect has failed.          *)
alarm_off_on_error ==
    /\ pc = "alarm_off"
    /\ alarm' = IF result = "error" THEN "off" ELSE alarm
    /\ pc' = "restore"
    /\ UNCHANGED <<call, limited, handler, sock, nonblock, kernel, everUp, error, result, stray>>

alarm_off ==
    /\ pc = "alarm_off"
    /\ alarm' = "off" /\ pc' = "restore"
    /\ UNCHANGED <<call, limited, handler, sock, nonblock, kernel, everUp, error, result, stray>>

Signal_restore ==
    /\ pc = "restore"
    /\ handler' = "caller" /\ pc' = "returned"
    /\ UNCHANGED <<call, limited, alarm, sock, nonblock, kernel, everUp, error, result, stray>>

-----------------------------------------------------------------------------
(* connect_nonb.                                                           *)

Fcntl_nonblock ==
    /\ pc = "Fcntl"
    /\ nonblock' = TRUE /\ pc' = "connect_nb"
    /\ UNCHANGED <<call, limited, alarm, handler, sock, kernel, everUp, error, result, stray>>

(* connect succeeds at once, fails at once (and connect_nonb returns with  *)
(* the flag set and sockfd open), or is in progress.                       *)
connect_nonblocking ==
    /\ pc = "connect_nb"
    /\ \/ kernel' = "up" /\ everUp' = TRUE /\ pc' = "done" /\ UNCHANGED <<error, result>>
       \/ /\ kernel' = "failed" /\ error' = "other" /\ result' = "error"
          /\ pc' = "returned" /\ UNCHANGED everUp
       \/ kernel' = "pending" /\ pc' = "Select" /\ UNCHANGED <<everUp, error, result>>
    /\ UNCHANGED <<call, limited, alarm, handler, sock, nonblock, stray>>

Select_ready ==
    /\ pc = "Select" /\ kernel \in {"up", "failed"}
    /\ pc' = "getsockopt"
    /\ UNCHANGED <<call, limited, alarm, handler, sock, nonblock, kernel, everUp,
                   error, result, stray>>

(* Variant: select returned 0, but the socket is left to the caller.       *)
Select_timeout_open ==
    /\ pc = "Select" /\ limited /\ kernel = "pending"
    /\ error' = "ETIMEDOUT" /\ result' = "error" /\ pc' = "returned"
    /\ UNCHANGED <<call, limited, alarm, handler, sock, nonblock, kernel, everUp, stray>>

Select_timeout ==
    /\ pc = "Select" /\ limited /\ kernel = "pending"
    /\ sock' = "closed" /\ error' = "ETIMEDOUT" /\ result' = "error" /\ pc' = "returned"
    /\ UNCHANGED <<call, limited, alarm, handler, nonblock, kernel, everUp, stray>>

(* SO_ERROR is the error of the connection, if any; where getsockopt fails *)
(* with that error, connect_nonb returns at once.                          *)
getsockopt ==
    /\ pc = "getsockopt"
    /\ \/ /\ error' = IF kernel = "failed" THEN "other" ELSE "none"
          /\ pc' = "done" /\ UNCHANGED result
       \/ /\ kernel = "failed"
          /\ error' = "other" /\ result' = "error" /\ pc' = "returned"
    /\ UNCHANGED <<call, limited, alarm, handler, sock, nonblock, kernel, everUp, stray>>

done ==
    /\ pc = "done"
    /\ nonblock' = FALSE
    /\ IF error = "none" THEN result' = "ok" /\ UNCHANGED sock
                         ELSE result' = "error" /\ sock' = "closed"
    /\ pc' = "returned"
    /\ UNCHANGED <<call, limited, alarm, handler, kernel, everUp, error, stray>>

(* Any other signal interrupts select, and Select ends the process.        *)
Select_err_sys ==
    /\ pc = "Select"
    /\ pc' = "ended"
    /\ UNCHANGED <<call, limited, alarm, handler, sock, nonblock, kernel, everUp,
                   error, result, stray>>

-----------------------------------------------------------------------------
Connecting ==
    \/ Signal_connect_alarm \/ alarm_nsec \/ connect \/ connect_returns
    \/ alarm_off \/ Signal_restore
    \/ Fcntl_nonblock \/ connect_nonblocking \/ Select_ready \/ getsockopt \/ done

ConnectNext ==
    call_connect \/ Connecting \/ Select_timeout \/ SIGALRM \/ KernelMoves \/ Select_err_sys

ConnectSpec == ConnectInit /\ [][ConnectNext]_connectVars

(* The alarm of connect_timeo never reaches the caller: neither does its   *)
(* signal run the caller's handler, nor is it still to come after return.  *)
NoStrayAlarm == ~stray /\ (pc = "returned" => alarm # "own")

(* 0 is returned for a connection that has come up, on a blocking socket;  *)
(* -1 leaves no attempt behind that could still come up: the descriptor is *)
(* closed, or it is left open (connect_nonb) and the attempt is over.      *)
ResultIsTrue ==
    /\ result = "ok" => everUp /\ sock = "open" /\ ~nonblock
    /\ result = "error" => sock = "closed" \/ kernel = "failed"

(* The limit holds whatever the kernel does: who waits with an alarm or a  *)
(* timeout set returns (or is ended by another signal).                    *)
LimitHolds ==
    (pc = "connecting" /\ alarm = "own") \/ (pc = "Select" /\ limited)
        ~> pc \in {"returned", "ended"}
=============================================================================
