--------------------------------- MODULE Rtt ---------------------------------
(***************************************************************************)
(* The retransmission timer for requests over UDP: lib/rtt.c with the      *)
(* constants of lib/unprtt.h, used as the comments there say: rtt_newpack, *)
(* alarm(rtt_start), then rtt_stop with the age of the echoed timestamp,   *)
(* or rtt_timeout and another transmission.                                *)
(*                                                                         *)
(* Times are in milliseconds; where the code has a float, the fraction of  *)
(* a millisecond is cut off.                                               *)
(***************************************************************************)
EXTENDS Integers, Sequences

CONSTANTS
    Delays,    \* how long an answer may take after the last transmission
    Gaps,      \* how long the user may wait before the next request
    TS,        \* the range of a timestamp (2^32)
    MaxSends   \* bound: requests

RTT_RXTMIN == 2
RTT_RXTMAX == 60
RTT_MAXNREXMT == 3

ASSUME DelaysAssumption == Delays \subseteq Nat /\ Gaps \subseteq Nat
ASSUME TimestampAssumption == TS \in Nat \ {0} /\ MaxSends \in Nat

VARIABLES
    now,          \* milliseconds since rtt_init
    rtt_rtt,      \* the estimators of struct rtt_info
    rtt_srtt,
    rtt_rttvar,
    rtt_rto,
    rtt_nrexmt,
    armed,        \* seconds given to alarm, when waiting
    waiting,      \* is a request unanswered?
    stamps,       \* history: when the request was transmitted
    elapsed,      \* history: the true age of the transmission answered last
    sends         \* history: requests so far

rttVars == <<now, rtt_rtt, rtt_srtt, rtt_rttvar, rtt_rto, rtt_nrexmt,
             armed, waiting, stamps, elapsed, sends>>

RttTypeOK ==
    /\ {now, rtt_rtt, rtt_srtt, rtt_rttvar, rtt_rto, armed, elapsed} \subseteq Nat
    /\ rtt_nrexmt \in 0 .. RTT_MAXNREXMT + 1
    /\ waiting \in BOOLEAN /\ stamps \in Seq(0 .. now) /\ sends \in 0 .. MaxSends

-----------------------------------------------------------------------------
rtt_minmax(rto) ==
    IF rto < 1000 * RTT_RXTMIN THEN 1000 * RTT_RXTMIN
    ELSE IF rto > 1000 * RTT_RXTMAX THEN 1000 * RTT_RXTMAX ELSE rto

RTT_RTOCALC(srtt, rttvar) == srtt + 4 * rttvar

(* The timestamp at time t.                                                *)
rtt_ts(t) == t % TS

(* Rounded to seconds.                                                     *)
rtt_start(rto) == (rto + 500) \div 1000

Magnitude(x) == IF x < 0 THEN -x ELSE x

RttInit ==
    /\ now = 0
    /\ rtt_rtt = 0 /\ rtt_srtt = 0 /\ rtt_rttvar = 750
    /\ rtt_rto = rtt_minmax(RTT_RTOCALC(0, 750))
    /\ rtt_nrexmt = 0
    /\ armed = 0 /\ waiting = FALSE /\ stamps = <<>> /\ elapsed = 0 /\ sends = 0

(* Variant: the count of the last request is kept.                         *)
newpack_keeps_count(gap) ==
    /\ ~waiting /\ sends < MaxSends
    /\ now' = now + gap
    /\ armed' = rtt_start(rtt_rto)
    /\ waiting' = TRUE /\ stamps' = <<now'>> /\ sends' = sends + 1
    /\ UNCHANGED <<rtt_rtt, rtt_srtt, rtt_rttvar, rtt_rto, rtt_nrexmt, elapsed>>

(* A new request is sent.  What the last one did to rto stays.             *)
rtt_newpack(gap) ==
    /\ ~waiting /\ sends < MaxSends
    /\ now' = now + gap
    /\ rtt_nrexmt' = 0
    /\ armed' = rtt_start(rtt_rto)
    /\ waiting' = TRUE /\ stamps' = <<now'>> /\ sends' = sends + 1
    /\ UNCHANGED <<rtt_rtt, rtt_srtt, rtt_rttvar, rtt_rto, elapsed>>

(* Variant: timestamps are compared as numbers.                            *)
SampleNoWrap(t, stamp) == Magnitude(rtt_ts(t) - rtt_ts(stamp))

(* ms, the age of a timestamp, as an unsigned difference.                  *)
Sample(t, stamp) == (rtt_ts(t) - rtt_ts(stamp)) % TS

(* The answer to the k-th transmission arrives before the alarm.           *)
rtt_stop(delay, k) ==
    LET ms == Sample(now + delay, stamps[k])
        delta == ms - rtt_srtt
    IN  /\ waiting /\ delay < 1000 * armed
        /\ now' = now + delay
        /\ rtt_rtt' = ms
        /\ rtt_srtt' = rtt_srtt + (delta \div 8)
        /\ rtt_rttvar' = rtt_rttvar + ((Magnitude(delta) - rtt_rttvar) \div 4)
        /\ rtt_rto' = rtt_minmax(RTT_RTOCALC(rtt_srtt', rtt_rttvar'))
        /\ waiting' = FALSE
        /\ elapsed' = now' - stamps[k]
        /\ UNCHANGED <<rtt_nrexmt, armed, stamps, sends>>

(* The alarm: rto is doubled, without rtt_minmax, and the request is sent  *)
(* again or given up.                                                      *)
rtt_timeout ==
    /\ waiting
    /\ now' = now + 1000 * armed
    /\ rtt_rto' = 2 * rtt_rto
    /\ rtt_nrexmt' = rtt_nrexmt + 1
    /\ IF rtt_nrexmt' > RTT_MAXNREXMT
       THEN waiting' = FALSE /\ UNCHANGED <<armed, stamps>>
       ELSE /\ armed' = rtt_start(rtt_rto')
            /\ stamps' = Append(stamps, now')
            /\ UNCHANGED waiting
    /\ UNCHANGED <<rtt_rtt, rtt_srtt, rtt_rttvar, elapsed, sends>>

RttNext ==
    \/ \E gap \in Gaps : rtt_newpack(gap)
    \/ \E delay \in Delays : \E k \in 1 .. Len(stamps) : rtt_stop(delay, k)
    \/ rtt_timeout

RttSpec == RttInit /\ [][RttNext]_rttVars

-----------------------------------------------------------------------------
GivenUp == ~waiting /\ rtt_nrexmt > RTT_MAXNREXMT

(* Every request is transmitted once and then RTT_MAXNREXMT times again    *)
(* before it is given up, whatever became of the requests before it; and   *)
(* however good the answers were, the timer given to alarm is never 0,     *)
(* which would turn it off and wait for ever.                              *)
GivenUpAfterAll ==
    /\ Len(stamps) <= RTT_MAXNREXMT + 1
    /\ GivenUp => Len(stamps) = RTT_MAXNREXMT + 1
    /\ waiting => armed >= RTT_RXTMIN

(* The measured time is that since the transmission that was answered, be  *)
(* it the last or not, and even when the timestamps have wrapped around.   *)
MeasuredIsElapsed == elapsed < TS => rtt_rtt = elapsed
=============================================================================
