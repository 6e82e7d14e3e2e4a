--------------------------- MODULE LanChatV3Proofs ---------------------------
(***************************************************************************)
(* Theorems about LanChatV3, for every set of hosts, every <start-idx> and *)
(* every number of starts.                                                 *)
(***************************************************************************)
EXTENDS LanChatV3, TLAPS

(***************************************************************************)
(* TypeOK and OrphansOnlyFromFailures.                                     *)
(***************************************************************************)

(* A datagram handed to Sendto keeps the listeners' buffers typed.         *)
LEMMA SendtoType ==
    ASSUME TypeOK, NEW h, NEW d \in Datagram, Sendto(h, d)
    PROVE  listenQ' \in [Peer -> SUBSET Datagram]
  BY DEF TypeOK, Sendto

(* The end of the main process keeps its variables typed, and it is off.   *)
LEMMA ExitType ==
    ASSUME TypeOK, NEW p \in Peer, Exit(p)
    PROVE  /\ main' \in [Peer -> {"off", "ask", "wait", "chat"}]
           /\ idx' \in [Peer -> Nat] /\ from' \in [Peer -> Nat]
           /\ found' \in [Peer -> Peer \union {None}]
           /\ sockQ' \in [Peer -> SUBSET Peer]
           /\ accepted' \subseteq Peer \X Peer \X Nat
           /\ main' = [main EXCEPT ![p] = "off"]
  BY DEF TypeOK, Exit

LEMMA FailType ==
    ASSUME TypeOK, NEW p \in Peer, Fail(p)
    PROVE  TypeOK'
  <1>1. failed' \in [Peer -> SUBSET Nat]
    BY DEF Fail, TypeOK
  <1> QED
    BY <1>1, ExitType DEF Fail, TypeOK

(* Nothing but what it had not read is lost with a listener.               *)
LEMMA EndListenerType ==
    ASSUME TypeOK, NEW p \in Peer, NEW i, EndListener(p, i)
    PROVE  /\ bound' \in [Peer -> SUBSET Nat] /\ listenQ' \in [Peer -> SUBSET Datagram]
           /\ \A q \in Peer : bound'[q] \subseteq bound[q] /\ listenQ'[q] \subseteq listenQ[q]
           /\ bound'[p] = bound[p] \ {i}
  <1>1. PICK L \in SUBSET listenQ[p] : listenQ' = [listenQ EXCEPT ![p] = L]
    BY DEF EndListener
  <1>2. bound' = [bound EXCEPT ![p] = @ \ {i}]
    BY DEF EndListener
  <1> QED
    BY <1>1, <1>2 DEF TypeOK

(* Types are kept by every step: one case per action.                      *)
LEMMA TypeStep ==
    ASSUME TypeOK, Next
    PROVE  TypeOK'
  <1>1. PICK p \in Peer :
           \/ spawn_listener(p)
           \/ auth_request(p)
           \/ auth_try_confirm(p)
           \/ recv_timeout(p)
           \/ message_loop(p)
           \/ kill_and_exit(p)
           \/ err_sys(p)
           \/ \E i \in forked[p] : bind_listener(p, i)
           \/ listener_task(p)
           \/ \E i \in bound[p] : listener_err_sys(p, i)
    BY DEF Next, FindStep
  <1>2. inc[p] \in Nat /\ idx[p] \in Nat
    BY DEF TypeOK
  <1>3. \A b \in {"CAN", "TXT"} : [body |-> b, host |-> p, inc |-> inc[p]] \in Datagram
    BY <1>2 DEF Datagram
  <1>4. CASE spawn_listener(p)
    <2>1. \A i \in StartIdx : i \in Nat
      BY OctetAssumption
    <2> QED
      BY <1>2, <1>4, <2>1 DEF spawn_listener, TypeOK
  <1>5. CASE auth_request(p)
    <2>1. CASE idx[p] < LastOctet
      <3>1. listenQ' \in [Peer -> SUBSET Datagram]
        BY <1>3, <1>5, <2>1, SendtoType DEF auth_request
      <3> QED
        BY <1>5, <2>1, <3>1 DEF auth_request, TypeOK
    <2>2. CASE ~(idx[p] < LastOctet)
      BY <1>5, <2>2, FailType DEF auth_request
    <2> QED
      BY <2>1, <2>2
  <1>6. CASE auth_try_confirm(p)
    <2>1. PICK q \in sockQ[p] :
             /\ found' = [found EXCEPT ![p] = AnswerFrom(p, q)]
             /\ sockQ' = [sockQ EXCEPT ![p] = @ \ {q}]
      BY <1>6 DEF auth_try_confirm
    <2>2. AnswerFrom(p, q) \in Peer
      BY DEF TypeOK, AnswerFrom
    <2> QED
      BY <1>2, <1>6, <2>1, <2>2 DEF auth_try_confirm, TypeOK
  <1>7. CASE recv_timeout(p)
    BY <1>2, <1>7 DEF recv_timeout, TypeOK
  <1>8. CASE message_loop(p)
    <2>1. listenQ' \in [Peer -> SUBSET Datagram]
      BY <1>3, <1>8, SendtoType DEF message_loop
    <2> QED
      BY <1>8, <2>1 DEF message_loop, TypeOK
  <1>9. CASE kill_and_exit(p)
    <2>1. bound' \in [Peer -> SUBSET Nat] /\ listenQ' \in [Peer -> SUBSET Datagram]
      BY <1>2, <1>9, EndListenerType DEF kill_and_exit, TypeOK
    <2>2. forked' \in [Peer -> SUBSET Nat]
      BY <1>9 DEF kill_and_exit, TypeOK
    <2> QED
      BY <1>9, <2>1, <2>2, ExitType DEF kill_and_exit, TypeOK
  <1>10. CASE err_sys(p)
    BY <1>10, FailType DEF err_sys
  <1>11. ASSUME NEW i \in forked[p], bind_listener(p, i)
         PROVE  TypeOK'
    <2>1. i \in Nat
      BY DEF TypeOK
    <2> QED
      BY <1>11, <2>1 DEF bind_listener, TypeOK
  <1>12. CASE listener_task(p)
    <2>1. PICK d \in listenQ[p] :
             /\ listenQ' = [listenQ EXCEPT ![p] = @ \ {d}]
             /\ \/ UNCHANGED <<accepted, sockQ>>
                \/ /\ accepted' = accepted \union {<<p, d.host, d.inc>>}
                   /\ sockQ' = [sockQ EXCEPT ![d.host] = @ \union {p}]
      BY <1>12 DEF listener_task
    <2>2. d.host \in Peer /\ d.inc \in Nat
      BY DEF TypeOK, Datagram
    <2> QED
      BY <1>12, <2>1, <2>2 DEF listener_task, TypeOK
  <1>13. ASSUME NEW i \in bound[p], listener_err_sys(p, i)
         PROVE  TypeOK'
    BY <1>13, EndListenerType DEF listener_err_sys, TypeOK
  <1> QED
    BY <1>1, <1>4, <1>5, <1>6, <1>7, <1>8, <1>9, <1>10, <1>11, <1>12, <1>13

(* Every reachable state of the chat is a state of the declared types.     *)
THEOREM TypeCorrect == Spec => []TypeOK
  <1>1. Init => TypeOK
    BY DEF Init, TypeOK
  <1>2. TypeOK /\ UNCHANGED vars => TypeOK'
    BY DEF TypeOK, vars
  <1> QED
    BY <1>1, <1>2, TypeStep, PTL DEF Spec

(* No listener is added, no main process ends, and no failure is forgotten.*)
LEMMA NoMoreOrphans ==
    ASSUME OrphansOnlyFromFailures, UNCHANGED <<inc, failed>>,
           \A q \in Peer : forked'[q] \union bound'[q] \subseteq forked[q] \union bound[q],
           \A q \in Peer : main[q] # "off" => main'[q] # "off"
    PROVE  OrphansOnlyFromFailures'
  BY DEF OrphansOnlyFromFailures

(* The end of a main process that leaves its listener behind is counted,   *)
(* whatever has become of the listener.                                    *)
LEMMA FailOrphans ==
    ASSUME TypeOK, OrphansOnlyFromFailures, NEW p \in Peer, Fail(p)
    PROVE  OrphansOnlyFromFailures'
  <1>1. /\ main' = [main EXCEPT ![p] = "off"]
        /\ failed' = [failed EXCEPT ![p] = @ \union {inc[p]}]
        /\ UNCHANGED <<inc, forked, bound>>
    BY DEF Fail, Exit
  <1>2. \A q \in Peer \ {p} : main'[q] = main[q] /\ failed'[q] = failed[q]
    BY <1>1 DEF TypeOK
  <1>3. failed'[p] = failed[p] \union {inc[p]}
    BY <1>1 DEF TypeOK
  <1> QED
    BY <1>1, <1>2, <1>3 DEF OrphansOnlyFromFailures

(* The end that kills it.                                                  *)
LEMMA KillOrphans ==
    ASSUME TypeOK, OrphansOnlyFromFailures, NEW p \in Peer, kill_and_exit(p)
    PROVE  OrphansOnlyFromFailures'
  <1>1. /\ main' = [main EXCEPT ![p] = "off"]
        /\ forked' = [forked EXCEPT ![p] = @ \ {inc[p]}]
        /\ UNCHANGED <<inc, failed>>
    BY DEF kill_and_exit, Exit
  <1>2. \A q \in Peer \ {p} : main'[q] = main[q] /\ forked'[q] = forked[q]
    BY <1>1 DEF TypeOK
  <1>3. forked'[p] = forked[p] \ {inc[p]}
    BY <1>1 DEF TypeOK
  <1>4. (\A q \in Peer : bound'[q] \subseteq bound[q]) /\ inc[p] \notin bound'[p]
    <2>1. CASE inc[p] \in bound[p]
      <3>1. EndListener(p, inc[p])
        BY <2>1 DEF kill_and_exit
      <3> QED
        BY <3>1, EndListenerType
    <2>2. CASE inc[p] \notin bound[p]
      BY <2>2 DEF kill_and_exit
    <2> QED
      BY <2>1, <2>2
  <1> QED
    BY <1>1, <1>2, <1>3, <1>4 DEF OrphansOnlyFromFailures

(* A new start: its listener is its own, all others are of failed starts.  *)
LEMMA SpawnOrphans ==
    ASSUME TypeOK, OrphansOnlyFromFailures, NEW p \in Peer, spawn_listener(p)
    PROVE  OrphansOnlyFromFailures'
  <1>1. /\ main[p] = "off" /\ main'[p] = "ask" /\ inc'[p] = inc[p] + 1
        /\ forked'[p] = forked[p] \union {inc[p] + 1}
        /\ \A q \in Peer \ {p} : main'[q] = main[q] /\ inc'[q] = inc[q] /\ forked'[q] = forked[q]
        /\ UNCHANGED <<bound, failed>>
    BY DEF spawn_listener, TypeOK
  <1> QED
    BY <1>1 DEF OrphansOnlyFromFailures

(* One case per action.                                                    *)
LEMMA OrphansStep ==
    ASSUME TypeOK, OrphansOnlyFromFailures, Next
    PROVE  OrphansOnlyFromFailures'
  <1>1. PICK p \in Peer :
           \/ spawn_listener(p)
           \/ auth_request(p)
           \/ auth_try_confirm(p)
           \/ recv_timeout(p)
           \/ message_loop(p)
           \/ kill_and_exit(p)
           \/ err_sys(p)
           \/ \E i \in forked[p] : bind_listener(p, i)
           \/ listener_task(p)
           \/ \E i \in bound[p] : listener_err_sys(p, i)
    BY DEF Next, FindStep
  <1>2. CASE spawn_listener(p)
    BY <1>2, SpawnOrphans
  <1>3. CASE auth_request(p)
    <2>1. CASE idx[p] < LastOctet
      BY <1>3, <2>1, NoMoreOrphans DEF auth_request, TypeOK
    <2>2. CASE ~(idx[p] < LastOctet)
      BY <1>3, <2>2, FailOrphans DEF auth_request
    <2> QED
      BY <2>1, <2>2
  <1>4. CASE auth_try_confirm(p) \/ recv_timeout(p)
    BY <1>4, NoMoreOrphans DEF auth_try_confirm, recv_timeout, TypeOK
  <1>5. CASE message_loop(p) \/ listener_task(p)
    BY <1>5, NoMoreOrphans DEF message_loop, listener_task
  <1>6. CASE kill_and_exit(p)
    BY <1>6, KillOrphans
  <1>7. CASE err_sys(p)
    BY <1>7, FailOrphans DEF err_sys
  <1>8. ASSUME NEW i \in forked[p], bind_listener(p, i)
        PROVE  OrphansOnlyFromFailures'
    <2>1. \A q \in Peer : forked'[q] \union bound'[q] \subseteq forked[q] \union bound[q]
      BY <1>8 DEF bind_listener, TypeOK
    <2> QED
      BY <1>8, <2>1, NoMoreOrphans DEF bind_listener
  <1>9. ASSUME NEW i \in bound[p], listener_err_sys(p, i)
        PROVE  OrphansOnlyFromFailures'
    <2>1. \A q \in Peer : bound'[q] \subseteq bound[q]
      BY <1>9, EndListenerType DEF listener_err_sys
    <2>2. \A q \in Peer : forked'[q] \union bound'[q] \subseteq forked[q] \union bound[q]
      BY <1>9, <2>1 DEF listener_err_sys
    <2> QED
      BY <1>9, <2>2, NoMoreOrphans DEF listener_err_sys
  <1> QED
    BY <1>1, <1>2, <1>3, <1>4, <1>5, <1>6, <1>7, <1>8, <1>9

(* Whatever fails and whenever, main or listener: a listener that runs     *)
(* without its main process is of a start whose main failed.               *)
THEOREM OrphansAreFailures == Spec => []OrphansOnlyFromFailures
  <1>1. Init => OrphansOnlyFromFailures
    BY DEF Init, OrphansOnlyFromFailures
  <1>2. TypeOK /\ OrphansOnlyFromFailures /\ [Next]_vars => OrphansOnlyFromFailures'
    <2>1. OrphansOnlyFromFailures /\ UNCHANGED vars => OrphansOnlyFromFailures'
      BY DEF OrphansOnlyFromFailures, vars
    <2> QED
      BY <2>1, OrphansStep
  <1> QED
    BY <1>1, <1>2, TypeCorrect, PTL DEF Spec

-----------------------------------------------------------------------------
(***************************************************************************)
(* FoundHasAccepted.  A late answer, or the answer of an orphan to a       *)
(* process of the same host that is long gone, would break it; what rules  *)
(* them out is where a request can still be under way and who may have     *)
(* accepted one.                                                           *)
(***************************************************************************)

(* p has asked q, in this process.                                         *)
Asked(p, q) == q \in from[p] .. idx[p] /\ (main[p] = "wait" \/ q < idx[p])

RangeOK == \A p \in Peer : from[p] <= idx[p]

(* No request is from a process yet to come, and one of a process that     *)
(* still runs lies where that process has sent it.                         *)
RequestsOK ==
    \A q \in Peer : \A d \in listenQ[q] :
        /\ d.inc <= inc[d.host]
        /\ d.body = "CAN" /\ main[d.host] # "off" /\ d.inc = inc[d.host] => Asked(d.host, q)

AcceptedOK ==
    \A a \in accepted : main[a[2]] # "off" /\ a[3] = inc[a[2]] /\ Asked(a[2], a[1])

AnswersOK == \A p \in Peer : \A q \in sockQ[p] : <<q, p, inc[p]>> \in accepted

SInv == RangeOK /\ RequestsOK /\ AcceptedOK /\ AnswersOK /\ FoundHasAccepted

(* SInv survives the end of a main process, if what is under way is no     *)
(* more than before.                                                       *)
LEMMA ExitSInv ==
    ASSUME TypeOK, SInv, NEW p \in Peer, Exit(p), UNCHANGED inc,
           \A q \in Peer : listenQ'[q] \subseteq listenQ[q]
    PROVE  SInv'
  <1>1. /\ main'[p] = "off" /\ from'[p] = 0 /\ idx'[p] = 0 /\ sockQ'[p] = {}
        /\ \A q \in Peer \ {p} :
              /\ main'[q] = main[q] /\ from'[q] = from[q] /\ idx'[q] = idx[q]
              /\ sockQ'[q] = sockQ[q] /\ found'[q] = found[q]
        /\ accepted' = {a \in accepted : a[2] # p}
    BY DEF TypeOK, Exit
  <1>2. \A q \in Peer \ {p} : \A r : Asked(q, r) => Asked(q, r)'
    BY <1>1 DEF Asked
  <1>3. RangeOK'
    BY <1>1 DEF SInv, RangeOK
  <1>4. RequestsOK'
    <2> SUFFICES ASSUME NEW q \in Peer, NEW d \in listenQ'[q]
                 PROVE  /\ d.inc <= inc'[d.host]
                        /\ d.body = "CAN" /\ main'[d.host] # "off" /\ d.inc = inc'[d.host]
                              => Asked(d.host, q)'
      BY DEF RequestsOK
    <2>1. d \in listenQ[q]
      OBVIOUS
    <2>2. d.host \in Peer
      BY <2>1 DEF TypeOK, Datagram
    <2> QED
      BY <1>1, <1>2, <2>1, <2>2 DEF SInv, RequestsOK
  <1>5. AcceptedOK'
    <2> SUFFICES ASSUME NEW a \in accepted'
                 PROVE  main'[a[2]] # "off" /\ a[3] = inc'[a[2]] /\ Asked(a[2], a[1])'
      BY DEF AcceptedOK
    <2>1. a \in accepted /\ a[2] # p
      BY <1>1
    <2>2. a[2] \in Peer
      BY <2>1 DEF TypeOK
    <2> QED
      BY <1>1, <1>2, <2>1, <2>2 DEF SInv, AcceptedOK
  <1>6. AnswersOK'
    BY <1>1 DEF SInv, AnswersOK
  <1>7. FoundHasAccepted'
    BY <1>1 DEF SInv, FoundHasAccepted
  <1> QED
    BY <1>3, <1>4, <1>5, <1>6, <1>7 DEF SInv

(* A datagram sent where its sender has asked keeps RequestsOK, as long as *)
(* nothing that was asked is forgotten.                                    *)
LEMMA SendtoRequests ==
    ASSUME TypeOK, RequestsOK, UNCHANGED inc,
           NEW h, NEW d \in Datagram, Sendto(h, d),
           d.inc <= inc[d.host], Asked(d.host, h)',
           \A q, r \in Peer : main'[q] # "off" /\ Asked(q, r)
                                 => main[q] # "off" /\ Asked(q, r)',
           \A q \in Peer : main'[q] # "off" => main[q] # "off"
    PROVE  RequestsOK'
  <1> SUFFICES ASSUME NEW q \in Peer, NEW e \in listenQ'[q]
               PROVE  /\ e.inc <= inc'[e.host]
                      /\ e.body = "CAN" /\ main'[e.host] # "off" /\ e.inc = inc'[e.host]
                            => Asked(e.host, q)'
    BY DEF RequestsOK
  <1>1. e \in listenQ[q] \/ (q = h /\ e = d)
    BY DEF Sendto, TypeOK
  <1>2. CASE e \in listenQ[q]
    <2>1. e.host \in Peer
      BY <1>2 DEF TypeOK, Datagram
    <2> QED
      BY <1>2, <2>1 DEF RequestsOK
  <1>3. CASE q = h /\ e = d
    BY <1>3
  <1> QED
    BY <1>1, <1>2, <1>3

(* A step of the main process of p that goes on asking forgets nothing.    *)
LEMMA AskedGrows ==
    ASSUME TypeOK, NEW p \in Peer, UNCHANGED from,
           \A q \in Peer \ {p} : main'[q] = main[q] /\ idx'[q] = idx[q],
           idx'[p] = idx[p] + 1 \/ (idx'[p] = idx[p] /\ (main[p] = "wait" => main'[p] = "wait"))
    PROVE  \A q, r \in Peer : Asked(q, r) => Asked(q, r)'
  <1> SUFFICES ASSUME NEW q \in Peer, NEW r \in Peer, Asked(q, r)
               PROVE  Asked(q, r)'
    OBVIOUS
  <1>1. idx[q] \in Nat /\ from[q] \in Nat
    BY DEF TypeOK
  <1>2. CASE q # p
    BY <1>2 DEF Asked
  <1>3. CASE q = p
    BY <1>1, <1>3 DEF Asked
  <1> QED
    BY <1>2, <1>3

(* find_peer asks the next host.                                           *)
LEMMA AskSInv ==
    ASSUME TypeOK, SInv, NEW p \in Peer, auth_request(p)
    PROVE  SInv'
  <1>1. CASE idx[p] < LastOctet
    <2> DEFINE can == [body |-> "CAN", host |-> p, inc |-> inc[p]]
    <2>1. /\ main[p] = "ask" /\ Sendto(idx[p], can)
          /\ main' = [main EXCEPT ![p] = "wait"]
          /\ UNCHANGED <<inc, from, idx, found, sockQ, accepted>>
      BY <1>1 DEF auth_request
    <2>2. can \in Datagram
      BY DEF TypeOK, Datagram
    <2>3. main'[p] = "wait" /\ \A q \in Peer \ {p} : main'[q] = main[q]
      BY <2>1 DEF TypeOK
    <2>4. \A q, r \in Peer : Asked(q, r) => Asked(q, r)'
      BY <2>1, <2>3, AskedGrows
    <2>5. Asked(p, idx[p])'
      <3>1. idx[p] \in Nat /\ from[p] \in Nat /\ from[p] <= idx[p]
        BY DEF TypeOK, SInv, RangeOK
      <3> QED
        BY <2>1, <2>3, <3>1 DEF Asked
    <2>6. RequestsOK'
      <3>1. inc[p] <= inc[p]
        BY DEF TypeOK
      <3>2. can.inc <= inc[can.host] /\ can.host = p
        BY <3>1
      <3>3. \A q \in Peer : main'[q] # "off" => main[q] # "off"
        BY <2>1, <2>3
      <3> HIDE DEF can
      <3> QED
        BY <2>1, <2>2, <2>4, <2>5, <3>2, <3>3, SendtoRequests DEF SInv
    <2>7. RangeOK' /\ AnswersOK' /\ FoundHasAccepted'
      BY <2>1, <2>3 DEF SInv, RangeOK, AnswersOK, FoundHasAccepted
    <2>8. AcceptedOK'
      BY <2>1, <2>3, <2>4 DEF SInv, AcceptedOK, TypeOK
    <2> QED
      BY <2>6, <2>7, <2>8 DEF SInv
  <1>2. CASE ~(idx[p] < LastOctet)
    <2>1. Exit(p) /\ UNCHANGED <<inc, listenQ>>
      BY <1>2 DEF auth_request, Fail
    <2> QED
      BY <2>1, ExitSInv
  <1> QED
    BY <1>1, <1>2

(* An answer read ends the search.                                         *)
LEMMA ConfirmSInv ==
    ASSUME TypeOK, SInv, NEW p \in Peer, auth_try_confirm(p)
    PROVE  SInv'
  <1>1. PICK q \in sockQ[p] :
           /\ found' = [found EXCEPT ![p] = AnswerFrom(p, q)]
           /\ sockQ' = [sockQ EXCEPT ![p] = @ \ {q}]
    BY DEF auth_try_confirm
  <1>2. /\ main[p] = "wait" /\ main'[p] = "chat" /\ idx'[p] = idx[p] + 1
        /\ \A r \in Peer \ {p} : main'[r] = main[r] /\ idx'[r] = idx[r]
        /\ UNCHANGED <<inc, from, listenQ, accepted>>
    BY DEF auth_try_confirm, TypeOK
  <1>3. /\ found'[p] = q /\ sockQ'[p] = sockQ[p] \ {q}
        /\ \A r \in Peer \ {p} : found'[r] = found[r] /\ sockQ'[r] = sockQ[r]
    BY <1>1 DEF TypeOK, AnswerFrom
  <1>4. \A r, s \in Peer : Asked(r, s) => Asked(r, s)'
    BY <1>2, AskedGrows
  <1>5. <<q, p, inc[p]>> \in accepted
    BY <1>1 DEF SInv, AnswersOK
  <1>6. Asked(p, q)
    BY <1>5 DEF SInv, AcceptedOK
  <1>7. RangeOK'
    BY <1>2 DEF SInv, RangeOK, TypeOK
  <1>8. RequestsOK'
    BY <1>2, <1>4 DEF SInv, RequestsOK, TypeOK, Datagram
  <1>9. AcceptedOK'
    BY <1>2, <1>4 DEF SInv, AcceptedOK, TypeOK
  <1>10. AnswersOK'
    BY <1>2, <1>3 DEF SInv, AnswersOK
  <1>11. FoundHasAccepted'
    <2>1. q \in from'[p] .. (idx'[p] - 1)
      <3>1. idx[p] \in Nat /\ from[p] \in Nat
        BY DEF TypeOK
      <3> QED
        BY <1>2, <1>6, <3>1 DEF Asked
    <2> QED
      BY <1>2, <1>3, <1>5, <2>1 DEF SInv, FoundHasAccepted
  <1> QED
    BY <1>7, <1>8, <1>9, <1>10, <1>11 DEF SInv

(* The answer is late: the next host will be asked.                        *)
LEMMA TimeoutSInv ==
    ASSUME TypeOK, SInv, NEW p \in Peer, recv_timeout(p)
    PROVE  SInv'
  <1>1. /\ main[p] = "wait" /\ main'[p] = "ask" /\ idx'[p] = idx[p] + 1
        /\ \A r \in Peer \ {p} : main'[r] = main[r] /\ idx'[r] = idx[r]
        /\ UNCHANGED <<inc, from, found, sockQ, listenQ, accepted>>
    BY DEF recv_timeout, TypeOK
  <1>2. \A r, s \in Peer : Asked(r, s) => Asked(r, s)'
    BY <1>1, AskedGrows
  <1>3. RangeOK'
    BY <1>1 DEF SInv, RangeOK, TypeOK
  <1>4. RequestsOK'
    BY <1>1, <1>2 DEF SInv, RequestsOK, TypeOK, Datagram
  <1>5. AcceptedOK'
    BY <1>1, <1>2 DEF SInv, AcceptedOK, TypeOK
  <1>6. AnswersOK' /\ FoundHasAccepted'
    BY <1>1 DEF SInv, AnswersOK, FoundHasAccepted
  <1> QED
    BY <1>3, <1>4, <1>5, <1>6 DEF SInv

(* A line goes to the host found, which this process has asked: a text     *)
(* that reads like a request is then a request to somebody asked.          *)
LEMMA TextSInv ==
    ASSUME TypeOK, SInv, NEW p \in Peer, message_loop(p)
    PROVE  SInv'
  <1>1. PICK b \in {"TXT", "CAN"} :
           Sendto(found[p], [body |-> b, host |-> p, inc |-> inc[p]])
    BY DEF message_loop
  <1>2. main[p] = "chat" /\ UNCHANGED <<main, inc, from, idx, found, sockQ, accepted>>
    BY DEF message_loop
  <1> DEFINE d == [body |-> b, host |-> p, inc |-> inc[p]]
  <1>3. d \in Datagram
    BY DEF TypeOK, Datagram
  <1>4. found[p] \in from[p] .. (idx[p] - 1)
    BY <1>2 DEF SInv, FoundHasAccepted
  <1>5. Asked(p, found[p])'
    <2>1. idx[p] \in Nat /\ from[p] \in Nat
      BY DEF TypeOK
    <2> QED
      BY <1>2, <1>4, <2>1 DEF Asked
  <1>6. \A q, r \in Peer : Asked(q, r) => Asked(q, r)'
    BY <1>2 DEF Asked
  <1>7. RequestsOK'
    <2>1. inc[p] <= inc[p]
      BY DEF TypeOK
    <2>2. d.inc <= inc[d.host] /\ d.host = p
      BY <2>1
    <2>3. Sendto(found[p], d)
      BY <1>1
    <2> HIDE DEF d
    <2> QED
      BY <1>2, <1>3, <1>5, <1>6, <2>2, <2>3, SendtoRequests DEF SInv
  <1>8. RangeOK' /\ AcceptedOK' /\ AnswersOK' /\ FoundHasAccepted'
    BY <1>2 DEF SInv, RangeOK, AcceptedOK, Asked, AnswersOK, FoundHasAccepted
  <1> QED
    BY <1>7, <1>8 DEF SInv

(* The listener answers: who accepts has been asked by the process that    *)
(* the answer reaches.                                                     *)
LEMMA AnswerSInv ==
    ASSUME TypeOK, SInv, NEW p \in Peer, listener_task(p)
    PROVE  SInv'
  <1>1. PICK d \in listenQ[p] :
           /\ listenQ' = [listenQ EXCEPT ![p] = @ \ {d}]
           /\ \/ UNCHANGED <<accepted, sockQ>>
              \/ /\ d.body = "CAN"
                 /\ main[d.host] # "off" /\ inc[d.host] = d.inc
                 /\ accepted' = accepted \union {<<p, d.host, d.inc>>}
                 /\ sockQ' = [sockQ EXCEPT ![d.host] = @ \union {p}]
    BY DEF listener_task
  <1>2. UNCHANGED <<main, inc, from, idx, found>>
    BY DEF listener_task
  <1>3. d.host \in Peer
    BY <1>1 DEF TypeOK, Datagram
  <1>4. \A q \in Peer : listenQ'[q] \subseteq listenQ[q]
    BY <1>1 DEF TypeOK
  <1>5. RangeOK' /\ RequestsOK'
    BY <1>2, <1>4 DEF SInv, RangeOK, RequestsOK, Asked
  <1>6. CASE UNCHANGED <<accepted, sockQ>>
    BY <1>2, <1>5, <1>6 DEF SInv, AcceptedOK, Asked, AnswersOK, FoundHasAccepted
  <1>7. CASE /\ d.body = "CAN"
             /\ main[d.host] # "off" /\ inc[d.host] = d.inc
             /\ accepted' = accepted \union {<<p, d.host, d.inc>>}
             /\ sockQ' = [sockQ EXCEPT ![d.host] = @ \union {p}]
    <2>1. Asked(d.host, p)
      BY <1>1, <1>7 DEF SInv, RequestsOK
    <2>2. AcceptedOK'
      BY <1>2, <1>7, <2>1 DEF SInv, AcceptedOK, Asked
    <2>3. AnswersOK'
      <3> SUFFICES ASSUME NEW q \in Peer, NEW r \in sockQ'[q]
                   PROVE  <<r, q, inc'[q]>> \in accepted'
        BY DEF AnswersOK
      <3>1. r \in sockQ[q] \/ (q = d.host /\ r = p)
        BY <1>3, <1>7 DEF TypeOK
      <3> QED
        BY <1>2, <1>7, <3>1 DEF SInv, AnswersOK
    <2>4. FoundHasAccepted'
      BY <1>2, <1>7 DEF SInv, FoundHasAccepted
    <2> QED
      BY <1>5, <2>2, <2>3, <2>4 DEF SInv
  <1> QED
    BY <1>1, <1>6, <1>7

(* A new process: everything under way is from an older one.               *)
LEMMA SpawnSInv ==
    ASSUME TypeOK, SInv, NEW p \in Peer, spawn_listener(p)
    PROVE  SInv'
  <1>1. PICK i \in StartIdx : from' = [from EXCEPT ![p] = i] /\ idx' = [idx EXCEPT ![p] = i]
    BY DEF spawn_listener
  <1>2. i \in Nat
    BY OctetAssumption
  <1>3. /\ main[p] = "off" /\ main'[p] = "ask" /\ inc'[p] = inc[p] + 1
        /\ from'[p] = i /\ idx'[p] = i
        /\ \A q \in Peer \ {p} :
              main'[q] = main[q] /\ inc'[q] = inc[q] /\ from'[q] = from[q] /\ idx'[q] = idx[q]
        /\ UNCHANGED <<found, sockQ, listenQ, accepted>>
    BY <1>1 DEF spawn_listener, TypeOK
  <1>4. \A q \in Peer \ {p} : \A r : Asked(q, r) => Asked(q, r)'
    BY <1>3 DEF Asked
  <1>5. \A a \in accepted : a[2] \in Peer \ {p}
    BY <1>3 DEF SInv, AcceptedOK, TypeOK
  <1>6. sockQ[p] = {}
    <2>1. \A q \in sockQ[p] : <<q, p, inc[p]>> \in accepted
      BY DEF SInv, AnswersOK
    <2>2. \A q \in sockQ[p] : <<q, p, inc[p]>>[2] \in Peer \ {p}
      BY <1>5, <2>1
    <2> QED
      BY <2>2
  <1>7. RangeOK'
    BY <1>2, <1>3 DEF SInv, RangeOK
  <1>8. RequestsOK'
    <2> SUFFICES ASSUME NEW q \in Peer, NEW d \in listenQ[q]
                 PROVE  /\ d.inc <= inc'[d.host]
                        /\ d.body = "CAN" /\ main'[d.host] # "off" /\ d.inc = inc'[d.host]
                              => Asked(d.host, q)'
      BY <1>3 DEF RequestsOK
    <2>1. d.host \in Peer /\ d.inc \in Nat /\ inc[d.host] \in Nat /\ d.inc <= inc[d.host]
      BY DEF TypeOK, Datagram, SInv, RequestsOK
    <2>2. CASE d.host = p
      BY <1>3, <2>1, <2>2
    <2>3. CASE d.host # p
      BY <1>3, <1>4, <2>1, <2>3 DEF SInv, RequestsOK
    <2> QED
      BY <2>2, <2>3
  <1>9. AcceptedOK'
    BY <1>3, <1>4, <1>5 DEF SInv, AcceptedOK
  <1>10. AnswersOK'
    BY <1>3, <1>6 DEF SInv, AnswersOK
  <1>11. FoundHasAccepted'
    BY <1>3 DEF SInv, FoundHasAccepted
  <1> QED
    BY <1>7, <1>8, <1>9, <1>10, <1>11 DEF SInv

(* What SInv speaks of.                                                    *)
LEMMA QuietSInv ==
    ASSUME SInv, UNCHANGED <<main, inc, from, idx, found, sockQ, listenQ, accepted>>
    PROVE  SInv'
  BY DEF SInv, RangeOK, RequestsOK, Asked, AcceptedOK, AnswersOK, FoundHasAccepted

(* What a listener has not read may be lost with it.                       *)
LEMMA LossSInv ==
    ASSUME SInv, UNCHANGED <<main, inc, from, idx, found, sockQ, accepted>>,
           \A q \in Peer : listenQ'[q] \subseteq listenQ[q]
    PROVE  SInv'
  BY DEF SInv, RangeOK, RequestsOK, Asked, AcceptedOK, AnswersOK, FoundHasAccepted

(* Every step keeps SInv.                                                  *)
LEMMA SInvStep ==
    ASSUME TypeOK, SInv, Next
    PROVE  SInv'
  <1>1. PICK p \in Peer :
           \/ spawn_listener(p)
           \/ auth_request(p)
           \/ auth_try_confirm(p)
           \/ recv_timeout(p)
           \/ message_loop(p)
           \/ kill_and_exit(p)
           \/ err_sys(p)
           \/ \E i \in forked[p] : bind_listener(p, i)
           \/ listener_task(p)
           \/ \E i \in bound[p] : listener_err_sys(p, i)
    BY DEF Next, FindStep
  <1>2. CASE kill_and_exit(p)
    <2>1. \A q \in Peer : listenQ'[q] \subseteq listenQ[q]
      BY <1>2, EndListenerType DEF kill_and_exit
    <2> QED
      BY <1>2, <2>1, ExitSInv DEF kill_and_exit
  <1>3. CASE err_sys(p)
    BY <1>3, ExitSInv DEF err_sys, Fail
  <1>4. ASSUME NEW i \in forked[p], bind_listener(p, i)
        PROVE  SInv'
    BY <1>4, QuietSInv DEF bind_listener
  <1>5. ASSUME NEW i \in bound[p], listener_err_sys(p, i)
        PROVE  SInv'
    <2>1. \A q \in Peer : listenQ'[q] \subseteq listenQ[q]
      BY <1>5, EndListenerType DEF listener_err_sys
    <2> QED
      BY <1>5, <2>1, LossSInv DEF listener_err_sys
  <1> QED
    BY <1>1, <1>2, <1>3, <1>4, <1>5, AskSInv, ConfirmSInv, TimeoutSInv, TextSInv,
       AnswerSInv, SpawnSInv

(* "a process chats only to a host that has accepted it": the answer taken *)
(* is one to this very process, from a host it has asked, however late it  *)
(* is and whichever listener of that host wrote it.                        *)
THEOREM FoundPeerHasAccepted == Spec => []FoundHasAccepted
  <1>1. Init => SInv
    BY DEF Init, SInv, RangeOK, RequestsOK, AcceptedOK, AnswersOK, FoundHasAccepted
  <1>2. TypeOK /\ SInv /\ [Next]_vars => SInv'
    <2>1. SInv /\ UNCHANGED vars => SInv'
      BY QuietSInv DEF vars
    <2> QED
      BY <2>1, SInvStep
  <1>3. SInv => FoundHasAccepted
    BY DEF SInv
  <1> QED
    BY <1>1, <1>2, <1>3, TypeCorrect, PTL DEF Spec
=============================================================================
