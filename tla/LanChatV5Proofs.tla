-------------------------- MODULE LanChatV5Proofs --------------------------
(***************************************************************************)
(* Theorems about LanChatV5, for every set of hosts, every size of the     *)
(* table peers, every number of starts and requests, with and without loss *)
(* and whatever the uninitialized rset holds.                              *)
(***************************************************************************)
EXTENDS LanChatV5, TLAPS

(* The disjuncts of Next, one action per step.                             *)
LEMMA NextCases ==
    ASSUME Next
    PROVE  \E p \in Peer :
               \/ connect_to_listener(p)
               \/ find_peer_confirm(p)
               \/ find_peer_stdin(p)
               \/ find_peer_unblock(p)
               \/ find_peer_alarm(p)
               \/ message_loop_select(p)
               \/ handle_listenfd(p)
               \/ handle_joinfd(p)
               \/ stdin_end(p)
               \/ stdin_eof(p)
               \/ stdin_find(p)
               \/ stdin_find_confirm(p)
               \/ stdin_text(p)
               \/ user_types(p)
               \/ err_sys(p)
  BY DEF Next, FindStep, LoopStep, StdinStep

(* A datagram handed to Sendto keeps the buffers sets of datagrams.        *)
LEMMA SendtoType ==
    ASSUME TypeOK, NEW A, NEW d \in Datagram, Sendto(A, d)
    PROVE  /\ listenQ' \in [Peer -> SUBSET Datagram]
           /\ sockQ' \in [Peer -> SUBSET Datagram]
  BY DEF TypeOK, Sendto

(* A request keeps the buffers of joinfd sets of datagrams.                *)
LEMMA RequestType ==
    ASSUME TypeOK, NEW p \in Peer, NEW c \in Nat, NEW i \in Nat, auth_request(p, c, i)
    PROVE  joinQ' \in [Peer -> SUBSET Datagram]
  <1> DEFINE can == [body |-> "CAN", host |-> p, port |-> c, inc |-> c, n |-> i]
  <1>1. can \in Datagram
    BY DEF Datagram
  <1>2. PICK R \in Reached(Members(p)) :
            joinQ' = [q \in Peer |-> IF q \in R THEN joinQ[q] \union {can} ELSE joinQ[q]]
    BY DEF auth_request
  <1> QED
    BY <1>1, <1>2 DEF TypeOK

(* Recording an entry keeps places and lists typed.                        *)
LEMMA AddPeerType ==
    ASSUME TypeOK, NEW p \in Peer, NEW e \in PeerEntry, NEW next \in Place,
           AddPeer(p, e, next)
    PROVE  /\ pc' \in [Peer -> Place]
           /\ peers' \in [Peer -> Seq(PeerEntry)]
  <1>1. peers[p] \in Seq(PeerEntry)
    BY DEF TypeOK
  <1>2. Append(peers[p], e) \in Seq(PeerEntry)
    BY <1>1
  <1>3. "overrun" \in Place
    BY DEF Place
  <1> QED
    BY <1>2, <1>3 DEF TypeOK, AddPeer

(* So does reading an answer.                                              *)
LEMMA ConfirmType ==
    ASSUME TypeOK, NEW p \in Peer, NEW next \in Place, auth_try_confirm(p, next)
    PROVE  /\ pc' \in [Peer -> Place]
           /\ peers' \in [Peer -> Seq(PeerEntry)]
           /\ sockQ' \in [Peer -> SUBSET Datagram]
  <1>1. PICK d \in sockQ[p] :
            /\ sockQ' = [sockQ EXCEPT ![p] = @ \ {d}]
            /\ IF d.body = "OFC"
               THEN AddPeer(p, Confirmer(d), next)
               ELSE pc' = [pc EXCEPT ![p] = "failed"] /\ UNCHANGED peers
    BY DEF auth_try_confirm
  <1>2. d \in Datagram
    BY DEF TypeOK
  <1>3. Confirmer(d) \in PeerEntry
    BY <1>2 DEF Datagram, PeerEntry, Confirmer
  <1>4. sockQ' \in [Peer -> SUBSET Datagram]
    BY <1>1 DEF TypeOK
  <1>5. CASE d.body = "OFC"
    BY <1>1, <1>3, <1>4, <1>5, AddPeerType
  <1>6. CASE d.body # "OFC"
    BY <1>1, <1>4, <1>6 DEF TypeOK, Place
  <1> QED
    BY <1>5, <1>6

(* And the end of a process.                                               *)
LEMMA ExitType ==
    ASSUME TypeOK, NEW p \in Peer, Exit(p)
    PROVE  TypeOK'
  <1>1. << >> \in Seq(PeerEntry)
    OBVIOUS
  <1> QED
    BY <1>1 DEF TypeOK, Exit, Place

(* The type invariant is inductive.                                        *)
LEMMA TypeStep ==
    ASSUME TypeOK, Next
    PROVE  TypeOK'
  <1>1. PICK p \in Peer :
           \/ connect_to_listener(p)
           \/ find_peer_confirm(p)
           \/ find_peer_stdin(p)
           \/ find_peer_unblock(p)
           \/ find_peer_alarm(p)
           \/ message_loop_select(p)
           \/ handle_listenfd(p)
           \/ handle_joinfd(p)
           \/ stdin_end(p)
           \/ stdin_eof(p)
           \/ stdin_find(p)
           \/ stdin_find_confirm(p)
           \/ stdin_text(p)
           \/ user_types(p)
           \/ err_sys(p)
    BY NextCases
  <1> USE DEF Place
  <1>2. CASE connect_to_listener(p)
    <2>1. joinQ' \in [Peer -> SUBSET Datagram]
      <3>1. inc[p] + 1 \in Nat
        BY DEF TypeOK
      <3> QED
        BY <1>2, <3>1, RequestType DEF connect_to_listener
    <2>2. inc' \in [Peer -> Nat] /\ req' \in [Peer -> Nat] /\ pc' \in [Peer -> Place]
      BY <1>2 DEF connect_to_listener, TypeOK
    <2>3. stray' \in [Peer -> BOOLEAN]
      BY <1>2, StrayAssumption DEF connect_to_listener, TypeOK
    <2> QED
      BY <1>2, <2>1, <2>2, <2>3 DEF connect_to_listener, TypeOK
  <1>3. CASE find_peer_confirm(p)
    <2>1. auth_try_confirm(p, "find")
      BY <1>3 DEF find_peer_confirm
    <2>2. /\ pc' \in [Peer -> Place]
          /\ peers' \in [Peer -> Seq(PeerEntry)]
          /\ sockQ' \in [Peer -> SUBSET Datagram]
      BY <2>1, ConfirmType
    <2> QED
      BY <1>3, <2>2 DEF find_peer_confirm, TypeOK
  <1>4. CASE find_peer_stdin(p)
    <2>1. CASE sockQ[p] = {}
      BY <1>4, <2>1 DEF find_peer_stdin, TypeOK
    <2>2. CASE sockQ[p] # {}
      BY <1>4, <2>2, ExitType DEF find_peer_stdin
    <2> QED
      BY <2>1, <2>2
  <1>5. CASE find_peer_unblock(p)
    <2>1. auth_try_confirm(p, "find")
      BY <1>5 DEF find_peer_unblock
    <2>2. /\ pc' \in [Peer -> Place]
          /\ peers' \in [Peer -> Seq(PeerEntry)]
          /\ sockQ' \in [Peer -> SUBSET Datagram]
      BY <2>1, ConfirmType
    <2> QED
      BY <1>5, <2>2 DEF find_peer_unblock, TypeOK
  <1>6. CASE find_peer_alarm(p)
    BY <1>6 DEF find_peer_alarm, TypeOK
  <1>7. CASE message_loop_select(p)
    BY <1>7 DEF message_loop_select, Readable, TypeOK
  <1>8. CASE handle_listenfd(p)
    BY <1>8 DEF handle_listenfd, TypeOK
  <1>9. CASE handle_joinfd(p)
    <2>1. PICK d \in joinQ[p] :
             /\ joinQ' = [joinQ EXCEPT ![p] = @ \ {d}]
             /\ IF d.body = "CAN"
                THEN auth_accept(p, d) /\ AddPeer(p, Requester(d), "loop")
                ELSE UNCHANGED <<pc, peers, sockQ, listenQ>>
      BY <1>9 DEF handle_joinfd
    <2>2. d \in Datagram /\ joinQ' \in [Peer -> SUBSET Datagram]
      BY <2>1 DEF TypeOK
    <2>3. /\ pc' \in [Peer -> Place]
          /\ peers' \in [Peer -> Seq(PeerEntry)]
          /\ sockQ' \in [Peer -> SUBSET Datagram]
          /\ listenQ' \in [Peer -> SUBSET Datagram]
      <3>1. CASE d.body = "CAN"
        <4> DEFINE ofc == [body |-> "OFC", host |-> p, port |-> CHAT_PORT,
                           inc |-> inc[p], n |-> d.n]
        <4>1. ofc \in Datagram
          BY <2>2 DEF Datagram, TypeOK, CHAT_PORT
        <4>2. PICK A \in Reached({AnswerAddress(d)}) : Sendto(A, ofc)
          BY <2>1, <3>1 DEF auth_accept
        <4>3. Requester(d) \in PeerEntry
          BY <2>2 DEF Datagram, PeerEntry, Requester, CHAT_PORT
        <4>4. AddPeer(p, Requester(d), "loop")
          BY <2>1, <3>1
        <4>5. pc' \in [Peer -> Place] /\ peers' \in [Peer -> Seq(PeerEntry)]
          BY <4>3, <4>4, AddPeerType
        <4>6. sockQ' \in [Peer -> SUBSET Datagram] /\ listenQ' \in [Peer -> SUBSET Datagram]
          BY <4>1, <4>2, SendtoType
        <4> QED
          BY <4>5, <4>6
      <3>2. CASE d.body # "CAN"
        BY <2>1, <3>2 DEF TypeOK
      <3> QED
        BY <3>1, <3>2
    <2> QED
      BY <1>9, <2>2, <2>3 DEF handle_joinfd, TypeOK
  <1>10. CASE stdin_end(p)
    BY <1>10, ExitType DEF stdin_end
  <1>11. CASE stdin_eof(p)
    BY <1>11 DEF stdin_eof, TypeOK
  <1>12. CASE stdin_find(p)
    <2>1. joinQ' \in [Peer -> SUBSET Datagram]
      <3>1. inc[p] \in Nat /\ req[p] + 1 \in Nat
        BY DEF TypeOK
      <3> QED
        BY <1>12, <3>1, RequestType DEF stdin_find
    <2>2. req' \in [Peer -> Nat] /\ pc' \in [Peer -> Place]
      BY <1>12 DEF stdin_find, TypeOK
    <2>3. /\ rset' \in [Peer -> SUBSET {"listenfd", "joinfd", "stdin"}]
          /\ typed' \in [Peer -> BOOLEAN]
      BY <1>12 DEF stdin_find, ReadStdin, TypeOK
    <2> QED
      BY <1>12, <2>1, <2>2, <2>3 DEF stdin_find, TypeOK
  <1>13. CASE stdin_find_confirm(p)
    <2>1. auth_try_confirm(p, "loop")
      BY <1>13 DEF stdin_find_confirm
    <2>2. /\ pc' \in [Peer -> Place]
          /\ peers' \in [Peer -> Seq(PeerEntry)]
          /\ sockQ' \in [Peer -> SUBSET Datagram]
      BY <2>1, ConfirmType
    <2> QED
      BY <1>13, <2>2 DEF stdin_find_confirm, TypeOK
  <1>14. CASE stdin_text(p)
    <2> DEFINE txt == [body |-> "TXT", host |-> p, port |-> inc[p],
                       inc |-> inc[p], n |-> 0]
    <2>1. txt \in Datagram
      BY DEF Datagram, TypeOK
    <2>2. PICK k \in 0 .. Len(peers[p]) :
             /\ \E A \in Reached({[host |-> peers[p][i].host,
                                   port |-> peers[p][i].port] : i \in 1 .. k}) :
                    Sendto(A, txt)
             /\ pc' = [pc EXCEPT ![p] = IF k < Len(peers[p]) THEN "failed" ELSE "loop"]
      BY <1>14 DEF stdin_text
    <2>3. sockQ' \in [Peer -> SUBSET Datagram] /\ listenQ' \in [Peer -> SUBSET Datagram]
      BY <2>1, <2>2, SendtoType
    <2>4. pc' \in [Peer -> Place]
      BY <2>2 DEF TypeOK
    <2> QED
      BY <1>14, <2>3, <2>4 DEF stdin_text, ReadStdin, TypeOK
  <1>15. CASE user_types(p)
    BY <1>15 DEF user_types, TypeOK
  <1>16. CASE err_sys(p)
    BY <1>16, ExitType DEF err_sys
  <1> QED
    BY <1>1, <1>2, <1>3, <1>4, <1>5, <1>6, <1>7, <1>8, <1>9, <1>10, <1>11,
       <1>12, <1>13, <1>14, <1>15, <1>16

(* Every reachable state of the chat is a state of the declared types.     *)
THEOREM TypeCorrect == Spec => []TypeOK
  <1>1. Init => TypeOK
    BY DEF Init, TypeOK, Place
  <1>2. TypeOK /\ [Next]_vars => TypeOK'
    <2>1. TypeOK /\ UNCHANGED vars => TypeOK'
      BY DEF TypeOK, vars
    <2> QED
      BY <2>1, TypeStep
  <1> QED
    BY <1>1, <1>2, PTL DEF Spec

-----------------------------------------------------------------------------
(***************************************************************************)
(* SockfdOnlyOfc.  By itself it is not inductive: a chat message goes      *)
(* wherever an entry of peers says, and an entry is copied from an answer. *)
(* So entries and answers must be known to carry CHAT_PORT.  The bounds on *)
(* inc are for the theorems further down.                                  *)
(***************************************************************************)
EntriesOK ==
    \A p \in Peer : \A i \in DOMAIN peers[p] :
        peers[p][i].port = CHAT_PORT /\ peers[p][i].inc <= inc[peers[p][i].host]

AnswersOK ==
    \A p \in Peer : \A d \in sockQ[p] :
        d.body = "OFC" /\ d.port = CHAT_PORT /\ d.inc <= inc[d.host]

RequestsOK ==
    \A p \in Peer : \A d \in joinQ[p] :
        d.body = "CAN" /\ d.port = d.inc /\ d.inc # CHAT_PORT /\ d.inc <= inc[d.host]

OffOK ==
    \A p \in Peer :
        pc[p] = "off" => peers[p] = <<>> /\ sockQ[p] = {} /\ joinQ[p] = {}

StartedOK == \A p \in Peer : pc[p] # "off" => inc[p] # CHAT_PORT

SInv == TypeOK /\ EntriesOK /\ AnswersOK /\ RequestsOK /\ OffOK /\ StartedOK

(* What AddPeer does to the lists.                                         *)
LEMMA AddPeerEffect ==
    ASSUME TypeOK, NEW p \in Peer, NEW e \in PeerEntry, NEW next \in Place,
           AddPeer(p, e, next)
    PROVE  /\ \A q \in Peer \ {p} : peers'[q] = peers[q] /\ pc'[q] = pc[q]
           /\ pc'[p] = next \/ pc'[p] = "overrun"
           /\ \A i \in DOMAIN peers'[p] :
                  \/ peers'[p][i] = e
                  \/ i \in DOMAIN peers[p] /\ peers'[p][i] = peers[p][i]
           /\ \A i \in DOMAIN peers[p] :
                  i \in DOMAIN peers'[p] /\ peers'[p][i] = peers[p][i]
           /\ \/ pc'[p] = "overrun"
              \/ \E i \in DOMAIN peers'[p] : peers'[p][i] = e
  <1>1. peers[p] \in Seq(PeerEntry)
    BY DEF TypeOK
  <1>2. CASE Len(peers[p]) < MAX_PEERS
    <2>1. peers' = [peers EXCEPT ![p] = Append(@, e)] /\ pc' = [pc EXCEPT ![p] = next]
      BY <1>2 DEF AddPeer
    <2>2. peers'[p] = Append(peers[p], e) /\ pc'[p] = next
      BY <2>1 DEF TypeOK
    <2>3. \A q \in Peer \ {p} : peers'[q] = peers[q] /\ pc'[q] = pc[q]
      BY <2>1 DEF TypeOK
    <2>4. \A i \in DOMAIN peers'[p] :
              \/ peers'[p][i] = e
              \/ i \in DOMAIN peers[p] /\ peers'[p][i] = peers[p][i]
      BY <1>1, <2>2
    <2>5. \A i \in DOMAIN peers[p] :
              i \in DOMAIN peers'[p] /\ peers'[p][i] = peers[p][i]
      BY <1>1, <2>2
    <2>6. \E i \in DOMAIN peers'[p] : peers'[p][i] = e
      <3>1. Len(peers[p]) + 1 \in DOMAIN peers'[p] /\ peers'[p][Len(peers[p]) + 1] = e
        BY <1>1, <2>2
      <3> QED
        BY <3>1
    <2> QED
      BY <2>2, <2>3, <2>4, <2>5, <2>6
  <1>3. CASE ~(Len(peers[p]) < MAX_PEERS)
    BY <1>3 DEF AddPeer, TypeOK
  <1> QED
    BY <1>2, <1>3

(* What auth_try_confirm does to the lists when sockfd holds only answers: *)
(* it moves an answer d from sockfd to an entry.                           *)
LEMMA ConfirmEffect ==
    ASSUME SInv, NEW p \in Peer, NEW next \in Place, auth_try_confirm(p, next)
    PROVE  \E d \in sockQ[p] :
               /\ sockQ' = [sockQ EXCEPT ![p] = @ \ {d}]
               /\ d \in Datagram
               /\ Confirmer(d) \in PeerEntry
               /\ AddPeer(p, Confirmer(d), next)
  <1>1. PICK d \in sockQ[p] :
            /\ sockQ' = [sockQ EXCEPT ![p] = @ \ {d}]
            /\ IF d.body = "OFC"
               THEN AddPeer(p, Confirmer(d), next)
               ELSE pc' = [pc EXCEPT ![p] = "failed"] /\ UNCHANGED peers
    BY DEF auth_try_confirm
  <1>2. d.body = "OFC" /\ d \in Datagram
    BY DEF SInv, TypeOK, AnswersOK
  <1>3. Confirmer(d) \in PeerEntry
    BY <1>2 DEF Datagram, PeerEntry, Confirmer
  <1> QED
    BY <1>1, <1>2, <1>3

(* The parts of SInv that speak of lists and answers survive a             *)
(* confirmation.                                                           *)
LEMMA ConfirmSInv ==
    ASSUME SInv, TypeOK', NEW p \in Peer, NEW next \in Place \ {"off"},
           auth_try_confirm(p, next), pc[p] # "off", UNCHANGED <<inc, joinQ>>
    PROVE  SInv'
  <1>1. PICK d \in sockQ[p] :
               /\ sockQ' = [sockQ EXCEPT ![p] = @ \ {d}]
               /\ d \in Datagram
               /\ Confirmer(d) \in PeerEntry
               /\ AddPeer(p, Confirmer(d), next)
    BY ConfirmEffect
  <1>2. /\ \A q \in Peer \ {p} : peers'[q] = peers[q] /\ pc'[q] = pc[q]
        /\ pc'[p] = next \/ pc'[p] = "overrun"
        /\ \A i \in DOMAIN peers'[p] :
               \/ peers'[p][i] = Confirmer(d)
               \/ i \in DOMAIN peers[p] /\ peers'[p][i] = peers[p][i]
    BY <1>1, AddPeerEffect DEF SInv
  <1>3. d.port = CHAT_PORT /\ d.inc <= inc[d.host]
    BY <1>1 DEF SInv, AnswersOK
  <1>4. EntriesOK'
    <2> SUFFICES ASSUME NEW q \in Peer, NEW i \in DOMAIN peers'[q]
                 PROVE  /\ peers'[q][i].port = CHAT_PORT
                        /\ peers'[q][i].inc <= inc[peers'[q][i].host]
      BY DEF EntriesOK
    <2>1. CASE q # p
      BY <1>2, <2>1 DEF SInv, EntriesOK
    <2>2. CASE q = p /\ peers'[p][i] = Confirmer(d)
      BY <1>3, <2>2 DEF Confirmer
    <2>3. CASE q = p /\ i \in DOMAIN peers[p] /\ peers'[p][i] = peers[p][i]
      BY <2>3 DEF SInv, EntriesOK
    <2> QED
      BY <1>2, <2>1, <2>2, <2>3
  <1>5. AnswersOK'
    <2>1. \A q \in Peer : sockQ'[q] \subseteq sockQ[q]
      BY <1>1 DEF SInv, TypeOK
    <2> QED
      BY <2>1 DEF SInv, AnswersOK
  <1>6. RequestsOK'
    BY DEF SInv, RequestsOK
  <1>7. OffOK'
    <2>1. pc'[p] # "off"
      BY <1>2
    <2>2. \A q \in Peer \ {p} : sockQ'[q] = sockQ[q]
      BY <1>1 DEF SInv, TypeOK
    <2> QED
      BY <1>2, <2>1, <2>2 DEF SInv, OffOK
  <1>8. StartedOK'
    BY <1>2 DEF SInv, StartedOK
  <1> QED
    BY <1>4, <1>5, <1>6, <1>7, <1>8 DEF SInv

(* SInv survives the end of a process.                                     *)
LEMMA ExitSInv ==
    ASSUME SInv, TypeOK', NEW p \in Peer, Exit(p)
    PROVE  SInv'
  <1>1. /\ peers' = [peers EXCEPT ![p] = <<>>]
        /\ sockQ' = [sockQ EXCEPT ![p] = {}]
        /\ joinQ' = [joinQ EXCEPT ![p] = {}]
        /\ pc' = [pc EXCEPT ![p] = "off"]
        /\ inc' = inc
    BY DEF Exit
  <1>2. /\ \A q \in Peer \ {p} : /\ peers'[q] = peers[q] /\ sockQ'[q] = sockQ[q]
                                 /\ joinQ'[q] = joinQ[q] /\ pc'[q] = pc[q]
        /\ peers'[p] = <<>> /\ sockQ'[p] = {} /\ joinQ'[p] = {}
    BY <1>1 DEF SInv, TypeOK
  <1>3. EntriesOK'
    BY <1>1, <1>2 DEF SInv, EntriesOK
  <1>4. AnswersOK' /\ RequestsOK'
    BY <1>1, <1>2 DEF SInv, AnswersOK, RequestsOK
  <1>5. OffOK'
    BY <1>2 DEF SInv, OffOK
  <1>6. StartedOK'
    BY <1>1 DEF SInv, StartedOK, TypeOK
  <1> QED
    BY <1>3, <1>4, <1>5, <1>6 DEF SInv

(* SInv survives a request of process c of p, if p has started c times.    *)
LEMMA RequestSInv ==
    ASSUME SInv, TypeOK', NEW p \in Peer, NEW c \in Nat, NEW k \in Nat,
           auth_request(p, c, k), c # CHAT_PORT, c <= inc'[p],
           \A q \in Peer : inc[q] <= inc'[q],
           UNCHANGED <<peers, sockQ>>,
           pc'[p] # "off", inc'[p] # CHAT_PORT,
           \A q \in Peer \ {p} : pc'[q] = pc[q] /\ inc'[q] = inc[q]
    PROVE  SInv'
  <1> DEFINE can == [body |-> "CAN", host |-> p, port |-> c, inc |-> c, n |-> k]
  <1>1. PICK R \in Reached(Members(p)) :
            joinQ' = [q \in Peer |-> IF q \in R THEN joinQ[q] \union {can} ELSE joinQ[q]]
    BY DEF auth_request
  <1>2. R \subseteq Members(p)
    BY DEF Reached
  <1>3. EntriesOK'
    <2>1. ASSUME NEW q \in Peer, NEW i \in DOMAIN peers[q]
          PROVE  peers[q][i].inc <= inc'[peers[q][i].host]
      <3>1. peers[q][i] \in PeerEntry
        BY DEF SInv, TypeOK
      <3>2. peers[q][i].inc \in Nat /\ peers[q][i].host \in Peer
        BY <3>1 DEF PeerEntry
      <3>3. inc[peers[q][i].host] \in Nat /\ inc'[peers[q][i].host] \in Nat
        BY <3>2 DEF SInv, TypeOK
      <3> QED
        BY <3>2, <3>3 DEF SInv, EntriesOK
    <2> QED
      BY <2>1 DEF SInv, EntriesOK
  <1>4. AnswersOK'
    <2>1. ASSUME NEW q \in Peer, NEW d \in sockQ[q]
          PROVE  d.inc <= inc'[d.host]
      <3>0. d \in Datagram
        BY DEF SInv, TypeOK
      <3>1. d.inc \in Nat /\ d.host \in Peer
        BY <3>0 DEF Datagram
      <3>2. inc[d.host] \in Nat /\ inc'[d.host] \in Nat
        BY <3>1 DEF SInv, TypeOK
      <3> QED
        BY <3>1, <3>2 DEF SInv, AnswersOK
    <2> QED
      BY <2>1 DEF SInv, AnswersOK
  <1>5. RequestsOK'
    <2> SUFFICES ASSUME NEW q \in Peer, NEW d \in joinQ'[q]
                 PROVE  /\ d.body = "CAN" /\ d.port = d.inc /\ d.inc # CHAT_PORT
                        /\ d.inc <= inc'[d.host]
      BY DEF RequestsOK
    <2>1. CASE d \in joinQ[q]
      <3>0. d \in Datagram
        BY <2>1 DEF SInv, TypeOK
      <3>1. d.inc \in Nat /\ d.host \in Peer
        BY <3>0 DEF Datagram
      <3>2. inc[d.host] \in Nat /\ inc'[d.host] \in Nat
        BY <3>1 DEF SInv, TypeOK
      <3> QED
        BY <2>1, <3>1, <3>2 DEF SInv, RequestsOK
    <2>2. CASE d = can
      BY <2>2
    <2> QED
      BY <1>1, <2>1, <2>2
  <1>6. OffOK'
    <2>1. ASSUME NEW q \in Peer, pc'[q] = "off"
          PROVE  joinQ'[q] = {}
      <3>1. q # p /\ pc[q] = "off"
        BY <2>1
      <3>2. q \notin R
        BY <1>2, <3>1 DEF Members, Listening
      <3> QED
        BY <1>1, <3>1, <3>2 DEF SInv, OffOK
    <2> QED
      BY <2>1 DEF SInv, OffOK
  <1>7. StartedOK'
    BY DEF SInv, StartedOK
  <1> QED
    BY <1>3, <1>4, <1>5, <1>6, <1>7 DEF SInv

(* SInv survives steps that change neither lists, answers, requests nor    *)
(* whether a process is off.                                               *)
LEMMA QuietSInv ==
    ASSUME SInv, TypeOK', UNCHANGED <<inc, peers, sockQ, joinQ>>,
           \A q \in Peer : pc'[q] = "off" <=> pc[q] = "off"
    PROVE  SInv'
  BY DEF SInv, EntriesOK, AnswersOK, RequestsOK, OffOK, StartedOK

(* The acceptance of a request, as lists and answers see it.               *)
Accepts(p) ==
    /\ pc[p] = "loop" /\ UNCHANGED inc
    /\ \E d \in joinQ[p] :
        /\ joinQ' = [joinQ EXCEPT ![p] = @ \ {d}]
        /\ auth_accept(p, d) /\ AddPeer(p, Requester(d), "loop")

(* It is what handle_joinfd does: only requests reach joinfd.              *)
LEMMA JoinAccepts ==
    ASSUME SInv, NEW p \in Peer, handle_joinfd(p)
    PROVE  Accepts(p)
  BY DEF handle_joinfd, Accepts, SInv, RequestsOK

(* What it does to lists and answers: it turns a request d into an entry   *)
(* for its sender and, unless it is lost, into an answer on the sockfd     *)
(* that sent d.                                                            *)
LEMMA JoinEffect ==
    ASSUME SInv, NEW p \in Peer, Accepts(p)
    PROVE  \E d \in joinQ[p] :
               LET ofc == [body |-> "OFC", host |-> p, port |-> CHAT_PORT,
                           inc |-> inc[p], n |-> d.n]
               IN  /\ d \in Datagram
                   /\ joinQ' = [joinQ EXCEPT ![p] = @ \ {d}]
                   /\ Requester(d) \in PeerEntry
                   /\ AddPeer(p, Requester(d), "loop")
                   /\ \A q \in Peer :
                         \/ sockQ'[q] = sockQ[q]
                         \/ /\ sockQ'[q] = sockQ[q] \union {ofc}
                            /\ q = d.host /\ d.inc = inc[q] /\ pc[q] \in Running
                   /\ ~Lossy /\ d.inc = inc[d.host] /\ pc[d.host] \in Running
                         => ofc \in sockQ'[d.host]
  <1>1. PICK d \in joinQ[p] :
             /\ joinQ' = [joinQ EXCEPT ![p] = @ \ {d}]
             /\ auth_accept(p, d) /\ AddPeer(p, Requester(d), "loop")
    BY DEF Accepts
  <1>2. d \in Datagram
    BY <1>1 DEF SInv, TypeOK
  <1>3. d.body = "CAN" /\ d.port = d.inc /\ d.inc # CHAT_PORT
    BY <1>1 DEF SInv, RequestsOK
  <1> DEFINE ofc == [body |-> "OFC", host |-> p, port |-> CHAT_PORT,
                     inc |-> inc[p], n |-> d.n]
  <1> DEFINE a == AnswerAddress(d)
  <1>4. PICK A \in Reached({a}) : Sendto(A, ofc)
    BY <1>1, <1>3 DEF auth_accept
  <1>5. a.host = d.host /\ a.port = d.inc
    BY <1>3 DEF AnswerAddress
  <1> HIDE DEF a
  <1>6. A \subseteq {a} /\ (~Lossy => A = {a})
    BY <1>4 DEF Reached
  <1>7. sockQ' = [q \in Peer |->
            IF \E b \in A : b.host = q /\ AtSockfd(b)
            THEN sockQ[q] \union {ofc} ELSE sockQ[q]]
    BY <1>4 DEF Sendto
  <1>8. ASSUME NEW q \in Peer
        PROVE  \/ sockQ'[q] = sockQ[q]
               \/ /\ sockQ'[q] = sockQ[q] \union {ofc}
                  /\ q = d.host /\ d.inc = inc[q] /\ pc[q] \in Running
    BY <1>5, <1>6, <1>7 DEF AtSockfd
  <1>9. ASSUME ~Lossy, d.inc = inc[d.host], pc[d.host] \in Running
        PROVE  ofc \in sockQ'[d.host]
    <2>1. AtSockfd(a)
      BY <1>3, <1>5, <1>9 DEF AtSockfd
    <2>2. d.host \in Peer
      BY <1>2 DEF Datagram
    <2> QED
      BY <1>5, <1>6, <1>7, <1>9, <2>1, <2>2
  <1>10. Requester(d) \in PeerEntry
    BY <1>2 DEF Datagram, PeerEntry, Requester, CHAT_PORT
  <1> QED
    BY <1>1, <1>2, <1>3, <1>8, <1>9, <1>10

(* SInv survives the acceptance of a request.                              *)
LEMMA JoinSInv ==
    ASSUME SInv, TypeOK', NEW p \in Peer, Accepts(p)
    PROVE  SInv'
  <1> DEFINE ofc(d) == [body |-> "OFC", host |-> p, port |-> CHAT_PORT,
                        inc |-> inc[p], n |-> d.n]
  <1>1. PICK d \in joinQ[p] :
            /\ d \in Datagram
            /\ joinQ' = [joinQ EXCEPT ![p] = @ \ {d}]
            /\ Requester(d) \in PeerEntry
            /\ AddPeer(p, Requester(d), "loop")
            /\ \A q \in Peer :
                  \/ sockQ'[q] = sockQ[q]
                  \/ /\ sockQ'[q] = sockQ[q] \union {ofc(d)}
                     /\ q = d.host /\ d.inc = inc[q] /\ pc[q] \in Running
    BY JoinEffect
  <1>2. inc' = inc /\ pc[p] = "loop"
    BY DEF Accepts
  <1>3. /\ \A q \in Peer \ {p} : peers'[q] = peers[q] /\ pc'[q] = pc[q]
        /\ pc'[p] = "loop" \/ pc'[p] = "overrun"
        /\ \A i \in DOMAIN peers'[p] :
               \/ peers'[p][i] = Requester(d)
               \/ i \in DOMAIN peers[p] /\ peers'[p][i] = peers[p][i]
    BY <1>1, AddPeerEffect DEF SInv, Place
  <1>4. EntriesOK'
    <2> SUFFICES ASSUME NEW q \in Peer, NEW i \in DOMAIN peers'[q]
                 PROVE  /\ peers'[q][i].port = CHAT_PORT
                        /\ peers'[q][i].inc <= inc[peers'[q][i].host]
      BY <1>2 DEF EntriesOK
    <2>1. CASE q # p
      BY <1>3, <2>1 DEF SInv, EntriesOK
    <2>2. CASE q = p /\ peers'[p][i] = Requester(d)
      <3>1. d.inc <= inc[d.host]
        BY <1>1 DEF SInv, RequestsOK
      <3> QED
        BY <2>2, <3>1 DEF Requester
    <2>3. CASE q = p /\ i \in DOMAIN peers[p] /\ peers'[p][i] = peers[p][i]
      BY <2>3 DEF SInv, EntriesOK
    <2> QED
      BY <1>3, <2>1, <2>2, <2>3
  <1>5. AnswersOK'
    <2> SUFFICES ASSUME NEW q \in Peer, NEW c \in sockQ'[q]
                 PROVE  c.body = "OFC" /\ c.port = CHAT_PORT /\ c.inc <= inc[c.host]
      BY <1>2 DEF AnswersOK
    <2>1. CASE c \in sockQ[q]
      BY <2>1 DEF SInv, AnswersOK
    <2>2. CASE c = ofc(d)
      <3>1. inc[p] \in Nat
        BY DEF SInv, TypeOK
      <3> QED
        BY <2>2, <3>1
    <2> QED
      BY <1>1, <2>1, <2>2
  <1>6. RequestsOK'
    <2>1. \A q \in Peer : joinQ'[q] \subseteq joinQ[q]
      BY <1>1 DEF SInv, TypeOK
    <2> QED
      BY <1>2, <2>1 DEF SInv, RequestsOK
  <1>7. OffOK'
    <2>1. pc'[p] # "off"
      BY <1>3
    <2>2. \A q \in Peer \ {p} : joinQ'[q] = joinQ[q]
      BY <1>1 DEF SInv, TypeOK
    <2>3. \A q \in Peer : pc[q] = "off" => sockQ'[q] = sockQ[q]
      BY <1>1 DEF Running
    <2> QED
      BY <1>3, <2>1, <2>2, <2>3 DEF SInv, OffOK
  <1>8. StartedOK'
    BY <1>2, <1>3 DEF SInv, StartedOK
  <1> QED
    BY <1>4, <1>5, <1>6, <1>7, <1>8 DEF SInv

(* A chat message never ends up on a sockfd.                               *)
LEMMA TextEffect ==
    ASSUME SInv, NEW p \in Peer, stdin_text(p)
    PROVE  sockQ' = sockQ
  <1> DEFINE txt == [body |-> "TXT", host |-> p, port |-> inc[p],
                     inc |-> inc[p], n |-> 0]
  <1> DEFINE To(k) == {[host |-> peers[p][i].host, port |-> peers[p][i].port] : i \in 1 .. k}
  <1>1. PICK k \in 0 .. Len(peers[p]) : \E A \in Reached(To(k)) : Sendto(A, txt)
    BY DEF stdin_text
  <1>2. PICK A \in Reached(To(k)) : Sendto(A, txt)
    BY <1>1
  <1>3. A \subseteq To(k)
    BY <1>2 DEF Reached
  <1>4. \A b \in A : b.port = CHAT_PORT
    <2>1. peers[p] \in Seq(PeerEntry)
      BY DEF SInv, TypeOK
    <2>2. \A i \in 1 .. k : i \in DOMAIN peers[p]
      BY <1>1, <2>1
    <2> QED
      BY <1>3, <2>2 DEF SInv, EntriesOK
  <1>5. \A b \in A : ~AtSockfd(b)
    BY <1>4 DEF AtSockfd
  <1>6. sockQ' = [q \in Peer |->
            IF \E b \in A : b.host = q /\ AtSockfd(b)
            THEN sockQ[q] \union {txt} ELSE sockQ[q]]
    BY <1>2 DEF Sendto
  <1>7. sockQ \in [Peer -> SUBSET Datagram]
    BY DEF SInv, TypeOK
  <1> QED
    BY <1>5, <1>6, <1>7

(* SInv is inductive.                                                      *)
LEMMA SInvStep ==
    ASSUME SInv, Next
    PROVE  SInv'
  <1>1. PICK p \in Peer :
           \/ connect_to_listener(p)
           \/ find_peer_confirm(p)
           \/ find_peer_stdin(p)
           \/ find_peer_unblock(p)
           \/ find_peer_alarm(p)
           \/ message_loop_select(p)
           \/ handle_listenfd(p)
           \/ handle_joinfd(p)
           \/ stdin_end(p)
           \/ stdin_eof(p)
           \/ stdin_find(p)
           \/ stdin_find_confirm(p)
           \/ stdin_text(p)
           \/ user_types(p)
           \/ err_sys(p)
    BY NextCases
  <1>0. TypeOK'
    BY TypeStep DEF SInv
  <1>2. CASE connect_to_listener(p)
    <2>1. inc[p] \in Nat /\ inc' = [inc EXCEPT ![p] = inc[p] + 1]
      BY <1>2 DEF connect_to_listener, SInv, TypeOK
    <2>2. inc'[p] = inc[p] + 1 /\ \A q \in Peer : inc[q] <= inc'[q]
      BY <2>1 DEF SInv, TypeOK
    <2>3. inc[p] + 1 # CHAT_PORT
      BY <2>1 DEF CHAT_PORT
    <2>4. pc'[p] = "find" /\ \A q \in Peer \ {p} : pc'[q] = pc[q]
      BY <1>2 DEF connect_to_listener, SInv, TypeOK
    <2>5. auth_request(p, inc[p] + 1, 1) /\ UNCHANGED <<peers, sockQ>>
      BY <1>2 DEF connect_to_listener
    <2>6. inc[p] + 1 \in Nat /\ inc[p] + 1 <= inc'[p]
      BY <2>1, <2>2
    <2>7. \A q \in Peer \ {p} : inc'[q] = inc[q]
      BY <2>1 DEF SInv, TypeOK
    <2> QED
      BY <1>0, <2>2, <2>3, <2>4, <2>5, <2>6, <2>7, RequestSInv
  <1>3. CASE find_peer_confirm(p)
    BY <1>0, <1>3, ConfirmSInv DEF find_peer_confirm, Place
  <1>4. CASE find_peer_stdin(p)
    <2>1. CASE sockQ[p] = {}
      <3>1. \A q \in Peer : pc'[q] = "off" <=> pc[q] = "off"
        BY <1>4, <2>1 DEF find_peer_stdin, SInv, TypeOK
      <3> QED
        BY <1>0, <1>4, <2>1, <3>1, QuietSInv DEF find_peer_stdin
    <2>2. CASE sockQ[p] # {}
      BY <1>0, <1>4, <2>2, ExitSInv DEF find_peer_stdin
    <2> QED
      BY <2>1, <2>2
  <1>5. CASE find_peer_unblock(p)
    BY <1>0, <1>5, ConfirmSInv DEF find_peer_unblock, Place
  <1>6. CASE find_peer_alarm(p)
    <2>1. \A q \in Peer : pc'[q] = "off" <=> pc[q] = "off"
      BY <1>6 DEF find_peer_alarm, SInv, TypeOK
    <2> QED
      BY <1>0, <1>6, <2>1, QuietSInv DEF find_peer_alarm
  <1>7. CASE message_loop_select(p)
    BY <1>0, <1>7, QuietSInv DEF message_loop_select
  <1>8. CASE handle_listenfd(p)
    BY <1>0, <1>8, QuietSInv DEF handle_listenfd
  <1>9. CASE handle_joinfd(p)
    BY <1>0, <1>9, JoinAccepts, JoinSInv
  <1>10. CASE stdin_end(p)
    BY <1>0, <1>10, ExitSInv DEF stdin_end
  <1>11. CASE stdin_eof(p)
    BY <1>0, <1>11, QuietSInv DEF stdin_eof
  <1>12. CASE stdin_find(p)
    <2>1. inc[p] \in Nat /\ req[p] + 1 \in Nat
      BY DEF SInv, TypeOK
    <2>2. inc[p] # CHAT_PORT /\ inc' = inc
      BY <1>12 DEF stdin_find, ReadStdin, SInv, StartedOK
    <2>3. pc'[p] = "amfind" /\ \A q \in Peer \ {p} : pc'[q] = pc[q]
      BY <1>12 DEF stdin_find, SInv, TypeOK
    <2>4. auth_request(p, inc[p], req[p] + 1) /\ UNCHANGED <<peers, sockQ>>
      BY <1>12 DEF stdin_find
    <2>5. \A q \in Peer : inc[q] <= inc'[q]
      BY <2>2 DEF SInv, TypeOK
    <2> QED
      BY <1>0, <2>1, <2>2, <2>3, <2>4, <2>5, RequestSInv
  <1>13. CASE stdin_find_confirm(p)
    BY <1>0, <1>13, ConfirmSInv DEF stdin_find_confirm, Place
  <1>14. CASE stdin_text(p)
    <2>1. sockQ' = sockQ
      BY <1>14, TextEffect
    <2>2. \A q \in Peer : pc'[q] = "off" <=> pc[q] = "off"
      BY <1>14 DEF stdin_text, ReadStdin, SInv, TypeOK
    <2> QED
      BY <1>0, <1>14, <2>1, <2>2, QuietSInv DEF stdin_text
  <1>15. CASE user_types(p)
    BY <1>0, <1>15, QuietSInv DEF user_types
  <1>16. CASE err_sys(p)
    BY <1>0, <1>16, ExitSInv DEF err_sys
  <1> QED
    BY <1>1, <1>2, <1>3, <1>4, <1>5, <1>6, <1>7, <1>8, <1>9, <1>10, <1>11,
       <1>12, <1>13, <1>14, <1>15, <1>16

(* SInv holds in every reachable state.                                    *)
LEMMA SInvInvariant == Spec => []SInv
  <1>1. Init => SInv
    <2>1. ASSUME Init
          PROVE  TypeOK
      BY <2>1 DEF Init, TypeOK, Place
    <2> QED
      BY <2>1 DEF Init, SInv, EntriesOK, AnswersOK, RequestsOK, OffOK, StartedOK
  <1>2. SInv /\ [Next]_vars => SInv'
    <2>1. ASSUME SInv, UNCHANGED vars
          PROVE  SInv'
      BY <2>1 DEF vars, SInv, TypeOK, EntriesOK, AnswersOK, RequestsOK, OffOK, StartedOK
    <2> QED
      BY <2>1, SInvStep
  <1> QED
    BY <1>1, <1>2, PTL DEF Spec

(* No process ever finds anything but an answer on sockfd, so another      *)
(* peer's chat message never makes find_peer or am-find call err_sys.      *)
THEOREM OnlyAnswersOnSockfd == Spec => []SockfdOnlyOfc
  <1>1. SInv => SockfdOnlyOfc
    BY DEF SInv, AnswersOK, SockfdOnlyOfc
  <1> QED
    BY <1>1, SInvInvariant, PTL

-----------------------------------------------------------------------------
(***************************************************************************)
(* ConfirmedIsMutual and AcceptedIsKnown.  Both relate Answered and Lists  *)
(* of two processes; the lemmas below say how each kind of step changes    *)
(* the two relations.                                                      *)
(***************************************************************************)
LEMMA KnownSame ==
    ASSUME UNCHANGED <<inc, peers, sockQ>>, NEW x \in Peer, NEW y \in Peer
    PROVE  /\ Answered(x, y)' <=> Answered(x, y)
           /\ Lists(x, y, "CAN")' <=> Lists(x, y, "CAN")
  BY DEF Answered, Lists

(* A confirmation moves an answer from sockfd to the list.                 *)
LEMMA KnownConfirm ==
    ASSUME SInv, NEW p \in Peer, NEW next \in Place, auth_try_confirm(p, next),
           UNCHANGED inc, NEW x \in Peer, NEW y \in Peer
    PROVE  /\ Answered(x, y)' => Answered(x, y)
           /\ Answered(x, y) => Answered(x, y)' \/ (x = p /\ pc'[p] = "overrun")
           /\ Lists(x, y, "CAN")' <=> Lists(x, y, "CAN")
  <1>1. PICK d \in sockQ[p] :
               /\ sockQ' = [sockQ EXCEPT ![p] = @ \ {d}]
               /\ d \in Datagram
               /\ Confirmer(d) \in PeerEntry
               /\ AddPeer(p, Confirmer(d), next)
    BY ConfirmEffect
  <1> DEFINE e == Confirmer(d)
  <1>2. e.host = d.host /\ e.inc = d.inc /\ e.via = "OFC"
    BY DEF Confirmer
  <1> HIDE DEF e
  <1>3. /\ \A q \in Peer \ {p} : peers'[q] = peers[q] /\ pc'[q] = pc[q]
        /\ \A i \in DOMAIN peers'[p] :
               \/ peers'[p][i] = e
               \/ i \in DOMAIN peers[p] /\ peers'[p][i] = peers[p][i]
        /\ \A i \in DOMAIN peers[p] :
               i \in DOMAIN peers'[p] /\ peers'[p][i] = peers[p][i]
        /\ \/ pc'[p] = "overrun"
           \/ \E i \in DOMAIN peers'[p] : peers'[p][i] = e
    BY <1>1, AddPeerEffect DEF SInv, e
  <1>4. /\ sockQ'[p] = sockQ[p] \ {d}
        /\ \A q \in Peer \ {p} : sockQ'[q] = sockQ[q]
    BY <1>1 DEF SInv, TypeOK
  <1>5. CASE x # p
    BY <1>3, <1>4, <1>5 DEF Answered, Lists
  <1>6. CASE x = p
    <2>1. ASSUME Lists(p, y, "CAN")'
          PROVE  Lists(p, y, "CAN")
      BY <1>2, <1>3, <2>1 DEF Lists
    <2>2. ASSUME Lists(p, y, "CAN")
          PROVE  Lists(p, y, "CAN")'
      BY <1>3, <2>2 DEF Lists
    <2>3. ASSUME Answered(p, y)'
          PROVE  Answered(p, y)
      <3>1. CASE \E c \in sockQ'[p] : c.host = y /\ c.inc = inc[y]
        BY <1>4, <3>1 DEF Answered
      <3>2. CASE Lists(p, y, "OFC")'
        BY <1>1, <1>2, <1>3, <3>2 DEF Answered, Lists
      <3> QED
        BY <2>3, <3>1, <3>2 DEF Answered
    <2>4. ASSUME Answered(p, y), pc'[p] # "overrun"
          PROVE  Answered(p, y)'
      <3>1. CASE Lists(p, y, "OFC")
        BY <1>3, <3>1 DEF Answered, Lists
      <3>2. CASE \E c \in sockQ[p] : c.host = y /\ c.inc = inc[y]
        <4>1. PICK c \in sockQ[p] : c.host = y /\ c.inc = inc[y]
          BY <3>2
        <4>2. CASE c = d
          BY <1>2, <1>3, <2>4, <4>1, <4>2 DEF Answered, Lists
        <4>3. CASE c # d
          BY <1>4, <4>1, <4>3 DEF Answered
        <4> QED
          BY <4>2, <4>3
      <3> QED
        BY <2>4, <3>1, <3>2 DEF Answered
    <2> QED
      BY <1>6, <2>1, <2>2, <2>3, <2>4
  <1> QED
    BY <1>5, <1>6

(* The end of a process takes its list and its answers away.               *)
LEMMA KnownExit ==
    ASSUME SInv, NEW p \in Peer, Exit(p), NEW x \in Peer, NEW y \in Peer
    PROVE  /\ x = p => ~Answered(x, y)' /\ ~Lists(x, y, "CAN")'
           /\ x # p => /\ Answered(x, y)' <=> Answered(x, y)
                       /\ Lists(x, y, "CAN")' <=> Lists(x, y, "CAN")
  <1>1. /\ \A q \in Peer \ {p} : peers'[q] = peers[q] /\ sockQ'[q] = sockQ[q]
        /\ peers'[p] = <<>> /\ sockQ'[p] = {} /\ inc' = inc
    BY DEF SInv, TypeOK, Exit
  <1>2. CASE x = p
    BY <1>1, <1>2 DEF Answered, Lists
  <1>3. CASE x # p
    BY <1>1, <1>3 DEF Answered, Lists
  <1> QED
    BY <1>2, <1>3

(* A new process is unknown to all and knows nobody.                       *)
LEMMA KnownStart ==
    ASSUME SInv, NEW p \in Peer, connect_to_listener(p), NEW x \in Peer, NEW y \in Peer
    PROVE  /\ x = p \/ y = p => ~Answered(x, y)' /\ ~Lists(x, y, "CAN")'
           /\ x # p /\ y # p => /\ Answered(x, y)' <=> Answered(x, y)
                                /\ Lists(x, y, "CAN")' <=> Lists(x, y, "CAN")
  <1>1. peers' = peers /\ sockQ' = sockQ /\ peers[p] = <<>> /\ sockQ[p] = {}
    BY DEF connect_to_listener, SInv, OffOK
  <1>2. inc[p] \in Nat /\ inc'[p] = inc[p] + 1 /\ \A q \in Peer \ {p} : inc'[q] = inc[q]
    BY DEF connect_to_listener, SInv, TypeOK
  <1>3. CASE x = p
    BY <1>1, <1>3 DEF Answered, Lists
  <1>4. CASE y = p
    <2>1. ASSUME NEW i \in DOMAIN peers[x], peers[x][i].host = p
          PROVE  peers[x][i].inc # inc'[p]
      <3>1. peers[x][i] \in PeerEntry
        BY DEF SInv, TypeOK
      <3>2. peers[x][i].inc \in Nat /\ peers[x][i].inc <= inc[p]
        BY <2>1, <3>1 DEF PeerEntry, SInv, EntriesOK
      <3> QED
        BY <1>2, <3>2
    <2>2. ASSUME NEW d \in sockQ[x], d.host = p
          PROVE  d.inc # inc'[p]
      <3>1. d \in Datagram
        BY DEF SInv, TypeOK
      <3>2. d.inc \in Nat /\ d.inc <= inc[p]
        BY <2>2, <3>1 DEF Datagram, SInv, AnswersOK
      <3> QED
        BY <1>2, <3>2
    <2> QED
      BY <1>1, <1>4, <2>1, <2>2 DEF Answered, Lists
  <1>5. CASE x # p /\ y # p
    BY <1>1, <1>2, <1>5 DEF Answered, Lists
  <1> QED
    BY <1>3, <1>4, <1>5

(* The acceptance of a request of host z records z and may give z an       *)
(* answer: it does without loss, if z is the process that asked.           *)
LEMMA KnownJoin ==
    ASSUME SInv, NEW p \in Peer, Accepts(p)
    PROVE  \E z \in Peer :
             /\ \A x, y \in Peer :
                   x # z \/ y # p => (Answered(x, y)' <=> Answered(x, y))
             /\ \A x, y \in Peer :
                   x # p \/ y # z => (Lists(x, y, "CAN")' <=> Lists(x, y, "CAN"))
             /\ Answered(z, p) => Answered(z, p)'
             /\ Lists(p, z, "CAN") => Lists(p, z, "CAN")'
             /\ \/ Answered(z, p)' => Answered(z, p)
                \/ Lists(p, z, "CAN")'
                \/ pc'[p] = "overrun"
             /\ \/ Lists(p, z, "CAN")' => Lists(p, z, "CAN")
                \/ Answered(z, p)'
                \/ Lossy
                \/ pc[z] \notin Running
  <1> DEFINE ofc(d) == [body |-> "OFC", host |-> p, port |-> CHAT_PORT,
                        inc |-> inc[p], n |-> d.n]
  <1>1. PICK d \in joinQ[p] :
            /\ d \in Datagram
            /\ joinQ' = [joinQ EXCEPT ![p] = @ \ {d}]
            /\ Requester(d) \in PeerEntry
            /\ AddPeer(p, Requester(d), "loop")
            /\ \A q \in Peer :
                  \/ sockQ'[q] = sockQ[q]
                  \/ /\ sockQ'[q] = sockQ[q] \union {ofc(d)}
                     /\ q = d.host /\ d.inc = inc[q] /\ pc[q] \in Running
            /\ ~Lossy /\ d.inc = inc[d.host] /\ pc[d.host] \in Running
                  => ofc(d) \in sockQ'[d.host]
    BY JoinEffect
  <1>2. inc' = inc
    BY DEF Accepts
  <1> DEFINE e == Requester(d)
             c == ofc(d)
             z == d.host
  <1>3. e.host = z /\ e.inc = d.inc /\ e.via = "CAN" /\ c.host = p /\ c.inc = inc[p]
    BY DEF Requester
  <1>4. z \in Peer
    BY <1>1 DEF Datagram
  <1>5. /\ \A q \in Peer \ {p} : peers'[q] = peers[q] /\ pc'[q] = pc[q]
        /\ \A i \in DOMAIN peers'[p] :
               \/ peers'[p][i] = e
               \/ i \in DOMAIN peers[p] /\ peers'[p][i] = peers[p][i]
        /\ \A i \in DOMAIN peers[p] :
               i \in DOMAIN peers'[p] /\ peers'[p][i] = peers[p][i]
        /\ \/ pc'[p] = "overrun"
           \/ \E i \in DOMAIN peers'[p] : peers'[p][i] = e
    BY <1>1, AddPeerEffect DEF SInv, Place
  <1>6. \A q \in Peer : \/ sockQ'[q] = sockQ[q]
                        \/ /\ sockQ'[q] = sockQ[q] \union {c}
                           /\ q = z /\ d.inc = inc[q]
    BY <1>1
  <1>7. ~Lossy /\ d.inc = inc[z] /\ pc[z] \in Running => c \in sockQ'[z]
    BY <1>1
  <1> HIDE DEF e, c, z
  <1>8. \A x, y \in Peer : Lists(x, y, "OFC")' <=> Lists(x, y, "OFC")
    <2> SUFFICES ASSUME NEW x \in Peer, NEW y \in Peer
                 PROVE  Lists(x, y, "OFC")' <=> Lists(x, y, "OFC")
      OBVIOUS
    <2>1. CASE x # p
      BY <1>2, <1>5, <2>1 DEF Lists
    <2>2. CASE x = p
      <3>1. Lists(x, y, "OFC") => Lists(x, y, "OFC")'
        BY <1>2, <1>5, <2>2 DEF Lists
      <3>2. Lists(x, y, "OFC")' => Lists(x, y, "OFC")
        BY <1>2, <1>3, <1>5, <2>2 DEF Lists
      <3> QED
        BY <3>1, <3>2
    <2> QED
      BY <2>1, <2>2
  <1>9. \A x, y \in Peer : Answered(x, y) => Answered(x, y)'
    BY <1>2, <1>6, <1>8 DEF Answered
  <1>10. \A x, y \in Peer : x # z \/ y # p => (Answered(x, y)' => Answered(x, y))
    BY <1>2, <1>3, <1>6, <1>8 DEF Answered
  <1>11. \A x, y \in Peer : Lists(x, y, "CAN") => Lists(x, y, "CAN")'
    <2> SUFFICES ASSUME NEW x \in Peer, NEW y \in Peer, Lists(x, y, "CAN")
                 PROVE  Lists(x, y, "CAN")'
      OBVIOUS
    <2>1. CASE x # p
      BY <1>2, <1>5, <2>1 DEF Lists
    <2>2. CASE x = p
      BY <1>2, <1>5, <2>2 DEF Lists
    <2> QED
      BY <2>1, <2>2
  <1>12. \A x, y \in Peer : x # p \/ y # z => (Lists(x, y, "CAN")' => Lists(x, y, "CAN"))
    <2> SUFFICES ASSUME NEW x \in Peer, NEW y \in Peer, x # p \/ y # z, Lists(x, y, "CAN")'
                 PROVE  Lists(x, y, "CAN")
      OBVIOUS
    <2>1. CASE x # p
      BY <1>2, <1>5, <2>1 DEF Lists
    <2>2. CASE x = p /\ y # z
      BY <1>2, <1>3, <1>5, <2>2 DEF Lists
    <2> QED
      BY <2>1, <2>2
  <1>13. \/ Answered(z, p)' => Answered(z, p)
         \/ Lists(p, z, "CAN")'
         \/ pc'[p] = "overrun"
    <2>1. CASE sockQ'[z] = sockQ[z]
      BY <1>2, <1>4, <1>8, <2>1 DEF Answered
    <2>2. CASE d.inc = inc[z]
      BY <1>2, <1>3, <1>5, <2>2 DEF Lists
    <2> QED
      BY <1>4, <1>6, <2>1, <2>2
  <1>14. \/ Lists(p, z, "CAN")' => Lists(p, z, "CAN")
         \/ Answered(z, p)'
         \/ Lossy
         \/ pc[z] \notin Running
    <2>1. CASE d.inc = inc[z]
      <3>1. ASSUME c \in sockQ'[z]
            PROVE  Answered(z, p)'
        BY <1>2, <1>3, <3>1 DEF Answered
      <3> QED
        BY <1>7, <2>1, <3>1
    <2>2. CASE d.inc # inc[z]
      BY <1>2, <1>3, <1>5, <2>2 DEF Lists
    <2> QED
      BY <2>1, <2>2
  <1> QED
    BY <1>4, <1>9, <1>10, <1>11, <1>12, <1>13, <1>14

(* ConfirmedIsMutual needs one more fact: bind_listener opens joinfd after *)
(* find_peer, so a process that still searches has accepted nobody and     *)
(* cannot start to listen with a promise it does not keep.                 *)
Searching == {"find", "blocked"}

QuietOK == \A p, q \in Peer : pc[q] \in Searching => ~Answered(p, q)

KInv == QuietOK /\ ConfirmedIsMutual /\ AcceptedIsKnown

(* Steps that leave lists and answers alone.                               *)
LEMMA KnownSameStep ==
    ASSUME KInv, UNCHANGED <<inc, peers, sockQ>>,
           \A q \in Peer : /\ pc'[q] \in Listening => pc[q] \in Listening \union Searching
                           /\ pc'[q] \in Searching => pc[q] \in Searching
                           /\ pc'[q] \in Running => pc[q] \in Running
    PROVE  KInv'
  <1>1. \A x, y \in Peer : /\ Answered(x, y)' <=> Answered(x, y)
                           /\ Lists(x, y, "CAN")' <=> Lists(x, y, "CAN")
    BY KnownSame
  <1>2. QuietOK'
    BY <1>1 DEF KInv, QuietOK
  <1>3. ConfirmedIsMutual'
    BY <1>1 DEF KInv, QuietOK, ConfirmedIsMutual
  <1>4. AcceptedIsKnown'
    BY <1>1 DEF KInv, AcceptedIsKnown
  <1> QED
    BY <1>2, <1>3, <1>4 DEF KInv

(* Steps that confirm an answer.                                           *)
LEMMA KnownConfirmStep ==
    ASSUME SInv, KInv, NEW p \in Peer, NEW next \in Place, auth_try_confirm(p, next),
           UNCHANGED inc,
           \/ pc[p] \in Searching /\ next \in Searching
           \/ pc[p] \in Listening /\ next \in Listening
    PROVE  KInv'
  <1>1. \A x, y \in Peer :
           /\ Answered(x, y)' => Answered(x, y)
           /\ Answered(x, y) => Answered(x, y)' \/ (x = p /\ pc'[p] = "overrun")
           /\ Lists(x, y, "CAN")' <=> Lists(x, y, "CAN")
    BY KnownConfirm
  <1>2. /\ \A q \in Peer \ {p} : pc'[q] = pc[q]
        /\ pc'[p] = next \/ pc'[p] = "overrun"
    BY ConfirmEffect, AddPeerEffect DEF SInv
  <1>3. \A q \in Peer : /\ pc'[q] \in Listening => pc[q] \in Listening
                        /\ pc'[q] \in Searching => pc[q] \in Searching
                        /\ pc'[q] \in Running => pc[q] \in Running
    BY <1>2 DEF Listening, Searching, Running
  <1>4. QuietOK'
    BY <1>1, <1>3 DEF KInv, QuietOK
  <1>5. ConfirmedIsMutual'
    BY <1>1, <1>3 DEF KInv, ConfirmedIsMutual
  <1>6. AcceptedIsKnown'
    <2>1. "overrun" \notin Running
      BY DEF Running
    <2> QED
      BY <1>1, <1>3, <2>1 DEF KInv, AcceptedIsKnown
  <1> QED
    BY <1>4, <1>5, <1>6 DEF KInv

(* The end of a process.                                                   *)
LEMMA KnownExitStep ==
    ASSUME SInv, KInv, NEW p \in Peer, Exit(p)
    PROVE  KInv'
  <1>1. \A x, y \in Peer :
           /\ x = p => ~Answered(x, y)' /\ ~Lists(x, y, "CAN")'
           /\ x # p => /\ Answered(x, y)' <=> Answered(x, y)
                       /\ Lists(x, y, "CAN")' <=> Lists(x, y, "CAN")
    BY KnownExit
  <1>2. /\ \A q \in Peer \ {p} : pc'[q] = pc[q]
        /\ pc'[p] = "off"
    BY DEF Exit, SInv, TypeOK
  <1>3. "off" \notin Listening /\ "off" \notin Searching /\ "off" \notin Running
    BY DEF Listening, Searching, Running
  <1>4. QuietOK'
    BY <1>1, <1>2, <1>3 DEF KInv, QuietOK
  <1>5. ConfirmedIsMutual'
    BY <1>1, <1>2, <1>3 DEF KInv, ConfirmedIsMutual
  <1>6. AcceptedIsKnown'
    BY <1>1, <1>2, <1>3 DEF KInv, AcceptedIsKnown
  <1> QED
    BY <1>4, <1>5, <1>6 DEF KInv

(* The start of a process.                                                 *)
LEMMA KnownStartStep ==
    ASSUME SInv, KInv, NEW p \in Peer, connect_to_listener(p)
    PROVE  KInv'
  <1>1. \A x, y \in Peer :
           /\ x = p \/ y = p => ~Answered(x, y)' /\ ~Lists(x, y, "CAN")'
           /\ x # p /\ y # p => /\ Answered(x, y)' <=> Answered(x, y)
                                /\ Lists(x, y, "CAN")' <=> Lists(x, y, "CAN")
    BY KnownStart
  <1>2. \A q \in Peer \ {p} : pc'[q] = pc[q]
    BY DEF connect_to_listener, SInv, TypeOK
  <1>3. QuietOK'
    BY <1>1, <1>2 DEF KInv, QuietOK
  <1>4. ConfirmedIsMutual'
    BY <1>1, <1>2 DEF KInv, ConfirmedIsMutual
  <1>5. AcceptedIsKnown'
    BY <1>1, <1>2 DEF KInv, AcceptedIsKnown
  <1> QED
    BY <1>3, <1>4, <1>5 DEF KInv

(* The acceptance of a request.                                            *)
LEMMA KnownJoinStep ==
    ASSUME SInv, KInv, NEW p \in Peer, Accepts(p)
    PROVE  KInv'
  <1>1. PICK z \in Peer :
             /\ \A x, y \in Peer :
                   x # z \/ y # p => (Answered(x, y)' <=> Answered(x, y))
             /\ \A x, y \in Peer :
                   x # p \/ y # z => (Lists(x, y, "CAN")' <=> Lists(x, y, "CAN"))
             /\ Answered(z, p) => Answered(z, p)'
             /\ Lists(p, z, "CAN") => Lists(p, z, "CAN")'
             /\ \/ Answered(z, p)' => Answered(z, p)
                \/ Lists(p, z, "CAN")'
                \/ pc'[p] = "overrun"
             /\ \/ Lists(p, z, "CAN")' => Lists(p, z, "CAN")
                \/ Answered(z, p)'
                \/ Lossy
                \/ pc[z] \notin Running
    BY KnownJoin
  <1>2. /\ \A q \in Peer \ {p} : pc'[q] = pc[q]
        /\ pc[p] = "loop"
        /\ pc'[p] = "loop" \/ pc'[p] = "overrun"
    BY JoinEffect, AddPeerEffect DEF Accepts, SInv, Place
  <1>3. \A q \in Peer : /\ pc'[q] \in Listening => pc[q] \in Listening
                        /\ pc'[q] \in Searching => pc[q] \in Searching /\ q # p
                        /\ pc'[q] \in Running => pc[q] \in Running
    BY <1>2 DEF Listening, Searching, Running
  <1>4. "overrun" \notin Listening
    BY DEF Listening
  <1>5. QuietOK'
    BY <1>1, <1>3 DEF KInv, QuietOK
  <1>6. ConfirmedIsMutual'
    <2> SUFFICES ASSUME NEW x \in Peer, NEW y \in Peer,
                        pc'[x] \in Running, pc'[y] \in Listening, Answered(x, y)'
                 PROVE  Lists(y, x, "CAN")'
      BY DEF ConfirmedIsMutual
    <2>1. CASE Answered(x, y)
      <3>1. Lists(y, x, "CAN")
        BY <1>3, <2>1 DEF KInv, ConfirmedIsMutual
      <3> QED
        BY <1>1, <3>1
    <2>2. CASE ~Answered(x, y)
      <3>1. x = z /\ y = p
        BY <1>1, <2>2
      <3> QED
        BY <1>1, <1>4, <2>2, <3>1
    <2> QED
      BY <2>1, <2>2
  <1>7. AcceptedIsKnown'
    <2> SUFFICES ASSUME ~Lossy, NEW x \in Peer, NEW y \in Peer,
                        pc'[x] \in Running, pc'[y] \in Running, Lists(y, x, "CAN")'
                 PROVE  Answered(x, y)'
      BY DEF AcceptedIsKnown
    <2>1. CASE Lists(y, x, "CAN")
      <3>1. Answered(x, y)
        BY <1>3, <2>1 DEF KInv, AcceptedIsKnown
      <3> QED
        BY <1>1, <3>1
    <2>2. CASE ~Lists(y, x, "CAN")
      <3>1. y = p /\ x = z
        BY <1>1, <2>2
      <3> QED
        BY <1>1, <1>3, <2>2, <3>1
    <2> QED
      BY <2>1, <2>2
  <1> QED
    BY <1>5, <1>6, <1>7 DEF KInv

(* KInv is inductive relative to SInv.                                     *)
LEMMA KInvStep ==
    ASSUME SInv, KInv, Next
    PROVE  KInv'
  <1>1. PICK p \in Peer :
           \/ connect_to_listener(p)
           \/ find_peer_confirm(p)
           \/ find_peer_stdin(p)
           \/ find_peer_unblock(p)
           \/ find_peer_alarm(p)
           \/ message_loop_select(p)
           \/ handle_listenfd(p)
           \/ handle_joinfd(p)
           \/ stdin_end(p)
           \/ stdin_eof(p)
           \/ stdin_find(p)
           \/ stdin_find_confirm(p)
           \/ stdin_text(p)
           \/ user_types(p)
           \/ err_sys(p)
    BY NextCases
  <1> DEFINE Stays(q) == /\ pc'[q] \in Listening => pc[q] \in Listening \union Searching
                         /\ pc'[q] \in Searching => pc[q] \in Searching
                         /\ pc'[q] \in Running => pc[q] \in Running
  <1>2. CASE connect_to_listener(p)
    BY <1>2, KnownStartStep
  <1>3. CASE find_peer_confirm(p)
    BY <1>3, KnownConfirmStep DEF find_peer_confirm, Place, Searching
  <1>4. CASE find_peer_stdin(p)
    <2>1. CASE sockQ[p] = {}
      <3>1. \A q \in Peer : Stays(q)
        BY <1>4, <2>1 DEF find_peer_stdin, SInv, TypeOK, Searching, Listening, Running
      <3> QED
        BY <1>4, <2>1, <3>1, KnownSameStep DEF find_peer_stdin
    <2>2. CASE sockQ[p] # {}
      BY <1>4, <2>2, KnownExitStep DEF find_peer_stdin
    <2> QED
      BY <2>1, <2>2
  <1>5. CASE find_peer_unblock(p)
    BY <1>5, KnownConfirmStep DEF find_peer_unblock, Place, Searching
  <1>6. CASE find_peer_alarm(p)
    <2>1. \A q \in Peer : Stays(q)
      BY <1>6 DEF find_peer_alarm, SInv, TypeOK, Searching, Listening, Running
    <2> QED
      BY <1>6, <2>1, KnownSameStep DEF find_peer_alarm
  <1>7. CASE message_loop_select(p)
    BY <1>7, KnownSameStep DEF message_loop_select
  <1>8. CASE handle_listenfd(p)
    BY <1>8, KnownSameStep DEF handle_listenfd
  <1>9. CASE handle_joinfd(p)
    BY <1>9, JoinAccepts, KnownJoinStep
  <1>10. CASE stdin_end(p)
    BY <1>10, KnownExitStep DEF stdin_end
  <1>11. CASE stdin_eof(p)
    BY <1>11, KnownSameStep DEF stdin_eof
  <1>12. CASE stdin_find(p)
    <2>1. \A q \in Peer : Stays(q)
      BY <1>12 DEF stdin_find, ReadStdin, SInv, TypeOK, Searching, Listening, Running
    <2> QED
      BY <1>12, <2>1, KnownSameStep DEF stdin_find
  <1>13. CASE stdin_find_confirm(p)
    BY <1>13, KnownConfirmStep DEF stdin_find_confirm, Place, Listening
  <1>14. CASE stdin_text(p)
    <2>1. sockQ' = sockQ
      BY <1>14, TextEffect
    <2>2. \A q \in Peer : Stays(q)
      BY <1>14 DEF stdin_text, ReadStdin, SInv, TypeOK, Searching, Listening, Running
    <2> QED
      BY <1>14, <2>1, <2>2, KnownSameStep DEF stdin_text
  <1>15. CASE user_types(p)
    BY <1>15, KnownSameStep DEF user_types
  <1>16. CASE err_sys(p)
    BY <1>16, KnownExitStep DEF err_sys
  <1> QED
    BY <1>1, <1>2, <1>3, <1>4, <1>5, <1>6, <1>7, <1>8, <1>9, <1>10, <1>11,
       <1>12, <1>13, <1>14, <1>15, <1>16

(* KInv holds in every reachable state.                                    *)
LEMMA KInvInvariant == Spec => []KInv
  <1>1. Init => KInv
    BY DEF Init, KInv, QuietOK, ConfirmedIsMutual, AcceptedIsKnown, Running, Searching
  <1>2. SInv /\ KInv /\ [Next]_vars => KInv'
    <2>1. ASSUME KInv, UNCHANGED vars
          PROVE  KInv'
      <3>1. UNCHANGED <<inc, peers, sockQ>> /\ pc' = pc
        BY <2>1 DEF vars
      <3> QED
        BY <2>1, <3>1, KnownSameStep
    <2> QED
      BY <2>1, KInvStep
  <1> QED
    BY <1>1, <1>2, SInvInvariant, PTL DEF Spec

(* A peer that answered OFC and still listens lists the process it         *)
(* answered, whatever is lost, late or restarted in between.               *)
THEOREM ConfirmedPeersAreMutual == Spec => []ConfirmedIsMutual
  <1>1. KInv => ConfirmedIsMutual
    BY DEF KInv
  <1> QED
    BY <1>1, KInvInvariant, PTL

(* Without loss an accepted requester knows the peer that accepted it or   *)
(* has its answer unread on sockfd.                                        *)
THEOREM AcceptedPeersAreKnown == Spec => []AcceptedIsKnown
  <1>1. KInv => AcceptedIsKnown
    BY DEF KInv
  <1> QED
    BY <1>1, KInvInvariant, PTL

-----------------------------------------------------------------------------
(***************************************************************************)
(* StartupListsOnce.  As long as every process has sent one request, that  *)
(* request passes, at each host it reaches, through four places, one after *)
(* the other; and it reaches only hosts that have sent theirs before, so   *)
(* nothing ever passes from p to q and from q to p.                        *)
(***************************************************************************)
FirstOnly == \A p \in Peer : inc[p] <= 1 /\ req[p] <= 1

(* p's request waits at q, is recorded by q, is answered by q with the     *)
(* answer waiting at p, and the answer is recorded by p.                   *)
Waiting(p, q) == \E d \in joinQ[q] : d.host = p

Heard(p, q) == \E i \in DOMAIN peers[q] : peers[q][i].host = p /\ peers[q][i].via = "CAN"

Replied(p, q) == \E d \in sockQ[p] : d.host = q

Confirmed(p, q) == \E i \in DOMAIN peers[p] : peers[p][i].host = q /\ peers[p][i].via = "OFC"

Reaches(p, q) == Waiting(p, q) \/ Heard(p, q) \/ Replied(p, q) \/ Confirmed(p, q)

OneWay == \A p, q \in Peer : Reaches(p, q) => inc[p] = 1 /\ inc[q] = 1 /\ ~Reaches(q, p)

InOrder ==
    \A p, q \in Peer :
        /\ Waiting(p, q) => ~Heard(p, q) /\ ~Replied(p, q) /\ ~Confirmed(p, q)
        /\ Replied(p, q) => ~Confirmed(p, q)

ListedOnce ==
    \A p \in Peer : \A i, j \in DOMAIN peers[p] : peers[p][i].host = peers[p][j].host => i = j

FirstMessages == \A p \in Peer : \A d \in joinQ[p] \union sockQ[p] : d.n = 1 /\ d.inc = 1

OnceOK == OneWay /\ InOrder /\ ListedOnce /\ FirstMessages

(* How inc and req begin.                                                  *)
CountsOK == \A p \in Peer : (inc[p] = 0 => req[p] = 0) /\ (pc[p] # "off" => req[p] # 0)

OInv == CountsOK /\ (FirstOnly => OnceOK)

(* A list without e's host lists nobody twice with e.                      *)
LEMMA AddPeerOnce ==
    ASSUME TypeOK, NEW p \in Peer, NEW e \in PeerEntry, NEW next \in Place,
           AddPeer(p, e, next),
           \A i \in DOMAIN peers[p] : peers[p][i].host # e.host,
           \A i, j \in DOMAIN peers[p] : peers[p][i].host = peers[p][j].host => i = j
    PROVE  \A i, j \in DOMAIN peers'[p] : peers'[p][i].host = peers'[p][j].host => i = j
  <1>1. peers[p] \in Seq(PeerEntry)
    BY DEF TypeOK
  <1>2. CASE Len(peers[p]) < MAX_PEERS
    <2>1. peers'[p] = Append(peers[p], e)
      BY <1>2 DEF AddPeer, TypeOK
    <2>2. \A i \in DOMAIN peers'[p] :
              \/ i = Len(peers[p]) + 1 /\ peers'[p][i] = e
              \/ i \in DOMAIN peers[p] /\ peers'[p][i] = peers[p][i]
      BY <1>1, <2>1
    <2> QED
      BY <2>2
  <1>3. CASE ~(Len(peers[p]) < MAX_PEERS)
    BY <1>3 DEF AddPeer
  <1> QED
    BY <1>2, <1>3

(* Where nothing is added, nothing goes wrong.                             *)
LEMMA OnceShrinks ==
    ASSUME OnceOK, UNCHANGED inc,
           \A q \in Peer : /\ joinQ'[q] \subseteq joinQ[q]
                           /\ sockQ'[q] \subseteq sockQ[q]
                           /\ peers'[q] = peers[q] \/ peers'[q] = <<>>
    PROVE  OnceOK'
  <1>1. \A p, q \in Peer : /\ Waiting(p, q)' => Waiting(p, q)
                           /\ Heard(p, q)' => Heard(p, q)
                           /\ Replied(p, q)' => Replied(p, q)
                           /\ Confirmed(p, q)' => Confirmed(p, q)
    BY DEF Waiting, Heard, Replied, Confirmed
  <1>2. OneWay'
    BY <1>1 DEF OnceOK, OneWay, Reaches
  <1>3. InOrder'
    BY <1>1 DEF OnceOK, InOrder
  <1>4. ListedOnce'
    BY DEF OnceOK, ListedOnce
  <1>5. FirstMessages'
    BY DEF OnceOK, FirstMessages
  <1> QED
    BY <1>2, <1>3, <1>4, <1>5 DEF OnceOK

(* An answer is recorded: it was there once, and its sender not listed.    *)
LEMMA OnceConfirm ==
    ASSUME SInv, OnceOK, NEW p \in Peer, NEW next \in Place, auth_try_confirm(p, next),
           UNCHANGED <<inc, joinQ>>
    PROVE  OnceOK'
  <1>1. PICK d \in sockQ[p] :
               /\ sockQ' = [sockQ EXCEPT ![p] = @ \ {d}]
               /\ d \in Datagram
               /\ Confirmer(d) \in PeerEntry
               /\ AddPeer(p, Confirmer(d), next)
    BY ConfirmEffect
  <1> DEFINE e == Confirmer(d)
             z == d.host
  <1>2. e.host = z /\ e.via = "OFC" /\ z \in Peer
    BY <1>1 DEF Confirmer, Datagram
  <1>3. /\ \A q \in Peer \ {p} : peers'[q] = peers[q]
        /\ \A i \in DOMAIN peers'[p] :
               \/ peers'[p][i] = e
               \/ i \in DOMAIN peers[p] /\ peers'[p][i] = peers[p][i]
    BY <1>1, AddPeerEffect DEF SInv
  <1>4. /\ sockQ'[p] = sockQ[p] \ {d}
        /\ \A q \in Peer \ {p} : sockQ'[q] = sockQ[q]
    BY <1>1 DEF SInv, TypeOK
  <1>5. ~Replied(p, z)'
    <2>1. ASSUME NEW c \in sockQ[p], c.host = z
          PROVE  c = d
      <3>1. c \in Datagram /\ c.body = "OFC" /\ c.port = CHAT_PORT /\ c.inc = 1 /\ c.n = 1
        BY DEF SInv, TypeOK, AnswersOK, OnceOK, FirstMessages
      <3>2. d \in Datagram /\ d.body = "OFC" /\ d.port = CHAT_PORT /\ d.inc = 1 /\ d.n = 1
        BY <1>1 DEF SInv, TypeOK, AnswersOK, OnceOK, FirstMessages
      <3> QED
        BY <2>1, <3>1, <3>2 DEF Datagram
    <2> QED
      BY <1>4, <2>1 DEF Replied
  <1>6. Replied(p, z)
    BY DEF Replied
  <1>7. \A i \in DOMAIN peers[p] : peers[p][i].host # e.host
    <2> SUFFICES ASSUME NEW i \in DOMAIN peers[p], peers[p][i].host = z
                 PROVE  FALSE
      BY <1>2
    <2>1. peers[p][i] \in PeerEntry
      BY DEF SInv, TypeOK
    <2>2. CASE peers[p][i].via = "OFC"
      BY <1>2, <1>6, <2>2 DEF Confirmed, OnceOK, InOrder
    <2>3. CASE peers[p][i].via = "CAN"
      <3>1. Reaches(z, p)
        BY <2>3 DEF Heard, Reaches
      <3> QED
        BY <1>2, <1>6, <3>1 DEF OnceOK, OneWay, Reaches
    <2> QED
      BY <2>1, <2>2, <2>3 DEF PeerEntry
  <1>8. ListedOnce'
    <2>1. \A i, j \in DOMAIN peers'[p] : peers'[p][i].host = peers'[p][j].host => i = j
      BY <1>1, <1>7, AddPeerOnce DEF SInv, OnceOK, ListedOnce
    <2> QED
      BY <1>3, <2>1 DEF OnceOK, ListedOnce
  <1> HIDE DEF e, z
  <1>9. \A x, y \in Peer : /\ Waiting(x, y)' => Waiting(x, y)
                           /\ Heard(x, y)' => Heard(x, y)
                           /\ Replied(x, y)' => Replied(x, y)
                           /\ Confirmed(x, y)' => Confirmed(x, y) \/ (x = p /\ y = z)
    <2> SUFFICES ASSUME NEW x \in Peer, NEW y \in Peer
                 PROVE  /\ Waiting(x, y)' => Waiting(x, y)
                        /\ Heard(x, y)' => Heard(x, y)
                        /\ Replied(x, y)' => Replied(x, y)
                        /\ Confirmed(x, y)' => Confirmed(x, y) \/ (x = p /\ y = z)
      OBVIOUS
    <2>1. Waiting(x, y)' => Waiting(x, y)
      BY DEF Waiting
    <2>2. Heard(x, y)' => Heard(x, y)
      BY <1>2, <1>3 DEF Heard
    <2>3. Replied(x, y)' => Replied(x, y)
      BY <1>4 DEF Replied
    <2>4. Confirmed(x, y)' => Confirmed(x, y) \/ (x = p /\ y = z)
      BY <1>2, <1>3 DEF Confirmed
    <2> QED
      BY <2>1, <2>2, <2>3, <2>4
  <1>10. \A x, y \in Peer : Reaches(x, y)' => Reaches(x, y)
    BY <1>6, <1>9 DEF Reaches
  <1>11. OneWay'
    BY <1>10 DEF OnceOK, OneWay
  <1>12. InOrder'
    BY <1>2, <1>5, <1>6, <1>9 DEF OnceOK, InOrder
  <1>13. FirstMessages'
    BY <1>4 DEF OnceOK, FirstMessages
  <1> QED
    BY <1>8, <1>11, <1>12, <1>13 DEF OnceOK

(* A request is accepted: it waited there once, and its sender was not     *)
(* listed, nor had it answered.                                            *)
LEMMA OnceAccept ==
    ASSUME SInv, OnceOK, NEW p \in Peer, Accepts(p)
    PROVE  OnceOK'
  <1> DEFINE ofc(c) == [body |-> "OFC", host |-> p, port |-> CHAT_PORT,
                        inc |-> inc[p], n |-> c.n]
  <1>1. PICK d \in joinQ[p] :
            /\ d \in Datagram
            /\ joinQ' = [joinQ EXCEPT ![p] = @ \ {d}]
            /\ Requester(d) \in PeerEntry
            /\ AddPeer(p, Requester(d), "loop")
            /\ \A q \in Peer :
                  \/ sockQ'[q] = sockQ[q]
                  \/ /\ sockQ'[q] = sockQ[q] \union {ofc(d)}
                     /\ q = d.host /\ d.inc = inc[q] /\ pc[q] \in Running
    BY JoinEffect
  <1>2. inc' = inc
    BY DEF Accepts
  <1> DEFINE e == Requester(d)
             z == d.host
             answer == ofc(d)
  <1>3. e.host = z /\ e.via = "CAN" /\ z \in Peer /\ answer.host = p
    BY <1>1 DEF Requester, Datagram
  <1>4. /\ \A q \in Peer \ {p} : peers'[q] = peers[q]
        /\ \A i \in DOMAIN peers'[p] :
               \/ peers'[p][i] = e
               \/ i \in DOMAIN peers[p] /\ peers'[p][i] = peers[p][i]
    BY <1>1, AddPeerEffect DEF SInv, Place
  <1>5. /\ joinQ'[p] = joinQ[p] \ {d}
        /\ \A q \in Peer \ {p} : joinQ'[q] = joinQ[q]
    BY <1>1 DEF SInv, TypeOK
  <1>6. ~Waiting(z, p)'
    <2>1. ASSUME NEW c \in joinQ[p], c.host = z
          PROVE  c = d
      <3>1. c \in Datagram /\ c.body = "CAN" /\ c.port = c.inc /\ c.inc = 1 /\ c.n = 1
        BY DEF SInv, TypeOK, RequestsOK, OnceOK, FirstMessages
      <3>2. d \in Datagram /\ d.body = "CAN" /\ d.port = d.inc /\ d.inc = 1 /\ d.n = 1
        BY <1>1 DEF SInv, TypeOK, RequestsOK, OnceOK, FirstMessages
      <3> QED
        BY <2>1, <3>1, <3>2 DEF Datagram
    <2> QED
      BY <1>5, <2>1 DEF Waiting
  <1>7. Waiting(z, p)
    BY DEF Waiting
  <1>8. inc[p] = 1 /\ d.n = 1
    BY <1>3, <1>7 DEF OnceOK, OneWay, Reaches, FirstMessages
  <1>9. \A i \in DOMAIN peers[p] : peers[p][i].host # e.host
    <2> SUFFICES ASSUME NEW i \in DOMAIN peers[p], peers[p][i].host = z
                 PROVE  FALSE
      BY <1>3
    <2>1. peers[p][i] \in PeerEntry
      BY DEF SInv, TypeOK
    <2>2. CASE peers[p][i].via = "CAN"
      <3>1. Heard(z, p)
        BY <2>2 DEF Heard
      <3> QED
        BY <1>3, <1>7, <3>1 DEF OnceOK, InOrder
    <2>3. CASE peers[p][i].via = "OFC"
      <3>1. Reaches(p, z)
        BY <2>3 DEF Confirmed, Reaches
      <3> QED
        BY <1>3, <1>7, <3>1 DEF OnceOK, OneWay, Reaches
    <2> QED
      BY <2>1, <2>2, <2>3 DEF PeerEntry
  <1>10. ListedOnce'
    <2>1. "loop" \in Place
      BY DEF Place
    <2>2. \A i, j \in DOMAIN peers'[p] : peers'[p][i].host = peers'[p][j].host => i = j
      BY <1>1, <1>9, <2>1, AddPeerOnce DEF SInv, OnceOK, ListedOnce
    <2> QED
      BY <1>4, <2>2 DEF OnceOK, ListedOnce
  <1>11. FirstMessages'
    <2> SUFFICES ASSUME NEW q \in Peer, NEW c \in joinQ'[q] \union sockQ'[q]
                 PROVE  c.n = 1 /\ c.inc = 1
      BY DEF FirstMessages
    <2>1. c \in joinQ[q] \union sockQ[q] \/ c = answer
      BY <1>1, <1>5
    <2> QED
      BY <1>8, <2>1 DEF OnceOK, FirstMessages
  <1>12. \A q \in Peer : \/ sockQ'[q] = sockQ[q]
                         \/ sockQ'[q] = sockQ[q] \union {answer} /\ q = z
    BY <1>1
  <1> HIDE DEF e, z, answer
  <1>13. \A x, y \in Peer : /\ Waiting(x, y)' => Waiting(x, y)
                            /\ Heard(x, y)' => Heard(x, y) \/ (x = z /\ y = p)
                            /\ Replied(x, y)' => Replied(x, y) \/ (x = z /\ y = p)
                            /\ Confirmed(x, y)' => Confirmed(x, y)
    <2> SUFFICES ASSUME NEW x \in Peer, NEW y \in Peer
                 PROVE  /\ Waiting(x, y)' => Waiting(x, y)
                        /\ Heard(x, y)' => Heard(x, y) \/ (x = z /\ y = p)
                        /\ Replied(x, y)' => Replied(x, y) \/ (x = z /\ y = p)
                        /\ Confirmed(x, y)' => Confirmed(x, y)
      OBVIOUS
    <2>1. Waiting(x, y)' => Waiting(x, y)
      BY <1>5 DEF Waiting
    <2>2. Heard(x, y)' => Heard(x, y) \/ (x = z /\ y = p)
      BY <1>3, <1>4 DEF Heard
    <2>3. Replied(x, y)' => Replied(x, y) \/ (x = z /\ y = p)
      BY <1>3, <1>12 DEF Replied
    <2>4. Confirmed(x, y)' => Confirmed(x, y)
      BY <1>3, <1>4 DEF Confirmed
    <2> QED
      BY <2>1, <2>2, <2>3, <2>4
  <1>14. \A x, y \in Peer : Reaches(x, y)' => Reaches(x, y)
    BY <1>7, <1>13 DEF Reaches
  <1>15. OneWay'
    BY <1>2, <1>14 DEF OnceOK, OneWay
  <1>16. InOrder'
    BY <1>3, <1>6, <1>7, <1>13 DEF OnceOK, InOrder
  <1> QED
    BY <1>10, <1>11, <1>15, <1>16 DEF OnceOK

(* A host starts the program for the first time: nothing has come from it  *)
(* or gone to it yet, and its request reaches only hosts that listen.      *)
LEMMA OnceStart ==
    ASSUME SInv, OnceOK, NEW p \in Peer, connect_to_listener(p), FirstOnly'
    PROVE  OnceOK'
  <1> DEFINE can == [body |-> "CAN", host |-> p, port |-> inc[p] + 1,
                     inc |-> inc[p] + 1, n |-> 1]
  <1>1. PICK R \in Reached(Members(p)) :
            joinQ' = [q \in Peer |-> IF q \in R THEN joinQ[q] \union {can} ELSE joinQ[q]]
    BY DEF connect_to_listener, auth_request
  <1>2. /\ inc' = [inc EXCEPT ![p] = @ + 1] /\ pc[p] = "off"
        /\ UNCHANGED <<peers, sockQ>>
    BY DEF connect_to_listener
  <1>3. \A q \in Peer : inc[q] \in Nat
    BY DEF SInv, TypeOK
  <1>4. inc'[p] = inc[p] + 1 /\ \A q \in Peer \ {p} : inc'[q] = inc[q]
    BY <1>2 DEF SInv, TypeOK
  <1>5. inc[p] = 0 /\ inc'[p] = 1
    BY <1>3, <1>4 DEF FirstOnly
  <1>6. \A q \in Peer : ~Reaches(p, q) /\ ~Reaches(q, p)
    BY <1>5 DEF OnceOK, OneWay
  <1>7. \A q \in R : q \in Peer \ {p} /\ inc[q] = 1
    <2>1. \A q \in R : q \in Peer /\ pc[q] # "off"
      BY <1>1 DEF Reached, Members, Listening
    <2>2. \A q \in R : inc[q] # 0
      BY <2>1 DEF SInv, StartedOK, CHAT_PORT
    <2> QED
      BY <1>2, <1>3, <1>4, <2>1, <2>2 DEF FirstOnly
  <1>8. can.n = 1 /\ can.inc = 1 /\ can.host = p
    BY <1>5
  <1> HIDE DEF can
  <1>9. \A x, y \in Peer : /\ Waiting(x, y)' => Waiting(x, y) \/ (x = p /\ y \in R)
                           /\ Heard(x, y)' <=> Heard(x, y)
                           /\ Replied(x, y)' <=> Replied(x, y)
                           /\ Confirmed(x, y)' <=> Confirmed(x, y)
    BY <1>1, <1>2, <1>8 DEF Waiting, Heard, Replied, Confirmed
  <1>10. \A x, y \in Peer : Reaches(x, y)' => Reaches(x, y) \/ (x = p /\ y \in R)
    BY <1>9 DEF Reaches
  <1>11. OneWay'
    <2> SUFFICES ASSUME NEW x \in Peer, NEW y \in Peer, Reaches(x, y)'
                 PROVE  inc'[x] = 1 /\ inc'[y] = 1 /\ ~Reaches(y, x)'
      BY DEF OneWay
    <2>1. CASE Reaches(x, y)
      <3>1. x # p /\ y # p
        BY <1>6, <2>1
      <3> QED
        BY <1>4, <1>10, <2>1, <3>1 DEF OnceOK, OneWay
    <2>2. CASE x = p /\ y \in R
      BY <1>4, <1>5, <1>6, <1>7, <1>10, <2>2
    <2> QED
      BY <1>10, <2>1, <2>2
  <1>12. InOrder'
    BY <1>6, <1>9 DEF OnceOK, InOrder, Reaches
  <1>13. ListedOnce'
    BY <1>2 DEF OnceOK, ListedOnce
  <1>14. FirstMessages'
    BY <1>1, <1>2, <1>8 DEF OnceOK, FirstMessages
  <1> QED
    BY <1>11, <1>12, <1>13, <1>14 DEF OnceOK

(* inc and req only grow, up to the next start.                            *)
LEMMA CountsStep ==
    ASSUME TypeOK, CountsOK, Next
    PROVE  CountsOK' /\ (FirstOnly' => FirstOnly)
  <1>1. PICK p \in Peer :
           \/ connect_to_listener(p)
           \/ find_peer_confirm(p)
           \/ find_peer_stdin(p)
           \/ find_peer_unblock(p)
           \/ find_peer_alarm(p)
           \/ message_loop_select(p)
           \/ handle_listenfd(p)
           \/ handle_joinfd(p)
           \/ stdin_end(p)
           \/ stdin_eof(p)
           \/ stdin_find(p)
           \/ stdin_find_confirm(p)
           \/ stdin_text(p)
           \/ user_types(p)
           \/ err_sys(p)
    BY NextCases
  <1>2. \A q \in Peer : inc[q] \in Nat /\ req[q] \in Nat
    BY DEF TypeOK
  <1>3. CASE connect_to_listener(p)
    <2>1. /\ inc'[p] = inc[p] + 1 /\ req'[p] = 1
          /\ \A q \in Peer \ {p} : inc'[q] = inc[q] /\ req'[q] = req[q] /\ pc'[q] = pc[q]
      BY <1>3 DEF connect_to_listener, TypeOK
    <2> QED
      BY <1>2, <2>1 DEF CountsOK, FirstOnly
  <1>4. CASE stdin_find(p)
    <2>1. /\ inc' = inc /\ req'[p] = req[p] + 1 /\ pc[p] = "loop"
          /\ \A q \in Peer \ {p} : req'[q] = req[q] /\ pc'[q] = pc[q]
      BY <1>4 DEF stdin_find, ReadStdin, TypeOK
    <2> QED
      BY <1>2, <2>1 DEF CountsOK, FirstOnly
  <1>5. ASSUME UNCHANGED <<inc, req>>, \A q \in Peer : pc'[q] # "off" => pc[q] # "off"
        PROVE  CountsOK' /\ (FirstOnly' => FirstOnly)
    BY <1>5 DEF CountsOK, FirstOnly
  <1>6. ASSUME ~connect_to_listener(p), ~stdin_find(p)
        PROVE  UNCHANGED <<inc, req>> /\ \A q \in Peer : pc'[q] # "off" => pc[q] # "off"
    <2>1. UNCHANGED <<inc, req>>
      BY <1>1, <1>6 DEF find_peer_confirm, find_peer_stdin, find_peer_unblock,
         find_peer_alarm, message_loop_select, handle_listenfd, handle_joinfd, stdin_end,
         stdin_eof, stdin_find_confirm, stdin_text, user_types, err_sys, Exit
    <2>2. pc[p] # "off"
      BY <1>1, <1>6 DEF find_peer_confirm, find_peer_stdin, find_peer_unblock,
         find_peer_alarm, message_loop_select, handle_listenfd, handle_joinfd, stdin_end,
         stdin_eof, stdin_find_confirm, stdin_text, ReadStdin, user_types, err_sys, Running
    <2>3. \A q \in Peer \ {p} : pc'[q] = pc[q]
      BY <1>1, <1>6 DEF TypeOK, find_peer_confirm, find_peer_stdin, find_peer_unblock,
         find_peer_alarm, message_loop_select, handle_listenfd, handle_joinfd, stdin_end,
         stdin_eof, stdin_find_confirm, stdin_text, user_types, err_sys, Exit,
         auth_try_confirm, AddPeer
    <2> QED
      BY <2>1, <2>2, <2>3
  <1> QED
    BY <1>3, <1>4, <1>5, <1>6

(* Every step keeps OInv.                                                  *)
LEMMA OInvStep ==
    ASSUME SInv, OInv, Next
    PROVE  OInv'
  <1>1. CountsOK' /\ (FirstOnly' => FirstOnly)
    BY CountsStep DEF SInv, OInv
  <1> SUFFICES ASSUME FirstOnly', OnceOK
               PROVE  OnceOK'
    BY <1>1 DEF OInv
  <1>2. PICK p \in Peer :
           \/ connect_to_listener(p)
           \/ find_peer_confirm(p)
           \/ find_peer_stdin(p)
           \/ find_peer_unblock(p)
           \/ find_peer_alarm(p)
           \/ message_loop_select(p)
           \/ handle_listenfd(p)
           \/ handle_joinfd(p)
           \/ stdin_end(p)
           \/ stdin_eof(p)
           \/ stdin_find(p)
           \/ stdin_find_confirm(p)
           \/ stdin_text(p)
           \/ user_types(p)
           \/ err_sys(p)
    BY NextCases
  <1>3. ASSUME UNCHANGED <<inc, peers, sockQ, joinQ>>
        PROVE  OnceOK'
    BY <1>3, OnceShrinks
  <1>4. ASSUME Exit(p)
        PROVE  OnceOK'
    <2>1. /\ inc' = inc
          /\ \A q \in Peer : /\ joinQ'[q] \subseteq joinQ[q]
                             /\ sockQ'[q] \subseteq sockQ[q]
                             /\ peers'[q] = peers[q] \/ peers'[q] = <<>>
      BY <1>4 DEF Exit, SInv, TypeOK
    <2> QED
      BY <2>1, OnceShrinks
  <1>5. CASE connect_to_listener(p)
    BY <1>5, OnceStart
  <1>6. CASE find_peer_confirm(p)
    BY <1>6, OnceConfirm DEF find_peer_confirm, Place
  <1>7. CASE find_peer_stdin(p)
    BY <1>3, <1>4, <1>7 DEF find_peer_stdin
  <1>8. CASE find_peer_unblock(p)
    BY <1>8, OnceConfirm DEF find_peer_unblock, Place
  <1>9. CASE find_peer_alarm(p)
    BY <1>3, <1>9 DEF find_peer_alarm
  <1>10. CASE message_loop_select(p)
    BY <1>3, <1>10 DEF message_loop_select
  <1>11. CASE handle_listenfd(p)
    BY <1>3, <1>11 DEF handle_listenfd
  <1>12. CASE handle_joinfd(p)
    BY <1>12, JoinAccepts, OnceAccept
  <1>13. CASE stdin_end(p)
    BY <1>4, <1>13 DEF stdin_end
  <1>14. CASE stdin_eof(p)
    BY <1>3, <1>14 DEF stdin_eof
  <1>15. CASE stdin_find(p)
    <2>1. req[p] \in Nat /\ req[p] # 0 /\ req'[p] = req[p] + 1
      BY <1>15 DEF stdin_find, ReadStdin, SInv, TypeOK, OInv, CountsOK
    <2> QED
      BY <2>1 DEF FirstOnly
  <1>16. CASE stdin_find_confirm(p)
    BY <1>16, OnceConfirm DEF stdin_find_confirm, Place
  <1>17. CASE stdin_text(p)
    <2>1. sockQ' = sockQ
      BY <1>17, TextEffect
    <2> QED
      BY <1>3, <1>17, <2>1 DEF stdin_text
  <1>18. CASE user_types(p)
    BY <1>3, <1>18 DEF user_types
  <1>19. CASE err_sys(p)
    BY <1>4, <1>19 DEF err_sys
  <1> QED
    BY <1>2, <1>5, <1>6, <1>7, <1>8, <1>9, <1>10, <1>11, <1>12, <1>13, <1>14,
       <1>15, <1>16, <1>17, <1>18, <1>19

(* OInv holds in every reachable state.                                    *)
LEMMA OInvInvariant == Spec => []OInv
  <1>1. Init => OInv
    BY DEF Init, OInv, CountsOK, OnceOK, OneWay, Reaches, Waiting, Heard, Replied,
       Confirmed, InOrder, ListedOnce, FirstMessages
  <1>2. SInv /\ OInv /\ [Next]_vars => OInv'
    <2>1. ASSUME OInv, UNCHANGED vars
          PROVE  OInv'
      <3>1. UNCHANGED <<inc, peers, sockQ, joinQ>> /\ UNCHANGED <<req, pc>>
        BY <2>1 DEF vars
      <3>2. OnceOK => OnceOK'
        BY <3>1, OnceShrinks
      <3> QED
        BY <2>1, <3>1, <3>2 DEF OInv, CountsOK, FirstOnly
    <2> QED
      BY <2>1, OInvStep
  <1> QED
    BY <1>1, <1>2, SInvInvariant, PTL DEF Spec

(* As long as nobody has restarted the program or used am-find, nobody     *)
(* lists itself and nobody lists a host twice.                             *)
THEOREM StartupListsNobodyTwice == Spec => []StartupListsOnce
  <1>1. SInv /\ OInv => StartupListsOnce
    <2> SUFFICES ASSUME SInv, OInv, FirstOnly, NEW p \in Peer,
                        NEW i \in DOMAIN peers[p], NEW j \in DOMAIN peers[p]
                 PROVE  /\ peers[p][i].host # p
                        /\ peers[p][i].host = peers[p][j].host => i = j
      BY DEF StartupListsOnce, FirstOnly
    <2>1. OnceOK
      BY DEF OInv
    <2>2. peers[p][i].host = peers[p][j].host => i = j
      BY <2>1 DEF OnceOK, ListedOnce
    <2>3. peers[p][i].host # p
      <3>1. peers[p][i].via \in {"CAN", "OFC"}
        <4>1. peers[p][i] \in PeerEntry
          BY DEF SInv, TypeOK
        <4> QED
          BY <4>1 DEF PeerEntry
      <3>2. peers[p][i].host = p => Reaches(p, p)
        BY <3>1 DEF Reaches, Heard, Confirmed
      <3> QED
        BY <2>1, <3>2 DEF OnceOK, OneWay
    <2> QED
      BY <2>2, <2>3
  <1> QED
    BY <1>1, SInvInvariant, OInvInvariant, PTL

-----------------------------------------------------------------------------
(***************************************************************************)
(* AcquaintanceSpec: LanChatV5 implements Acquaintance.  The mapping of a  *)
(* buffer forgets parts of a datagram; for a datagram that is read to be   *)
(* gone from the mapped buffer too, these parts must follow from the rest. *)
(* SInv says so of the answers and the requests, TextsOK of the texts.     *)
(***************************************************************************)
(* A text is one: it comes from the port of a process, not from sockfd     *)
(* bound to CHAT_PORT, and is not numbered.                                *)
TextsOK ==
    \A p \in Peer : \A d \in listenQ[p] : d.body = "TXT" /\ d.port = d.inc /\ d.n = 0

(* The invariant of the refinement.                                        *)
RInv == SInv /\ TextsOK

(* What Acquaintance keeps of a request or an answer, and of a text.       *)
Num(d) == [host |-> d.host, life |-> d.inc, n |-> d.n]
From(d) == [host |-> d.host, life |-> d.inc]

(* A request or an answer put in a buffer is in what is kept of it.        *)
LEMMA NumberedAdd ==
    ASSUME NEW Q, NEW d
    PROVE  Numbered(Q \union {d}) = Numbered(Q) \union {Num(d)}
  BY DEF Numbered, Num

(* One that is read is gone from what is kept, if no other looks the same. *)
LEMMA NumberedRemove ==
    ASSUME NEW Q, NEW d \in Q, \A c \in Q : Num(c) = Num(d) => c = d
    PROVE  /\ Numbered(Q \ {d}) = Numbered(Q) \ {Num(d)}
           /\ Num(d) \in Numbered(Q)
  <1>1. Numbered(Q) = {Num(c) : c \in Q} /\ Numbered(Q \ {d}) = {Num(c) : c \in Q \ {d}}
    BY DEF Numbered, Num
  <1> QED
    BY <1>1

(* A text put in a buffer is in what is kept of it.                        *)
LEMMA SendersAdd ==
    ASSUME NEW Q, NEW d
    PROVE  Senders(Q \union {d}) = Senders(Q) \union {From(d)}
  BY DEF Senders, From

(* A text that is read is gone from what is kept, if no other looks so.    *)
LEMMA SendersRemove ==
    ASSUME NEW Q, NEW d \in Q, \A c \in Q : From(c) = From(d) => c = d
    PROVE  /\ Senders(Q \ {d}) = Senders(Q) \ {From(d)}
           /\ From(d) \in Senders(Q)
  <1>1. Senders(Q) = {From(c) : c \in Q} /\ Senders(Q \ {d}) = {From(c) : c \in Q \ {d}}
    BY DEF Senders, From
  <1> QED
    BY <1>1

(* Two requests of which the same is kept are the same.                    *)
LEMMA RequestsDiffer ==
    ASSUME SInv, NEW p \in Peer, NEW c \in joinQ[p], NEW d \in joinQ[p], Num(c) = Num(d)
    PROVE  c = d
  <1>1. c \in Datagram /\ d \in Datagram
    BY DEF SInv, TypeOK
  <1>2. c.body = d.body /\ c.port = c.inc /\ d.port = d.inc
    BY DEF SInv, RequestsOK
  <1>3. c.host = d.host /\ c.inc = d.inc /\ c.n = d.n
    BY DEF Num
  <1> QED
    BY <1>1, <1>2, <1>3 DEF Datagram

(* Two answers of which the same is kept are the same.                     *)
LEMMA AnswersDiffer ==
    ASSUME SInv, NEW p \in Peer, NEW c \in sockQ[p], NEW d \in sockQ[p], Num(c) = Num(d)
    PROVE  c = d
  <1>1. c \in Datagram /\ d \in Datagram
    BY DEF SInv, TypeOK
  <1>2. c.body = d.body /\ c.port = d.port
    BY DEF SInv, AnswersOK
  <1>3. c.host = d.host /\ c.inc = d.inc /\ c.n = d.n
    BY DEF Num
  <1> QED
    BY <1>1, <1>2, <1>3 DEF Datagram

(* Two texts of which the same is kept are the same.                       *)
LEMMA TextsDiffer ==
    ASSUME TypeOK, TextsOK, NEW p \in Peer,
           NEW c \in listenQ[p], NEW d \in listenQ[p], From(c) = From(d)
    PROVE  c = d
  <1>1. c \in Datagram /\ d \in Datagram
    BY DEF TypeOK
  <1>2. c.body = d.body /\ c.port = c.inc /\ d.port = d.inc /\ c.n = d.n
    BY DEF TextsOK
  <1>3. c.host = d.host /\ c.inc = d.inc
    BY DEF From
  <1> QED
    BY <1>1, <1>2, <1>3 DEF Datagram

(* What Acquaintance keeps of an entry.                                    *)
Kept(e) == [host |-> e.host, life |-> e.inc]

(* An entry that AddPeer adds is seen; a process that has no room stops.   *)
LEMMA EnteredAdd ==
    ASSUME TypeOK, NEW p \in Peer, NEW e \in PeerEntry, NEW next \in Place,
           AddPeer(p, e, next)
    PROVE  \/ /\ \A q \in Peer, v \in {"CAN", "OFC"} :
                     Entered(q, v)' = IF q = p /\ v = e.via THEN Entered(q, v) \union {Kept(e)}
                                                            ELSE Entered(q, v)
              /\ pc' = [pc EXCEPT ![p] = next]
           \/ /\ \A q \in Peer, v \in {"CAN", "OFC"} : Entered(q, v)' = Entered(q, v)
              /\ pc' = [pc EXCEPT ![p] = "overrun"]
  <1>1. CASE Len(peers[p]) < MAX_PEERS
    <2>1. peers' = [peers EXCEPT ![p] = Append(@, e)] /\ pc' = [pc EXCEPT ![p] = next]
      BY <1>1 DEF AddPeer
    <2>2. peers[p] \in Seq(PeerEntry)
      BY DEF TypeOK
    <2>3. peers'[p] = Append(peers[p], e)
      BY <2>1 DEF TypeOK
    <2>4. ASSUME NEW q \in Peer \ {p}, NEW v
          PROVE  Entered(q, v)' = Entered(q, v)
      <3>1. peers'[q] = peers[q]
        BY <2>1 DEF TypeOK
      <3> QED
        BY <3>1 DEF Entered
    <2>5. ASSUME NEW v
          PROVE  Entered(p, v)' = IF v = e.via THEN Entered(p, v) \union {Kept(e)} ELSE Entered(p, v)
      <3>1. DOMAIN peers'[p] = DOMAIN peers[p] \union {Len(peers[p]) + 1}
        BY <2>2, <2>3
      <3>2. \A i \in DOMAIN peers[p] : peers'[p][i] = peers[p][i]
        BY <2>2, <2>3
      <3>3. peers'[p][Len(peers[p]) + 1] = e
        BY <2>2, <2>3
      <3> QED
        BY <3>1, <3>2, <3>3 DEF Entered, Kept
    <2> QED
      BY <2>1, <2>4, <2>5
  <1>2. CASE ~(Len(peers[p]) < MAX_PEERS)
    BY <1>2 DEF AddPeer, Entered
  <1> QED
    BY <1>1, <1>2

(* The place of a process in Acquaintance.                                 *)
LEMMA PhaseCases ==
    ASSUME NEW p
    PROVE  /\ pc[p] = "off" => Phase(p) = "off"
           /\ pc[p] \in {"find", "blocked"} => Phase(p) = "search"
           /\ pc[p] \in Listening <=> Phase(p) = "listen"
           /\ pc[p] \in {"overrun", "failed"} => Phase(p) = "stopped"
           /\ pc[p] # "off" => Phase(p) # "off"
           /\ pc[p] \in Running <=> Phase(p) \in {"search", "listen"}
  BY DEF Phase, Listening, Running

(* Lists that do not change.                                               *)
LEMMA EnteredSame ==
    ASSUME UNCHANGED peers
    PROVE  \A q \in Peer, v \in {"CAN", "OFC"} : Entered(q, v)' = Entered(q, v)
  BY DEF Entered

(* A process goes on to another place.                                     *)
LEMMA PhaseMoves ==
    ASSUME TypeOK, NEW p \in Peer, NEW next \in Place, pc' = [pc EXCEPT ![p] = next]
    PROVE  /\ \A q \in Peer \ {p} : Phase(q)' = Phase(q)
           /\ next = "off" => Phase(p)' = "off"
           /\ next \in {"find", "blocked"} => Phase(p)' = "search"
           /\ next \in Listening => Phase(p)' = "listen"
           /\ next \in {"overrun", "failed"} => Phase(p)' = "stopped"
  BY DEF TypeOK, Phase, Listening

(* The end of the search.                                                  *)
LEMMA AlarmImplements ==
    ASSUME RInv, NEW p \in Peer, find_peer_alarm(p)
    PROVE  Acq!EndSearch(p)
  <1>1. TypeOK
    BY DEF RInv, SInv
  <1>2. /\ pc[p] = "find" /\ sockQ[p] = {} /\ pc' = [pc EXCEPT ![p] = "loop"]
        /\ UNCHANGED <<inc, peers, sockQ, listenQ, joinQ, req>>
    BY DEF find_peer_alarm
  <1>3. Phase(p) = "search" /\ Numbered(sockQ[p]) = {}
    <2>1. Numbered({}) = {}
      BY DEF Numbered
    <2> QED
      BY <1>2, <2>1, PhaseCases
  <1>4. \A q \in Peer : Phase(q)' = IF q = p THEN "listen" ELSE Phase(q)
    BY <1>1, <1>2, PhaseMoves DEF Place, Listening
  <1>5. \A q \in Peer : Entered(q, "CAN")' = Entered(q, "CAN") /\ Entered(q, "OFC")' = Entered(q, "OFC")
    BY <1>2, EnteredSame
  <1> QED
    BY <1>2, <1>3, <1>4, <1>5 DEF Acq!EndSearch

(* A request to the group is one to those that listen.                     *)
LEMMA RequestImplements ==
    ASSUME NEW p \in Peer, NEW c, NEW i, auth_request(p, c, i)
    PROVE  Acq!Ask(p, c, i)
  <1> DEFINE can == [body |-> "CAN", host |-> p, port |-> c, inc |-> c, n |-> i]
  <1>1. PICK R \in Reached(Members(p)) :
            joinQ' = [q \in Peer |-> IF q \in R THEN joinQ[q] \union {can} ELSE joinQ[q]]
    BY DEF auth_request
  <1>2. Members(p) = Acq!Listeners
    BY PhaseCases DEF Members, Acq!Listeners
  <1>3. R \in Acq!Reached(Acq!Listeners)
    BY <1>1, <1>2 DEF Reached, Acq!Reached
  <1>4. Num(can) = [host |-> p, life |-> c, n |-> i]
    BY DEF Num
  <1>5. ASSUME NEW q \in Peer
        PROVE  Numbered(joinQ'[q]) = IF q \in R THEN Numbered(joinQ[q]) \union {[host |-> p, life |-> c, n |-> i]}
                                                ELSE Numbered(joinQ[q])
    <2>1. Numbered(joinQ[q] \union {can}) = Numbered(joinQ[q]) \union {Num(can)}
      BY NumberedAdd
    <2> QED
      BY <1>1, <1>4, <2>1
  <1> QED
    BY <1>3, <1>5 DEF Acq!Ask, Acq!Put

(* A process starts.                                                       *)
LEMMA StartImplements ==
    ASSUME RInv, NEW p \in Peer, connect_to_listener(p)
    PROVE  Acq!Start(p)
  <1>1. TypeOK
    BY DEF RInv, SInv
  <1>2. /\ pc[p] = "off" /\ pc' = [pc EXCEPT ![p] = "find"]
        /\ inc' = [inc EXCEPT ![p] = @ + 1] /\ req' = [req EXCEPT ![p] = 1]
        /\ auth_request(p, inc[p] + 1, 1)
        /\ UNCHANGED <<peers, sockQ, listenQ>>
    BY DEF connect_to_listener
  <1>3. Acq!Ask(p, inc[p] + 1, 1)
    BY <1>2, RequestImplements
  <1>4. Phase(p) = "off"
    BY <1>2, PhaseCases
  <1>5. \A q \in Peer : Phase(q)' = IF q = p THEN "search" ELSE Phase(q)
    BY <1>1, <1>2, PhaseMoves DEF Place
  <1>6. \A q \in Peer : Entered(q, "CAN")' = Entered(q, "CAN") /\ Entered(q, "OFC")' = Entered(q, "OFC")
    BY <1>2, EnteredSame
  <1> QED
    BY <1>2, <1>3, <1>4, <1>5, <1>6 DEF Acq!Start

(* am-find asks again.                                                     *)
LEMMA FindImplements ==
    ASSUME RInv, NEW p \in Peer, stdin_find(p)
    PROVE  Acq!AskAgain(p)
  <1>1. TypeOK
    BY DEF RInv, SInv
  <1>2. /\ pc[p] = "loop" /\ pc' = [pc EXCEPT ![p] = "amfind"]
        /\ req' = [req EXCEPT ![p] = @ + 1]
        /\ auth_request(p, inc[p], req[p] + 1)
        /\ UNCHANGED <<inc, peers, sockQ, listenQ>>
    BY DEF stdin_find, ReadStdin
  <1>3. Acq!Ask(p, inc[p], req[p] + 1)
    BY <1>2, RequestImplements
  <1>4. Phase(p) = "listen"
    BY <1>2, PhaseCases DEF Listening
  <1>5. \A q \in Peer : Phase(q)' = Phase(q)
    BY <1>1, <1>2, <1>4, PhaseMoves DEF Place, Listening
  <1>6. \A q \in Peer : Entered(q, "CAN")' = Entered(q, "CAN") /\ Entered(q, "OFC")' = Entered(q, "OFC")
    BY <1>2, EnteredSame
  <1> QED
    BY <1>2, <1>3, <1>4, <1>5, <1>6 DEF Acq!AskAgain

(* A process ends.                                                         *)
LEMMA ExitImplements ==
    ASSUME RInv, NEW p \in Peer, pc[p] # "off", Exit(p)
    PROVE  Acq!End(p)
  <1>1. TypeOK
    BY DEF RInv, SInv
  <1>2. /\ pc' = [pc EXCEPT ![p] = "off"] /\ peers' = [peers EXCEPT ![p] = <<>>]
        /\ sockQ' = [sockQ EXCEPT ![p] = {}] /\ listenQ' = [listenQ EXCEPT ![p] = {}]
        /\ joinQ' = [joinQ EXCEPT ![p] = {}] /\ UNCHANGED <<inc, req>>
    BY DEF Exit
  <1>3. Phase(p) # "off"
    BY PhaseCases
  <1>4. \A q \in Peer : Phase(q)' = IF q = p THEN "off" ELSE Phase(q)
    BY <1>1, <1>2, PhaseMoves DEF Place
  <1>5. Numbered({}) = {} /\ Senders({}) = {}
    BY DEF Numbered, Senders
  <1>6. ASSUME NEW q \in Peer
        PROVE  /\ Numbered(joinQ'[q]) = IF q = p THEN {} ELSE Numbered(joinQ[q])
               /\ Numbered(sockQ'[q]) = IF q = p THEN {} ELSE Numbered(sockQ[q])
               /\ Senders(listenQ'[q]) = IF q = p THEN {} ELSE Senders(listenQ[q])
    <2>1. /\ joinQ'[q] = IF q = p THEN {} ELSE joinQ[q]
          /\ sockQ'[q] = IF q = p THEN {} ELSE sockQ[q]
          /\ listenQ'[q] = IF q = p THEN {} ELSE listenQ[q]
      BY <1>1, <1>2 DEF TypeOK
    <2> QED
      BY <1>5, <2>1
  <1>7. \A q \in Peer : /\ Entered(q, "CAN")' = IF q = p THEN {} ELSE Entered(q, "CAN")
                        /\ Entered(q, "OFC")' = IF q = p THEN {} ELSE Entered(q, "OFC")
    BY <1>1, <1>2 DEF TypeOK, Entered
  <1> QED
    BY <1>2, <1>3, <1>4, <1>6, <1>7 DEF Acq!End

(* An answer is read.                                                      *)
LEMMA ConfirmImplements ==
    ASSUME RInv, NEW p \in Peer, NEW next \in {"find", "loop"}, auth_try_confirm(p, next),
           pc[p] \in IF next = "find" THEN {"find", "blocked"} ELSE {"amfind"},
           UNCHANGED <<inc, listenQ, joinQ, req>>
    PROVE  \E g \in Numbered(sockQ[p]) : Acq!Confirm(p, g)
  <1>1. SInv /\ TypeOK
    BY DEF RInv, SInv
  <1>2. next \in Place
    BY DEF Place
  <1>3. PICK d \in sockQ[p] :
               /\ sockQ' = [sockQ EXCEPT ![p] = @ \ {d}]
               /\ d \in Datagram
               /\ Confirmer(d) \in PeerEntry
               /\ AddPeer(p, Confirmer(d), next)
    BY <1>1, <1>2, ConfirmEffect
  <1>4. Numbered(sockQ[p] \ {d}) = Numbered(sockQ[p]) \ {Num(d)} /\ Num(d) \in Numbered(sockQ[p])
    BY <1>1, NumberedRemove, AnswersDiffer
  <1>5. \A q \in Peer : Numbered(sockQ'[q]) = IF q = p THEN Numbered(sockQ[q]) \ {Num(d)}
                                                       ELSE Numbered(sockQ[q])
    BY <1>1, <1>3, <1>4 DEF TypeOK
  <1>6. /\ Confirmer(d).via = "OFC"
        /\ Kept(Confirmer(d)) = [host |-> Num(d).host, life |-> Num(d).life]
    BY DEF Confirmer, Kept, Num
  <1>7. Phase(p) \in {"search", "listen"}
    BY PhaseCases DEF Running
  <1>8. CASE /\ \A q \in Peer, v \in {"CAN", "OFC"} :
                    Entered(q, v)' = IF q = p /\ v = "OFC" THEN Entered(q, v) \union {Kept(Confirmer(d))}
                                                           ELSE Entered(q, v)
             /\ pc' = [pc EXCEPT ![p] = next]
    <2>1. \A q \in Peer : Phase(q)' = Phase(q)
      BY <1>1, <1>2, <1>8, PhaseMoves, PhaseCases DEF Listening
    <2>2. \A q \in Peer : /\ Entered(q, "CAN")' = Entered(q, "CAN")
                          /\ Entered(q, "OFC")' = IF q = p THEN Entered(q, "OFC") \union {Kept(Confirmer(d))}
                                                           ELSE Entered(q, "OFC")
      BY <1>8
    <2>3. Acq!Confirm(p, Num(d))
      BY <1>5, <1>6, <1>7, <2>1, <2>2 DEF Acq!Confirm, Acq!Alive, Acq!Process
    <2> QED
      BY <1>4, <2>3
  <1>9. CASE /\ \A q \in Peer, v \in {"CAN", "OFC"} : Entered(q, v)' = Entered(q, v)
             /\ pc' = [pc EXCEPT ![p] = "overrun"]
    <2>1. \A q \in Peer : Phase(q)' = IF q = p THEN "stopped" ELSE Phase(q)
      BY <1>1, <1>9, PhaseMoves DEF Place
    <2>2. \A q \in Peer : Entered(q, "CAN")' = Entered(q, "CAN") /\ Entered(q, "OFC")' = Entered(q, "OFC")
      BY <1>9
    <2>3. Acq!Confirm(p, Num(d))
      BY <1>5, <1>7, <2>1, <2>2 DEF Acq!Confirm, Acq!Alive, Acq!Stop
    <2> QED
      BY <1>4, <2>3
  <1> QED
    BY <1>1, <1>2, <1>3, <1>6, <1>8, <1>9, EnteredAdd

(* An accepted request changes no listenfd: the answer goes to sockfd.     *)
LEMMA AcceptListens ==
    ASSUME SInv, NEW p \in Peer, NEW d \in joinQ[p], auth_accept(p, d)
    PROVE  UNCHANGED listenQ
  <1>1. AnswerAddress(d).port # CHAT_PORT
    BY DEF SInv, RequestsOK, AnswerAddress
  <1>2. PICK A \in Reached({AnswerAddress(d)}) :
            Sendto(A, [body |-> "OFC", host |-> p, port |-> CHAT_PORT, inc |-> inc[p], n |-> d.n])
    BY DEF auth_accept
  <1>3. \A b \in A : ~AtListenfd(b)
    BY <1>1, <1>2 DEF Reached, AtListenfd
  <1> QED
    BY <1>2, <1>3 DEF Sendto, SInv, TypeOK

(* Request d is accepted: its sender is told, and recorded or not.         *)
LEMMA AcceptImplements ==
    ASSUME RInv, NEW p \in Peer, NEW d \in joinQ[p],
           pc[p] = "loop", UNCHANGED <<inc, req>>,
           joinQ' = [joinQ EXCEPT ![p] = @ \ {d}],
           auth_accept(p, d), AddPeer(p, Requester(d), "loop")
    PROVE  Num(d) \in Numbered(joinQ[p]) /\ Acq!Accept(p, Num(d))
  <1>1. SInv /\ TypeOK
    BY DEF RInv, SInv
  <1> DEFINE ofc == [body |-> "OFC", host |-> p, port |-> CHAT_PORT,
                     inc |-> inc[p], n |-> d.n]
  <1>2. d \in Datagram /\ d.port = d.inc /\ d.inc # CHAT_PORT
    BY <1>1 DEF SInv, TypeOK, RequestsOK
  <1>3. Requester(d) \in PeerEntry
    BY <1>2 DEF Datagram, PeerEntry, Requester, CHAT_PORT
  <1>4. Numbered(joinQ[p] \ {d}) = Numbered(joinQ[p]) \ {Num(d)} /\ Num(d) \in Numbered(joinQ[p])
    BY <1>1, NumberedRemove, RequestsDiffer
  <1>5. \A q \in Peer : Numbered(joinQ'[q]) = IF q = p THEN Numbered(joinQ[q]) \ {Num(d)}
                                                       ELSE Numbered(joinQ[q])
    BY <1>1, <1>4 DEF TypeOK
  <1> DEFINE a == AnswerAddress(d)
  <1>6. PICK A \in Reached({a}) : Sendto(A, ofc)
    BY DEF auth_accept
  <1>7. a.host = d.host /\ a.port = d.inc
    BY <1>2 DEF AnswerAddress
  <1> HIDE DEF a
  <1>8. AtSockfd(a) <=> d.inc = inc[d.host] /\ pc[d.host] \in Running
    BY <1>2, <1>7 DEF AtSockfd
  <1>9. A \subseteq {a} /\ (~Lossy => A = {a})
    BY <1>6 DEF Reached
  <1>10. listenQ' = listenQ
    BY <1>1, AcceptListens
  <1> DEFINE to == {q \in Peer : q = Num(d).host /\ Acq!Alive(q) /\ inc[q] = Num(d).life}
             R == IF A = {} THEN {} ELSE to
             g == [host |-> p, life |-> inc[p], n |-> Num(d).n]
  <1>11. \A q \in Peer : q \in to <=> q = d.host /\ AtSockfd(a)
    BY <1>8, PhaseCases DEF Acq!Alive, Num
  <1>12. R \in Acq!Reached(to)
    BY <1>9 DEF Acq!Reached
  <1>13. Num(ofc) = g
    BY DEF Num
  <1>14. ASSUME NEW q \in Peer
         PROVE  Numbered(sockQ'[q]) = IF q \in R THEN Numbered(sockQ[q]) \union {g} ELSE Numbered(sockQ[q])
    <2>1. sockQ'[q] = IF \E b \in A : b.host = q /\ AtSockfd(b) THEN sockQ[q] \union {ofc} ELSE sockQ[q]
      BY <1>6 DEF Sendto
    <2>2. (\E b \in A : b.host = q /\ AtSockfd(b)) <=> q \in R
      BY <1>7, <1>9, <1>11
    <2>3. Numbered(sockQ[q] \union {ofc}) = Numbered(sockQ[q]) \union {g}
      BY <1>13, NumberedAdd
    <2> HIDE DEF R, g, ofc
    <2> QED
      BY <2>1, <2>2, <2>3
  <1>15. Phase(p) = "listen"
    BY PhaseCases DEF Listening
  <1>16. Requester(d).via = "CAN" /\ Kept(Requester(d)) = Acq!Process(Num(d).host, Num(d).life)
    BY DEF Requester, Kept, Num, Acq!Process
  <1>17. \E S \in Acq!Reached(to) :
            [q \in Peer |-> Numbered(sockQ[q])]' = Acq!Put([q \in Peer |-> Numbered(sockQ[q])], S, g)
    BY <1>12, <1>14 DEF Acq!Put
  <1>18. \/ /\ \A q \in Peer, v \in {"CAN", "OFC"} :
                   Entered(q, v)' = IF q = p /\ v = "CAN" THEN Entered(q, v) \union {Kept(Requester(d))}
                                                          ELSE Entered(q, v)
            /\ pc' = [pc EXCEPT ![p] = "loop"]
         \/ /\ \A q \in Peer, v \in {"CAN", "OFC"} : Entered(q, v)' = Entered(q, v)
            /\ pc' = [pc EXCEPT ![p] = "overrun"]
    BY <1>1, <1>3, <1>16, EnteredAdd DEF Place
  <1>19. /\ \A q \in Peer : Entered(q, "OFC")' = Entered(q, "OFC")
         /\ \/ /\ \A q \in Peer : Phase(q)' = Phase(q)
               /\ \A q \in Peer :
                     Entered(q, "CAN")' = IF q = p THEN Entered(q, "CAN") \union {Kept(Requester(d))}
                                                   ELSE Entered(q, "CAN")
            \/ /\ \A q \in Peer : Phase(q)' = IF q = p THEN "stopped" ELSE Phase(q)
               /\ \A q \in Peer : Entered(q, "CAN")' = Entered(q, "CAN")
    BY <1>1, <1>18, PhaseMoves, PhaseCases DEF Place, Listening
  <1> HIDE DEF to, g
  <1>20. Acq!Accept(p, Num(d))
    BY <1>5, <1>10, <1>15, <1>16, <1>17, <1>19 DEF Acq!Accept, Acq!Stop, to, g
  <1> QED
    BY <1>4, <1>20

(* A request is read from joinfd: there are only requests, all accepted.   *)
LEMMA JoinImplements ==
    ASSUME RInv, NEW p \in Peer, handle_joinfd(p)
    PROVE  \E r \in Numbered(joinQ[p]) : Acq!Accept(p, r)
  <1>1. pc[p] = "loop" /\ UNCHANGED <<inc, req>> /\ Accepts(p)
    BY JoinAccepts DEF RInv, handle_joinfd
  <1> QED
    BY <1>1, AcceptImplements DEF Accepts

(* A text is read and printed.                                             *)
LEMMA HearImplements ==
    ASSUME RInv, NEW p \in Peer, NEW d \in listenQ[p], pc[p] = "loop",
           listenQ' = [listenQ EXCEPT ![p] = @ \ {d}],
           UNCHANGED <<pc, inc, peers, sockQ, joinQ, req>>
    PROVE  From(d) \in Senders(listenQ[p]) /\ Acq!Hear(p, From(d))
  <1>1. SInv /\ TypeOK /\ TextsOK
    BY DEF RInv, SInv
  <1>2. Senders(listenQ[p] \ {d}) = Senders(listenQ[p]) \ {From(d)} /\ From(d) \in Senders(listenQ[p])
    BY <1>1, SendersRemove, TextsDiffer
  <1>3. \A q \in Peer : Senders(listenQ'[q]) = IF q = p THEN Senders(listenQ[q]) \ {From(d)}
                                                        ELSE Senders(listenQ[q])
    BY <1>1, <1>2 DEF TypeOK
  <1>4. Phase(p) = "listen" /\ \A q \in Peer : Phase(q)' = Phase(q)
    <2>1. \A q \in Peer : Phase(q)' = Phase(q)
      BY DEF Phase
    <2> QED
      BY <2>1, PhaseCases DEF Listening
  <1>5. \A q \in Peer : Entered(q, "CAN")' = Entered(q, "CAN") /\ Entered(q, "OFC")' = Entered(q, "OFC")
    BY EnteredSame
  <1> QED
    BY <1>2, <1>3, <1>4, <1>5 DEF Acq!Hear

(* It is what handle_listenfd does.                                        *)
LEMMA ListenImplements ==
    ASSUME RInv, NEW p \in Peer, handle_listenfd(p)
    PROVE  \E t \in Senders(listenQ[p]) : Acq!Hear(p, t)
  BY HearImplements DEF handle_listenfd

(* The acquaintances of a process are the hosts in its list.               *)
LEMMA AcquaintancesListed ==
    ASSUME TypeOK, NEW p \in Peer
    PROVE  Acq!Acquaintances(p) = {peers[p][i].host : i \in 1 .. Len(peers[p])}
  <1>1. peers[p] \in Seq(PeerEntry) /\ DOMAIN peers[p] = 1 .. Len(peers[p])
    BY DEF TypeOK
  <1>2. ASSUME NEW i \in DOMAIN peers[p]
        PROVE  peers[p][i].via \in {"CAN", "OFC"}
    <2>1. peers[p][i] \in PeerEntry
      BY <1>1
    <2> QED
      BY <2>1 DEF PeerEntry
  <1>3. ASSUME NEW i \in DOMAIN peers[p]
        PROVE  peers[p][i].host \in Acq!Acquaintances(p)
    <2>1. [host |-> peers[p][i].host, life |-> peers[p][i].inc] \in Entered(p, peers[p][i].via)
      BY DEF Entered
    <2>2. [host |-> peers[p][i].host, life |-> peers[p][i].inc]
              \in Entered(p, "CAN") \union Entered(p, "OFC")
      BY <1>2, <2>1
    <2> QED
      BY <2>2 DEF Acq!Acquaintances
  <1>4. ASSUME NEW h \in Acq!Acquaintances(p)
        PROVE  \E i \in DOMAIN peers[p] : h = peers[p][i].host
    <2>1. PICK e \in Entered(p, "CAN") \union Entered(p, "OFC") : h = e.host
      BY DEF Acq!Acquaintances
    <2> QED
      BY <2>1 DEF Entered
  <1> QED
    BY <1>1, <1>3, <1>4

(* A text goes to the first k entries of the list, and to their listenfd.  *)
LEMMA TextReaches ==
    ASSUME SInv, NEW p \in Peer, stdin_text(p)
    PROVE  LET txt == [body |-> "TXT", host |-> p, port |-> inc[p], inc |-> inc[p], n |-> 0]
           IN  \E R \in SUBSET {q \in Peer : pc[q] \in Listening} :
                   /\ listenQ' = [q \in Peer |-> IF q \in R THEN listenQ[q] \union {txt} ELSE listenQ[q]]
                   /\ R \subseteq {peers[p][i].host : i \in 1 .. Len(peers[p])}
                   /\ \/ /\ pc' = [pc EXCEPT ![p] = "loop"]
                         /\ Lossy \/ {peers[p][i].host : i \in 1 .. Len(peers[p])}
                                        \intersect {q \in Peer : pc[q] \in Listening} \subseteq R
                      \/ pc' = [pc EXCEPT ![p] = "failed"]
  <1> DEFINE txt == [body |-> "TXT", host |-> p, port |-> inc[p], inc |-> inc[p], n |-> 0]
             To(k) == {[host |-> peers[p][i].host, port |-> peers[p][i].port] : i \in 1 .. k}
             all == {peers[p][i].host : i \in 1 .. Len(peers[p])}
  <1>1. PICK k \in 0 .. Len(peers[p]) :
            /\ \E A \in Reached(To(k)) : Sendto(A, txt)
            /\ pc' = [pc EXCEPT ![p] = IF k < Len(peers[p]) THEN "failed" ELSE "loop"]
    BY DEF stdin_text
  <1>2. PICK A \in Reached(To(k)) : Sendto(A, txt)
    BY <1>1
  <1>3. A \subseteq To(k) /\ (~Lossy => A = To(k))
    BY <1>2 DEF Reached
  <1>4. peers[p] \in Seq(PeerEntry) /\ Len(peers[p]) \in Nat /\ DOMAIN peers[p] = 1 .. Len(peers[p])
    BY DEF SInv, TypeOK
  <1>5. ASSUME NEW b \in A
        PROVE  b.host \in all /\ (AtListenfd(b) <=> pc[b.host] \in Listening)
    <2>1. PICK i \in 1 .. k : b = [host |-> peers[p][i].host, port |-> peers[p][i].port]
      BY <1>3
    <2>2. i \in 1 .. Len(peers[p])
      BY <1>1, <1>4
    <2>3. peers[p][i].port = CHAT_PORT
      BY <1>4, <2>2 DEF SInv, EntriesOK
    <2> QED
      BY <2>1, <2>2, <2>3 DEF AtListenfd
  <1>6. ASSUME ~Lossy, k = Len(peers[p]), NEW h \in all
        PROVE  \E b \in A : b.host = h
    <2>1. PICK i \in 1 .. Len(peers[p]) : h = peers[p][i].host
      OBVIOUS
    <2>2. [host |-> peers[p][i].host, port |-> peers[p][i].port] \in A
      BY <1>3, <1>6, <2>1
    <2> QED
      BY <2>1, <2>2
  <1> DEFINE R == {q \in Peer : \E b \in A : b.host = q /\ AtListenfd(b)}
  <1>7. R \in SUBSET {q \in Peer : pc[q] \in Listening} /\ R \subseteq all
    BY <1>5
  <1>8. listenQ' = [q \in Peer |-> IF q \in R THEN listenQ[q] \union {txt} ELSE listenQ[q]]
    BY <1>2 DEF Sendto
  <1>9. ASSUME ~Lossy, k = Len(peers[p])
        PROVE  all \intersect {q \in Peer : pc[q] \in Listening} \subseteq R
    BY <1>5, <1>6, <1>9
  <1> HIDE DEF R, all, txt
  <1>10. \/ pc' = [pc EXCEPT ![p] = "loop"] /\ k = Len(peers[p])
         \/ pc' = [pc EXCEPT ![p] = "failed"]
    <2>1. CASE k < Len(peers[p])
      BY <1>1, <2>1
    <2>2. CASE ~(k < Len(peers[p]))
      <3>1. k = Len(peers[p])
        BY <1>4, <2>2
      <3> QED
        BY <1>1, <2>2, <3>1
    <2> QED
      BY <2>1, <2>2
  <1>11. \/ /\ pc' = [pc EXCEPT ![p] = "loop"]
            /\ Lossy \/ all \intersect {q \in Peer : pc[q] \in Listening} \subseteq R
         \/ pc' = [pc EXCEPT ![p] = "failed"]
    BY <1>9, <1>10
  <1> QED
    BY <1>7, <1>8, <1>11 DEF all, txt

(* The line a user types.                                                  *)
LEMMA TextImplements ==
    ASSUME RInv, NEW p \in Peer, stdin_text(p)
    PROVE  Acq!Say(p)
  <1>1. SInv /\ TypeOK
    BY DEF RInv, SInv
  <1> DEFINE txt == [body |-> "TXT", host |-> p, port |-> inc[p], inc |-> inc[p], n |-> 0]
             all == {peers[p][i].host : i \in 1 .. Len(peers[p])}
             listening == {q \in Peer : pc[q] \in Listening}
  <1>2. PICK R \in SUBSET listening :
                   /\ listenQ' = [q \in Peer |-> IF q \in R THEN listenQ[q] \union {txt} ELSE listenQ[q]]
                   /\ R \subseteq all
                   /\ \/ /\ pc' = [pc EXCEPT ![p] = "loop"]
                         /\ Lossy \/ all \intersect listening \subseteq R
                      \/ pc' = [pc EXCEPT ![p] = "failed"]
    BY <1>1, TextReaches
  <1>3. pc[p] = "loop" /\ UNCHANGED <<inc, peers, sockQ, joinQ, req>>
    BY <1>1, TextEffect DEF stdin_text, ReadStdin
  <1>4. all = Acq!Acquaintances(p)
    BY <1>1, AcquaintancesListed
  <1>5. listening = Acq!Listeners
    BY PhaseCases DEF Acq!Listeners
  <1>6. Phase(p) = "listen"
    BY <1>3, PhaseCases DEF Listening
  <1>7. \/ /\ \A q \in Peer : Phase(q)' = Phase(q)
           /\ Lossy \/ all \intersect listening \subseteq R
        \/ \A q \in Peer : Phase(q)' = IF q = p THEN "stopped" ELSE Phase(q)
    BY <1>1, <1>2, <1>6, PhaseMoves DEF Place, Listening
  <1>8. \A q \in Peer : Entered(q, "CAN")' = Entered(q, "CAN") /\ Entered(q, "OFC")' = Entered(q, "OFC")
    BY <1>3, EnteredSame
  <1>9. ASSUME NEW q \in Peer
        PROVE  Senders(listenQ'[q]) = IF q \in R THEN Senders(listenQ[q]) \union {Acq!Process(p, inc[p])}
                                                 ELSE Senders(listenQ[q])
    <2>1. Senders(listenQ[q] \union {txt}) = Senders(listenQ[q]) \union {From(txt)}
      BY SendersAdd
    <2>2. From(txt) = Acq!Process(p, inc[p])
      BY DEF From, Acq!Process
    <2> QED
      BY <1>2, <2>1, <2>2
  <1> HIDE DEF all, listening, txt
  <1>10. R \in SUBSET (Acq!Acquaintances(p) \intersect Acq!Listeners)
    BY <1>2, <1>4, <1>5
  <1>11. \/ /\ \A q \in Peer : Phase(q)' = Phase(q)
            /\ Lossy \/ R = Acq!Acquaintances(p) \intersect Acq!Listeners
         \/ \A q \in Peer : Phase(q)' = IF q = p THEN "stopped" ELSE Phase(q)
    BY <1>4, <1>5, <1>7, <1>10
  <1>12. [q \in Peer |-> Senders(listenQ[q])]' = Acq!Put([q \in Peer |-> Senders(listenQ[q])], R, Acq!Process(p, inc[p]))
    BY <1>9 DEF Acq!Put
  <1> QED
    BY <1>3, <1>6, <1>8, <1>10, <1>11, <1>12 DEF Acq!Say, Acq!Stop

(* TextsOK holds by itself, given SInv: an answer never goes to listenfd.  *)
LEMMA TextsStep ==
    ASSUME RInv, Next
    PROVE  TextsOK'
  <1>1. SInv /\ TypeOK /\ TextsOK
    BY DEF RInv, SInv
  <1>2. PICK p \in Peer :
           \/ connect_to_listener(p)
           \/ find_peer_confirm(p)
           \/ find_peer_stdin(p)
           \/ find_peer_unblock(p)
           \/ find_peer_alarm(p)
           \/ message_loop_select(p)
           \/ handle_listenfd(p)
           \/ handle_joinfd(p)
           \/ stdin_end(p)
           \/ stdin_eof(p)
           \/ stdin_find(p)
           \/ stdin_find_confirm(p)
           \/ stdin_text(p)
           \/ user_types(p)
           \/ err_sys(p)
    BY NextCases
  <1>3. CASE UNCHANGED listenQ
    BY <1>1, <1>3 DEF TextsOK
  <1>4. CASE Exit(p)
    <2>1. \A q \in Peer : listenQ'[q] \subseteq listenQ[q]
      BY <1>1, <1>4 DEF Exit, TypeOK
    <2> QED
      BY <1>1, <2>1 DEF TextsOK
  <1>5. CASE handle_listenfd(p)
    <2>1. \A q \in Peer : listenQ'[q] \subseteq listenQ[q]
      BY <1>1, <1>5 DEF handle_listenfd, TypeOK
    <2> QED
      BY <1>1, <2>1 DEF TextsOK
  <1>6. CASE handle_joinfd(p)
    <2>1. PICK d \in joinQ[p] : auth_accept(p, d)
      BY <1>1, <1>6, JoinAccepts DEF Accepts
    <2> QED
      BY <1>1, <1>3, <2>1, AcceptListens
  <1>7. CASE stdin_text(p)
    <2> DEFINE txt == [body |-> "TXT", host |-> p, port |-> inc[p], inc |-> inc[p], n |-> 0]
    <2>1. PICK R : listenQ' = [q \in Peer |-> IF q \in R THEN listenQ[q] \union {txt} ELSE listenQ[q]]
      BY <1>1, <1>7, TextReaches
    <2>2. txt.body = "TXT" /\ txt.port = txt.inc /\ txt.n = 0
      OBVIOUS
    <2> HIDE DEF txt
    <2> QED
      BY <1>1, <2>1, <2>2 DEF TextsOK
  <1> QED
    BY <1>2, <1>3, <1>4, <1>5, <1>6, <1>7
       DEF connect_to_listener, find_peer_confirm, find_peer_stdin, find_peer_unblock,
           find_peer_alarm, message_loop_select, stdin_end, stdin_eof, stdin_find,
           stdin_find_confirm, user_types, err_sys

(* The invariant under which every step is one of Acquaintance.            *)
LEMMA RInvInvariant == Spec => []RInv
  <1>1. Init => TextsOK
    BY DEF Init, TextsOK
  <1>2. RInv /\ UNCHANGED vars => TextsOK'
    BY DEF RInv, TextsOK, vars
  <1>3. SInv /\ TextsOK /\ [Next]_vars => TextsOK'
    BY <1>2, TextsStep DEF RInv
  <1> QED
    BY <1>1, <1>3, SInvInvariant, PTL DEF Spec, RInv

(* A step that Acquaintance does not see.                                  *)
LEMMA Unseen ==
    ASSUME UNCHANGED <<inc, peers, sockQ, listenQ, joinQ, req>>, \A q \in Peer : Phase(q)' = Phase(q)
    PROVE  UNCHANGED Acq!vars
  <1>1. \A q \in Peer : Entered(q, "CAN")' = Entered(q, "CAN") /\ Entered(q, "OFC")' = Entered(q, "OFC")
    BY EnteredSame
  <1> QED
    BY <1>1 DEF Acq!vars

(* Every step is a step of Acquaintance, or is not seen there.             *)
LEMMA StepImplements ==
    ASSUME RInv, [Next]_vars
    PROVE  [Acq!Next]_Acq!vars
  <1>1. SInv /\ TypeOK
    BY DEF RInv, SInv
  <1>2. CASE UNCHANGED vars
    <2>1. \A q \in Peer : Phase(q)' = Phase(q)
      BY <1>2 DEF Phase, vars
    <2> QED
      BY <1>2, <2>1, Unseen DEF vars
  <1>3. ASSUME NEW p \in Peer, pc[p] # "off", Exit(p)
        PROVE  Acq!Next
    BY <1>3, ExitImplements DEF Acq!Next
  <1>4. ASSUME Next
        PROVE  [Acq!Next]_Acq!vars
    <2>1. PICK p \in Peer :
           \/ connect_to_listener(p)
           \/ find_peer_confirm(p)
           \/ find_peer_stdin(p)
           \/ find_peer_unblock(p)
           \/ find_peer_alarm(p)
           \/ message_loop_select(p)
           \/ handle_listenfd(p)
           \/ handle_joinfd(p)
           \/ stdin_end(p)
           \/ stdin_eof(p)
           \/ stdin_find(p)
           \/ stdin_find_confirm(p)
           \/ stdin_text(p)
           \/ user_types(p)
           \/ err_sys(p)
      BY <1>4, NextCases
    <2>2. CASE connect_to_listener(p)
      BY <2>2, StartImplements DEF Acq!Next
    <2>3. ASSUME \/ find_peer_confirm(p)
                 \/ find_peer_unblock(p)
                 \/ stdin_find_confirm(p)
          PROVE  Acq!Next
      <3>1. \E g \in Numbered(sockQ[p]) : Acq!Confirm(p, g)
        BY <2>3, ConfirmImplements DEF find_peer_confirm, find_peer_unblock, stdin_find_confirm
      <3> QED
        BY <3>1 DEF Acq!Next
    <2>4. CASE find_peer_stdin(p)
      <3>1. CASE sockQ[p] = {}
        <4>1. /\ pc[p] = "find" /\ pc' = [pc EXCEPT ![p] = "blocked"]
              /\ UNCHANGED <<inc, peers, sockQ, listenQ, joinQ, req>>
          BY <2>4, <3>1 DEF find_peer_stdin
        <4>2. Phase(p) = "search"
          BY <4>1, PhaseCases
        <4>3. \A q \in Peer : Phase(q)' = Phase(q)
          BY <1>1, <4>1, <4>2, PhaseMoves DEF Place
        <4> QED
          BY <4>1, <4>3, Unseen
      <3>2. CASE sockQ[p] # {}
        BY <1>3, <2>4, <3>2 DEF find_peer_stdin
      <3> QED
        BY <3>1, <3>2
    <2>5. CASE find_peer_alarm(p)
      BY <2>5, AlarmImplements DEF Acq!Next
    <2>6. CASE message_loop_select(p) \/ stdin_eof(p) \/ user_types(p)
      <3>1. UNCHANGED <<pc, inc, peers, sockQ, listenQ, joinQ, req>>
        BY <2>6 DEF message_loop_select, stdin_eof, user_types
      <3>2. \A q \in Peer : Phase(q)' = Phase(q)
        BY <3>1 DEF Phase
      <3> QED
        BY <3>1, <3>2, Unseen
    <2>7. CASE handle_listenfd(p)
      <3>1. \E t \in Senders(listenQ[p]) : Acq!Hear(p, t)
        BY <2>7, ListenImplements
      <3> QED
        BY <3>1 DEF Acq!Next
    <2>8. CASE handle_joinfd(p)
      <3>1. \E r \in Numbered(joinQ[p]) : Acq!Accept(p, r)
        BY <2>8, JoinImplements
      <3> QED
        BY <3>1 DEF Acq!Next
    <2>9. CASE stdin_end(p) \/ err_sys(p)
      BY <1>3, <2>9 DEF stdin_end, err_sys, Running
    <2>10. CASE stdin_find(p)
      BY <2>10, FindImplements DEF Acq!Next
    <2>11. CASE stdin_text(p)
      BY <2>11, TextImplements DEF Acq!Next
    <2> QED
      BY <2>1, <2>2, <2>3, <2>4, <2>5, <2>6, <2>7, <2>8, <2>9, <2>10, <2>11
  <1> QED
    BY <1>2, <1>4

(* The multicast chat implements Acquaintance: for every set of hosts, any *)
(* MAX_PEERS and any bits left in rset, each step of a process is a step   *)
(* of the membership specification, or changes nothing that it sees.       *)
THEOREM ImplementsAcquaintance == Spec => AcquaintanceSpec
  <1>1. Init => Acq!Init
    <2>1. Numbered({}) = {} /\ Senders({}) = {}
      BY DEF Numbered, Senders
    <2>2. Init => \A p \in Peer : /\ Phase(p) = "off"
                                  /\ Entered(p, "CAN") = {} /\ Entered(p, "OFC") = {}
      <3> SUFFICES ASSUME Init, NEW p \in Peer
                   PROVE  /\ Phase(p) = "off"
                          /\ Entered(p, "CAN") = {} /\ Entered(p, "OFC") = {}
        OBVIOUS
      <3>1. pc[p] = "off" /\ peers[p] = <<>>
        BY DEF Init
      <3>2. Phase(p) = "off"
        BY <3>1, PhaseCases
      <3>3. DOMAIN <<>> = {}
        OBVIOUS
      <3>4. ASSUME NEW via PROVE Entered(p, via) = {}
        BY <3>1, <3>3 DEF Entered
      <3> QED
        BY <3>2, <3>4
    <2> QED
      BY <2>1, <2>2 DEF Init, Acq!Init
  <1>2. RInv /\ [Next]_vars => [Acq!Next]_Acq!vars
    BY StepImplements
  <1> QED
    BY <1>1, <1>2, RInvInvariant, PTL DEF Spec, AcquaintanceSpec, Acq!Spec
=============================================================================
