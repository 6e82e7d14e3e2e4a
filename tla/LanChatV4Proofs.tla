-------------------------- MODULE LanChatV4Proofs --------------------------
(***************************************************************************)
(* Theorems about LanChatV4, for every set of hosts of a /24 subnet, every *)
(* set of users named "auth", every size of the table peers, every number  *)
(* of starts and requests, with and without loss.                          *)
(*                                                                         *)
(* The broadcast chat shares all but three actions with the multicast one: *)
(* for the shared ones the lemmas of LanChatV5Proofs are used as they are  *)
(* (P!...), and the three of its own are shown to keep the same invariants *)
(* and to implement the same specification, Acquaintance.                  *)
(***************************************************************************)
EXTENDS LanChatV4, TLAPS

P == INSTANCE LanChatV5Proofs

(* The constants are those LanChatV5 asks for.                             *)
LEMMA Constants ==
    P!MaxPeersAssumption /\ P!LossyAssumption /\ P!StrayAssumption /\ P!BoundsAssumption
  BY MaxPeersAssumption, LossyAssumption, StrayAssumption, BoundsAssumption
     DEF P!MaxPeersAssumption, P!LossyAssumption, P!StrayAssumption, P!BoundsAssumption

-----------------------------------------------------------------------------
(* What LanChatV4 takes from LanChatV5 is what LanChatV5Proofs speaks of.  *)

(* The types are those of v5.                                              *)
LEMMA SameType == TypeOK <=> P!TypeOK
  BY DEF TypeOK, V5!TypeOK, P!TypeOK, V5!Place, P!Place,
         V5!PeerEntry, P!PeerEntry, V5!Datagram, P!Datagram

(* So are the initial states.                                              *)
LEMMA SameInit == Init <=> P!Init
  BY DEF Init, V5!Init, P!Init

(* The promise made is the same.                                           *)
LEMMA SameMutual == ConfirmedIsMutual <=> P!ConfirmedIsMutual
  BY DEF ConfirmedIsMutual, V5!ConfirmedIsMutual, P!ConfirmedIsMutual,
         V5!Answered, P!Answered, V5!Lists, P!Lists, V5!Running, P!Running,
         V5!Listening, P!Listening

(* A process ends as in v5.                                                *)
LEMMA SameExit ==
    ASSUME NEW p \in Peer, V5!Exit(p)
    PROVE  P!Exit(p)
  BY DEF V5!Exit, P!Exit

(* The request of a search is sent as in v5.                               *)
LEMMA SameRequest ==
    ASSUME NEW p \in Peer, NEW c, NEW i, V5!auth_request(p, c, i)
    PROVE  P!auth_request(p, c, i)
  BY DEF V5!auth_request, P!auth_request, V5!Reached, P!Reached, V5!Members, P!Members,
         V5!Listening, P!Listening

(* An entry is added as in v5.                                             *)
LEMMA SameAddPeer ==
    ASSUME NEW p \in Peer, NEW e, NEW next, V5!AddPeer(p, e, next)
    PROVE  P!AddPeer(p, e, next)
  BY DEF V5!AddPeer, P!AddPeer

(* An answer is read as in v5.                                             *)
LEMMA SameConfirm ==
    ASSUME NEW p \in Peer, NEW next, V5!auth_try_confirm(p, next)
    PROVE  P!auth_try_confirm(p, next)
  BY SameAddPeer DEF V5!auth_try_confirm, P!auth_try_confirm, V5!Confirmer, P!Confirmer

(* A request is accepted as in v5.                                         *)
LEMMA SameAccept ==
    ASSUME NEW p \in Peer, NEW d, V5!auth_accept(p, d)
    PROVE  P!auth_accept(p, d)
  BY DEF V5!auth_accept, P!auth_accept, V5!Reached, P!Reached, V5!AnswerAddress, P!AnswerAddress,
         V5!Sendto, P!Sendto, V5!AtListenfd, P!AtListenfd, V5!AtSockfd, P!AtSockfd,
         V5!CHAT_PORT, P!CHAT_PORT, V5!Listening, P!Listening, V5!Running, P!Running

(* The entry of a requester is the same.                                   *)
LEMMA SameRequester ==
    ASSUME NEW d
    PROVE  V5!Requester(d) = P!Requester(d)
  BY DEF V5!Requester, P!Requester, V5!CHAT_PORT, P!CHAT_PORT

(* The actions that both programs have.                                    *)
Shared(p) ==
    \/ P!connect_to_listener(p)
    \/ P!find_peer_confirm(p)
    \/ P!find_peer_stdin(p)
    \/ P!find_peer_unblock(p)
    \/ P!find_peer_alarm(p)
    \/ P!stdin_end(p)
    \/ P!stdin_eof(p)
    \/ P!stdin_find(p)
    \/ P!stdin_find_confirm(p)
    \/ P!user_types(p)
    \/ P!err_sys(p)

(* Every step is one of them or one of LanChatV4's own three.              *)
LEMMA NextCases ==
    ASSUME Next
    PROVE  \E p \in Peer : \/ Shared(p)
                           \/ message_loop_select(p)
                           \/ handle_listenfd(p)
                           \/ stdin_text(p)
  <1>1. PICK p \in Peer : \/ connect_to_listener(p)
                          \/ FindStep(p)
                          \/ LoopStep(p)
                          \/ user_types(p)
                          \/ err_sys(p)
    BY DEF Next
  <1>2. CASE connect_to_listener(p)
    <2>1. P!connect_to_listener(p)
      BY <1>2, SameRequest DEF connect_to_listener, V5!connect_to_listener, P!connect_to_listener
    <2> QED
      BY <2>1 DEF Shared
  <1>3. CASE FindStep(p)
    <2>1. CASE find_peer_confirm(p)
      <3>1. P!find_peer_confirm(p)
        BY <2>1, SameConfirm DEF find_peer_confirm, V5!find_peer_confirm, P!find_peer_confirm,
                                 V5!StdinInPselect, P!StdinInPselect
      <3> QED
        BY <3>1 DEF Shared
    <2>2. CASE find_peer_stdin(p)
      <3>1. P!find_peer_stdin(p)
        BY <2>2, SameExit DEF find_peer_stdin, V5!find_peer_stdin, P!find_peer_stdin,
                              V5!StdinInPselect, P!StdinInPselect
      <3> QED
        BY <3>1 DEF Shared
    <2>3. CASE find_peer_unblock(p)
      <3>1. P!find_peer_unblock(p)
        BY <2>3, SameConfirm DEF find_peer_unblock, V5!find_peer_unblock, P!find_peer_unblock
      <3> QED
        BY <3>1 DEF Shared
    <2>4. CASE find_peer_alarm(p)
      <3>1. P!find_peer_alarm(p)
        BY <2>4 DEF find_peer_alarm, V5!find_peer_alarm, P!find_peer_alarm,
                    V5!StdinInPselect, P!StdinInPselect
      <3> QED
        BY <3>1 DEF Shared
    <2> QED
      BY <1>3, <2>1, <2>2, <2>3, <2>4 DEF FindStep
  <1>4. CASE LoopStep(p)
    <2>1. CASE stdin_end(p)
      <3>1. P!stdin_end(p)
        BY <2>1, SameExit DEF stdin_end, V5!stdin_end, P!stdin_end
      <3> QED
        BY <3>1 DEF Shared
    <2>2. CASE stdin_eof(p)
      <3>1. P!stdin_eof(p)
        BY <2>2 DEF stdin_eof, V5!stdin_eof, P!stdin_eof
      <3> QED
        BY <3>1 DEF Shared
    <2>3. CASE stdin_find(p)
      <3>1. P!stdin_find(p)
        BY <2>3, SameRequest DEF stdin_find, V5!stdin_find, P!stdin_find,
                                 V5!ReadStdin, P!ReadStdin
      <3> QED
        BY <3>1 DEF Shared
    <2>4. CASE stdin_find_confirm(p)
      <3>1. P!stdin_find_confirm(p)
        BY <2>4, SameConfirm DEF stdin_find_confirm, V5!stdin_find_confirm, P!stdin_find_confirm
      <3> QED
        BY <3>1 DEF Shared
    <2> QED
      BY <1>4, <2>1, <2>2, <2>3, <2>4 DEF LoopStep, StdinStep
  <1>5. CASE user_types(p)
    <2>1. P!user_types(p)
      BY <1>5 DEF user_types, V5!user_types, P!user_types, V5!Running, P!Running
    <2> QED
      BY <2>1 DEF Shared
  <1>6. CASE err_sys(p)
    <2>1. P!err_sys(p)
      BY <1>6, SameExit DEF err_sys, V5!err_sys, P!err_sys, V5!Running, P!Running
    <2> QED
      BY <2>1 DEF Shared
  <1> QED
    BY <1>1, <1>2, <1>3, <1>4, <1>5, <1>6

(* They are steps of LanChatV5.                                            *)
LEMMA SharedIsV5 ==
    ASSUME NEW p \in Peer, Shared(p)
    PROVE  P!Next
  BY DEF Shared, P!Next, P!FindStep, P!LoopStep, P!StdinStep

-----------------------------------------------------------------------------
(* What the three actions do.                                              *)

(* The text of the process of p, as listenfd tells texts from requests.    *)
Text(p, b) == [body |-> b, host |-> p, port |-> inc[p], inc |-> inc[p], n |-> 0]

(* A text is a datagram, whatever its first bytes read like.               *)
LEMMA TextType ==
    ASSUME P!TypeOK, NEW p \in Peer, NEW b \in {"CAN", "OFC", "TXT"}
    PROVE  Text(p, b) \in P!Datagram
  BY DEF Text, P!Datagram, P!TypeOK

(* A text changes nothing but the buffers of listenfd of listening hosts.  *)
LEMMA TextEffect ==
    ASSUME NEW p \in Peer, stdin_text(p)
    PROVE  /\ \/ joinQ' = joinQ
              \/ \E R : joinQ' = Deliver(joinQ, R, Text(p, "CAN"))
           /\ \/ listenQ' = listenQ
              \/ \E R : listenQ' = Deliver(listenQ, R, Text(p, "TXT"))
           /\ \/ pc' = [pc EXCEPT ![p] = "loop"]
              \/ pc' = [pc EXCEPT ![p] = "failed"]
           /\ pc[p] = "loop"
           /\ rset' = [rset EXCEPT ![p] = {}] /\ typed' = [typed EXCEPT ![p] = FALSE]
           /\ UNCHANGED <<inc, peers, sockQ, stray, req>>
  <1>1. PICK k \in 0 .. Len(peers[p]) :
           /\ \E R \in V5!Reached({peers[p][i].host : i \in 1 .. k}) :
                \/ /\ listenQ' = Deliver(listenQ, R, Text(p, "TXT"))
                   /\ UNCHANGED joinQ
                \/ /\ joinQ' = Deliver(joinQ, R, Text(p, "CAN"))
                   /\ UNCHANGED listenQ
           /\ pc' = [pc EXCEPT ![p] = IF k < Len(peers[p]) THEN "failed" ELSE "loop"]
    BY DEF stdin_text, Text
  <1> QED
    BY <1>1 DEF stdin_text, V5!ReadStdin

(* A delivery keeps the buffers sets of datagrams.                         *)
LEMMA DeliverType ==
    ASSUME NEW Q \in [Peer -> SUBSET P!Datagram], NEW R, NEW d \in P!Datagram
    PROVE  Deliver(Q, R, d) \in [Peer -> SUBSET P!Datagram]
  BY DEF Deliver

(* Chat messages are never taken for requests.                             *)
ListenOK == \A p \in Peer : \A d \in listenQ[p] : d.body # "CAN"

(* A datagram read from listenfd is a request that is accepted, and not    *)
(* the reader's own, or it goes away and nothing else happens.             *)
LEMMA ListenEffect ==
    ASSUME P!TypeOK, ListenOK, NEW p \in Peer, handle_listenfd(p)
    PROVE  \/ /\ P!Accepts(p)
              /\ \E d \in joinQ[p] :
                    /\ d.host # p
                    /\ P!auth_accept(p, d) /\ P!AddPeer(p, P!Requester(d), "loop")
           \/ UNCHANGED <<pc, inc, peers, sockQ>>
  <1>1. PICK d \in listenQ[p] \union joinQ[p] :
           joinQ' = [joinQ EXCEPT ![p] = @ \ {d}] /\ Handle(p, d)
    BY DEF handle_listenfd
  <1>2. CASE d.body = "CAN" /\ ~Ignores(p, d.host)
    <2>1. d \in joinQ[p]
      BY <1>1, <1>2 DEF ListenOK
    <2>2. V5!auth_accept(p, d) /\ V5!AddPeer(p, V5!Requester(d), "loop")
      BY <1>1, <1>2 DEF Handle
    <2>3. P!auth_accept(p, d) /\ P!AddPeer(p, P!Requester(d), "loop")
      BY <2>2, SameAccept, SameAddPeer, SameRequester
    <2>4. Ignores(p, p)
      <3>1. p \in Nat /\ p \div 1 = p
        BY OctetAssumption
      <3> QED
        BY <3>1 DEF Ignores
    <2>5. pc[p] = "loop" /\ inc' = inc
      BY DEF handle_listenfd
    <2>6. P!Accepts(p)
      BY <1>1, <2>1, <2>3, <2>5 DEF P!Accepts
    <2> QED
      BY <1>2, <2>1, <2>3, <2>4, <2>6
  <1>3. CASE ~(d.body = "CAN" /\ ~Ignores(p, d.host))
    BY <1>1, <1>3 DEF Handle, handle_listenfd
  <1> QED
    BY <1>2, <1>3

-----------------------------------------------------------------------------
(* Types.                                                                  *)
LEMMA TypeStep ==
    ASSUME P!TypeOK, Next
    PROVE  P!TypeOK'
  <1>1. PICK p \in Peer : \/ Shared(p)
                          \/ message_loop_select(p)
                          \/ handle_listenfd(p)
                          \/ stdin_text(p)
    BY NextCases
  <1>2. CASE Shared(p)
    BY <1>2, SharedIsV5, Constants, P!TypeStep
  <1>3. CASE message_loop_select(p)
    BY <1>3 DEF message_loop_select, Readable, P!TypeOK
  <1>4. CASE handle_listenfd(p)
    <2>1. PICK d \in listenQ[p] \union joinQ[p] :
             /\ listenQ' = [listenQ EXCEPT ![p] = @ \ {d}]
             /\ joinQ' = [joinQ EXCEPT ![p] = @ \ {d}]
             /\ Handle(p, d)
      BY <1>4 DEF handle_listenfd
    <2>2. /\ listenQ' \in [Peer -> SUBSET P!Datagram]
          /\ joinQ' \in [Peer -> SUBSET P!Datagram]
      BY <2>1 DEF P!TypeOK
    <2>3. /\ pc' \in [Peer -> P!Place]
          /\ peers' \in [Peer -> Seq(P!PeerEntry)]
          /\ sockQ' \in [Peer -> SUBSET P!Datagram]
      <3>1. CASE d.body = "CAN" /\ ~Ignores(p, d.host)
        <4> DEFINE ofc == [body |-> "OFC", host |-> p, port |-> P!CHAT_PORT,
                           inc |-> inc[p], n |-> d.n]
        <4>1. V5!auth_accept(p, d) /\ V5!AddPeer(p, V5!Requester(d), "loop")
          BY <2>1, <3>1 DEF Handle
        <4>2. P!auth_accept(p, d) /\ P!AddPeer(p, P!Requester(d), "loop")
          BY <4>1, SameAccept, SameAddPeer, SameRequester
        <4>3. d \in P!Datagram
          BY DEF P!TypeOK
        <4>4. ofc \in P!Datagram
          BY <4>3 DEF P!Datagram, P!TypeOK, P!CHAT_PORT
        <4>5. PICK A \in P!Reached({P!AnswerAddress(d)}) : P!Sendto(A, ofc)
          BY <4>2 DEF P!auth_accept
        <4>6. sockQ' \in [Peer -> SUBSET P!Datagram]
          BY <4>4, <4>5, Constants, P!SendtoType
        <4>7. P!Requester(d) \in P!PeerEntry /\ "loop" \in P!Place
          BY <4>3 DEF P!Datagram, P!PeerEntry, P!Requester, P!CHAT_PORT, P!Place
        <4>8. pc' \in [Peer -> P!Place] /\ peers' \in [Peer -> Seq(P!PeerEntry)]
          BY <4>2, <4>7, Constants, P!AddPeerType
        <4> QED
          BY <4>6, <4>8
      <3>2. CASE ~(d.body = "CAN" /\ ~Ignores(p, d.host))
        BY <2>1, <3>2 DEF Handle, P!TypeOK
      <3> QED
        BY <3>1, <3>2
    <2> QED
      BY <1>4, <2>2, <2>3 DEF handle_listenfd, P!TypeOK
  <1>5. CASE stdin_text(p)
    <2>1. joinQ' \in [Peer -> SUBSET P!Datagram] /\ listenQ' \in [Peer -> SUBSET P!Datagram]
      <3>1. /\ joinQ \in [Peer -> SUBSET P!Datagram] /\ listenQ \in [Peer -> SUBSET P!Datagram]
            /\ Text(p, "CAN") \in P!Datagram /\ Text(p, "TXT") \in P!Datagram
        BY TextType DEF P!TypeOK
      <3>2. /\ \/ joinQ' = joinQ
               \/ \E R : joinQ' = Deliver(joinQ, R, Text(p, "CAN"))
            /\ \/ listenQ' = listenQ
               \/ \E R : listenQ' = Deliver(listenQ, R, Text(p, "TXT"))
        BY <1>5, TextEffect
      <3>3. \A R : /\ Deliver(joinQ, R, Text(p, "CAN")) \in [Peer -> SUBSET P!Datagram]
                   /\ Deliver(listenQ, R, Text(p, "TXT")) \in [Peer -> SUBSET P!Datagram]
        BY <3>1, DeliverType
      <3> QED
        BY <3>1, <3>2, <3>3, Zenon
    <2>2. pc' \in [Peer -> P!Place]
      <3>1. pc' = [pc EXCEPT ![p] = "loop"] \/ pc' = [pc EXCEPT ![p] = "failed"]
        BY <1>5, TextEffect, Zenon
      <3>2. pc \in [Peer -> P!Place] /\ "loop" \in P!Place /\ "failed" \in P!Place
        BY DEF P!TypeOK, P!Place
      <3> QED
        BY <3>1, <3>2
    <2>3. /\ rset' = [rset EXCEPT ![p] = {}] /\ typed' = [typed EXCEPT ![p] = FALSE]
          /\ UNCHANGED <<inc, peers, sockQ, stray, req>>
      BY <1>5, TextEffect
    <2> QED
      BY <2>1, <2>2, <2>3 DEF P!TypeOK
  <1> QED
    BY <1>1, <1>2, <1>3, <1>4, <1>5

(* The types hold in every reachable state.                                *)
LEMMA TypeInvariant == Spec => []P!TypeOK
  <1>1. Init => P!TypeOK
    <2> SUFFICES ASSUME P!Init
                 PROVE  P!TypeOK
      BY SameInit
    <2> QED
      BY DEF P!Init, P!TypeOK, P!Place
  <1>2. P!TypeOK /\ [Next]_vars => P!TypeOK'
    <2>1. P!TypeOK /\ UNCHANGED vars => P!TypeOK'
      BY DEF P!TypeOK, vars
    <2> QED
      BY <2>1, TypeStep
  <1> QED
    BY <1>1, <1>2, PTL DEF Spec

(* Every reachable state of the broadcast chat is one of the declared      *)
(* types.                                                                  *)
THEOREM TypeCorrect == Spec => []TypeOK
  <1>1. P!TypeOK => TypeOK
    BY SameType
  <1> QED
    BY <1>1, TypeInvariant, PTL

-----------------------------------------------------------------------------
(***************************************************************************)
(* The filter.  That no process lists itself is not inductive by itself:   *)
(* an entry is made from a request, which Handle compares with bind_addr,  *)
(* or from an answer, which nobody compares with anything.  But a process  *)
(* that does not accept its own request has no answer of its own to read.  *)
(* Besides, Handle would take a chat message for a request if its text     *)
(* were one: listenQ holds those that are not.                             *)
(***************************************************************************)
NotToSelf == \A p \in Peer : \A d \in sockQ[p] : d.host # p

FInv == ListenOK /\ NotToSelf /\ NeverListsSelf

(* FInv survives steps that add nothing to lists and answers.              *)
LEMMA QuietFInv ==
    ASSUME FInv, UNCHANGED <<peers, sockQ>>,
           \A p \in Peer : \A d \in listenQ'[p] : d \in listenQ[p] \/ d.body # "CAN"
    PROVE  FInv'
  BY DEF FInv, ListenOK, NotToSelf, NeverListsSelf

(* FInv survives a confirmation: the answer comes from another host.       *)
LEMMA ConfirmFInv ==
    ASSUME P!SInv, FInv, NEW p \in Peer, NEW next \in P!Place,
           P!auth_try_confirm(p, next), UNCHANGED listenQ
    PROVE  FInv'
  <1>1. PICK d \in sockQ[p] :
               /\ sockQ' = [sockQ EXCEPT ![p] = @ \ {d}]
               /\ d \in P!Datagram
               /\ P!Confirmer(d) \in P!PeerEntry
               /\ P!AddPeer(p, P!Confirmer(d), next)
    BY Constants, P!ConfirmEffect
  <1>2. P!TypeOK
    BY DEF P!SInv
  <1>3. /\ \A q \in Peer \ {p} : peers'[q] = peers[q]
        /\ \A i \in DOMAIN peers'[p] :
               \/ peers'[p][i] = P!Confirmer(d)
               \/ i \in DOMAIN peers[p] /\ peers'[p][i] = peers[p][i]
    BY <1>1, <1>2, Constants, P!AddPeerEffect
  <1>4. P!Confirmer(d).host = d.host /\ d.host # p
    BY <1>1 DEF P!Confirmer, FInv, NotToSelf
  <1>5. NeverListsSelf'
    BY <1>3, <1>4 DEF FInv, NeverListsSelf
  <1>6. NotToSelf'
    BY <1>1, <1>2 DEF FInv, NotToSelf, P!TypeOK
  <1> QED
    BY <1>5, <1>6 DEF FInv, ListenOK

(* FInv survives the end of a process.                                     *)
LEMMA ExitFInv ==
    ASSUME P!TypeOK, FInv, NEW p \in Peer, P!Exit(p)
    PROVE  FInv'
  <1>1. /\ \A q \in Peer \ {p} : /\ peers'[q] = peers[q] /\ sockQ'[q] = sockQ[q]
                                 /\ listenQ'[q] = listenQ[q]
        /\ peers'[p] = <<>> /\ sockQ'[p] = {} /\ listenQ'[p] = {}
    BY DEF P!Exit, P!TypeOK
  <1> QED
    BY <1>1 DEF FInv, ListenOK, NotToSelf, NeverListsSelf

(* FInv survives the shared actions.                                       *)
LEMMA SharedFInv ==
    ASSUME P!SInv, FInv, NEW p \in Peer, Shared(p)
    PROVE  FInv'
  <1>0. P!TypeOK /\ "find" \in P!Place /\ "loop" \in P!Place
    BY DEF P!SInv, P!Place
  <1>1. CASE P!connect_to_listener(p)
    BY <1>1, QuietFInv DEF P!connect_to_listener
  <1>2. CASE P!find_peer_confirm(p)
    BY <1>0, <1>2, ConfirmFInv DEF P!find_peer_confirm
  <1>3. CASE P!find_peer_stdin(p)
    <2>1. CASE sockQ[p] = {}
      BY <1>3, <2>1, QuietFInv DEF P!find_peer_stdin
    <2>2. CASE sockQ[p] # {}
      BY <1>0, <1>3, <2>2, ExitFInv DEF P!find_peer_stdin
    <2> QED
      BY <2>1, <2>2
  <1>4. CASE P!find_peer_unblock(p)
    BY <1>0, <1>4, ConfirmFInv DEF P!find_peer_unblock
  <1>5. CASE P!find_peer_alarm(p)
    BY <1>5, QuietFInv DEF P!find_peer_alarm
  <1>6. CASE P!stdin_end(p)
    BY <1>0, <1>6, ExitFInv DEF P!stdin_end
  <1>7. CASE P!stdin_eof(p)
    BY <1>7, QuietFInv DEF P!stdin_eof
  <1>8. CASE P!stdin_find(p)
    BY <1>8, QuietFInv DEF P!stdin_find
  <1>9. CASE P!stdin_find_confirm(p)
    BY <1>0, <1>9, ConfirmFInv DEF P!stdin_find_confirm
  <1>10. CASE P!user_types(p)
    BY <1>10, QuietFInv DEF P!user_types
  <1>11. CASE P!err_sys(p)
    BY <1>0, <1>11, ExitFInv DEF P!err_sys
  <1> QED
    BY <1>1, <1>2, <1>3, <1>4, <1>5, <1>6, <1>7, <1>8, <1>9, <1>10, <1>11 DEF Shared

(* FInv survives the acceptance of another host's request.                 *)
LEMMA AcceptFInv ==
    ASSUME P!SInv, FInv, NEW p \in Peer, NEW d \in joinQ[p], d.host # p,
           P!auth_accept(p, d), P!AddPeer(p, P!Requester(d), "loop"), handle_listenfd(p)
    PROVE  FInv'
  <1> DEFINE ofc == [body |-> "OFC", host |-> p, port |-> P!CHAT_PORT,
                     inc |-> inc[p], n |-> d.n]
  <1> DEFINE a == P!AnswerAddress(d)
  <1>1. P!TypeOK /\ d \in P!Datagram /\ "loop" \in P!Place
    BY DEF P!SInv, P!TypeOK, P!Place
  <1>2. P!Requester(d) \in P!PeerEntry /\ P!Requester(d).host = d.host
    BY <1>1 DEF P!Datagram, P!PeerEntry, P!Requester, P!CHAT_PORT
  <1>3. /\ \A q \in Peer \ {p} : peers'[q] = peers[q]
        /\ \A i \in DOMAIN peers'[p] :
               \/ peers'[p][i] = P!Requester(d)
               \/ i \in DOMAIN peers[p] /\ peers'[p][i] = peers[p][i]
    BY <1>1, <1>2, Constants, P!AddPeerEffect
  <1>4. NeverListsSelf'
    BY <1>2, <1>3 DEF FInv, NeverListsSelf
  <1>5. PICK A \in P!Reached({a}) : P!Sendto(A, ofc)
    BY DEF P!auth_accept
  <1>6. A \subseteq {a} /\ a.host = d.host
    BY <1>5 DEF P!Reached, P!AnswerAddress
  <1>7. sockQ' = [q \in Peer |->
            IF \E b \in A : b.host = q /\ P!AtSockfd(b)
            THEN sockQ[q] \union {ofc} ELSE sockQ[q]]
    BY <1>5 DEF P!Sendto
  <1>8. NotToSelf'
    <2> SUFFICES ASSUME NEW q \in Peer, NEW c \in sockQ'[q]
                 PROVE  c.host # q
      BY DEF NotToSelf
    <2>1. CASE c \in sockQ[q]
      BY <2>1 DEF FInv, NotToSelf
    <2>2. CASE c = ofc /\ q = d.host
      BY <2>2
    <2> QED
      BY <1>6, <1>7, <2>1, <2>2
  <1>9. ListenOK'
    <2>1. \A q \in Peer : listenQ'[q] \subseteq listenQ[q]
      BY <1>1 DEF handle_listenfd, P!TypeOK
    <2> QED
      BY <2>1 DEF FInv, ListenOK
  <1> QED
    BY <1>4, <1>8, <1>9 DEF FInv

(* FInv is inductive, relative to the invariant of LanChatV5.              *)
LEMMA FInvStep ==
    ASSUME P!SInv, FInv, Next
    PROVE  FInv'
  <1>0. P!TypeOK
    BY DEF P!SInv
  <1>1. PICK p \in Peer : \/ Shared(p)
                          \/ message_loop_select(p)
                          \/ handle_listenfd(p)
                          \/ stdin_text(p)
    BY NextCases
  <1>2. CASE Shared(p)
    BY <1>2, SharedFInv
  <1>3. CASE message_loop_select(p)
    BY <1>3, QuietFInv DEF message_loop_select
  <1>4. CASE handle_listenfd(p)
    <2>1. CASE \E d \in joinQ[p] :
                  /\ d.host # p
                  /\ P!auth_accept(p, d) /\ P!AddPeer(p, P!Requester(d), "loop")
      BY <1>4, <2>1, AcceptFInv
    <2>2. CASE UNCHANGED <<pc, inc, peers, sockQ>>
      <3>1. \A q \in Peer : listenQ'[q] \subseteq listenQ[q]
        BY <1>0, <1>4 DEF handle_listenfd, P!TypeOK
      <3> QED
        BY <2>2, <3>1, QuietFInv
    <2> QED
      BY <1>0, <1>4, <2>1, <2>2, ListenEffect DEF FInv
  <1>5. CASE stdin_text(p)
    <2>1. ASSUME NEW q \in Peer, NEW d \in listenQ'[q]
          PROVE  d \in listenQ[q] \/ d.body # "CAN"
      <3>1. CASE listenQ' = listenQ
        BY <2>1, <3>1
      <3>2. CASE \E R : listenQ' = Deliver(listenQ, R, Text(p, "TXT"))
        <4>1. d \in listenQ[q] \/ d = Text(p, "TXT")
          BY <2>1, <3>2 DEF Deliver
        <4> QED
          BY <4>1 DEF Text
      <3> QED
        BY <1>5, <3>1, <3>2, TextEffect
    <2> QED
      BY <1>5, <2>1, TextEffect, QuietFInv
  <1> QED
    BY <1>1, <1>2, <1>3, <1>4, <1>5

-----------------------------------------------------------------------------
(***************************************************************************)
(* LanChatV5's invariants.  What joinfd held there, joinQ holds here: also *)
(* a text that reads ``auth: CAN'' carries the port of the sockfd it was   *)
(* sent from, so it cannot be told from a request of the same process.     *)
(***************************************************************************)

(* Steps that leave lists and answers alone and add such texts only.       *)
LEMMA QuietSInv ==
    ASSUME P!SInv, P!TypeOK', UNCHANGED <<inc, peers, sockQ>>,
           \A q \in Peer : pc'[q] = "off" <=> pc[q] = "off",
           \A q \in Peer : \A d \in joinQ'[q] :
               \/ d \in joinQ[q]
               \/ /\ pc[q] # "off"
                  /\ d.body = "CAN" /\ d.port = d.inc /\ d.inc # P!CHAT_PORT
                  /\ d.inc <= inc[d.host]
    PROVE  P!SInv'
  <1>1. P!RequestsOK'
    BY DEF P!SInv, P!RequestsOK
  <1>2. P!OffOK'
    BY DEF P!SInv, P!OffOK
  <1>3. P!EntriesOK' /\ P!AnswersOK' /\ P!StartedOK'
    BY DEF P!SInv, P!EntriesOK, P!AnswersOK, P!StartedOK
  <1> QED
    BY <1>1, <1>2, <1>3 DEF P!SInv

(* A text is such a step.                                                  *)
LEMMA TextSInv ==
    ASSUME P!SInv, P!TypeOK', NEW p \in Peer, stdin_text(p)
    PROVE  P!SInv'
  <1>1. P!TypeOK /\ pc[p] = "loop" /\ inc[p] # P!CHAT_PORT /\ inc[p] \in Nat
    BY TextEffect DEF P!SInv, P!TypeOK, P!StartedOK
  <1>2. \A q \in Peer : pc'[q] = "off" <=> pc[q] = "off"
    <2>1. CASE pc' = [pc EXCEPT ![p] = "loop"]
      BY <1>1, <2>1 DEF P!TypeOK
    <2>2. CASE pc' = [pc EXCEPT ![p] = "failed"]
      BY <1>1, <2>2 DEF P!TypeOK
    <2> QED
      BY <2>1, <2>2, TextEffect
  <1>3. ASSUME NEW q \in Peer, NEW d \in joinQ'[q], d \notin joinQ[q]
        PROVE  /\ pc[q] # "off"
               /\ d.body = "CAN" /\ d.port = d.inc /\ d.inc # P!CHAT_PORT
               /\ d.inc <= inc[d.host]
    <2>1. \E R : joinQ' = Deliver(joinQ, R, Text(p, "CAN"))
      BY <1>3, TextEffect
    <2>2. d = Text(p, "CAN") /\ pc[q] \in V5!Listening
      BY <1>3, <2>1 DEF Deliver
    <2> QED
      BY <1>1, <2>2 DEF Text, V5!Listening
  <1>4. UNCHANGED <<inc, peers, sockQ>>
    BY TextEffect
  <1> QED
    BY <1>2, <1>3, <1>4, QuietSInv

(* Both invariants survive what happens to a datagram that is dropped or   *)
(* printed.                                                                *)
LEMMA DropSInv ==
    ASSUME P!SInv, P!TypeOK', NEW p \in Peer, handle_listenfd(p),
           UNCHANGED <<pc, inc, peers, sockQ>>
    PROVE  P!SInv'
  <1>1. \A q \in Peer : joinQ'[q] \subseteq joinQ[q]
    BY DEF handle_listenfd, P!SInv, P!TypeOK
  <1> QED
    BY <1>1, QuietSInv

(* Inv is what the theorems below follow from.                             *)
Inv == P!SInv /\ P!KInv /\ FInv

(* Every step keeps Inv: one case per action.                              *)
LEMMA InvStep ==
    ASSUME Inv, Next
    PROVE  Inv'
  <1>0. P!SInv /\ P!KInv /\ FInv /\ P!TypeOK
    BY DEF Inv, P!SInv
  <1>1. P!TypeOK' /\ FInv'
    BY <1>0, TypeStep, FInvStep
  <1>2. PICK p \in Peer : \/ Shared(p)
                          \/ message_loop_select(p)
                          \/ handle_listenfd(p)
                          \/ stdin_text(p)
    BY NextCases
  <1>3. CASE Shared(p)
    <2>1. P!Next
      BY <1>3, SharedIsV5
    <2>2. P!SInv'
      BY <1>0, <2>1, Constants, P!SInvStep
    <2>3. P!KInv'
      BY <1>0, <2>1, Constants, P!KInvStep
    <2> QED
      BY <1>1, <2>2, <2>3 DEF Inv
  <1>4. CASE message_loop_select(p)
    <2>1. UNCHANGED <<pc, inc, peers, sockQ, joinQ>>
      BY <1>4 DEF message_loop_select
    <2>2. P!SInv'
      BY <1>0, <1>1, <2>1, QuietSInv
    <2>3. P!KInv'
      BY <1>0, <2>1, Constants, P!KnownSameStep
    <2> QED
      BY <1>1, <2>2, <2>3 DEF Inv
  <1>5. CASE handle_listenfd(p)
    <2>1. CASE P!Accepts(p)
      <3>1. P!SInv'
        BY <1>0, <1>1, <2>1, Constants, P!JoinSInv
      <3>2. P!KInv'
        BY <1>0, <2>1, Constants, P!KnownJoinStep
      <3> QED
        BY <1>1, <3>1, <3>2 DEF Inv
    <2>2. CASE UNCHANGED <<pc, inc, peers, sockQ>>
      <3>1. P!SInv'
        BY <1>0, <1>1, <1>5, <2>2, DropSInv
      <3>2. P!KInv'
        BY <1>0, <2>2, Constants, P!KnownSameStep
      <3> QED
        BY <1>1, <3>1, <3>2 DEF Inv
    <2> QED
      BY <1>0, <1>5, <2>1, <2>2, ListenEffect DEF FInv
  <1>6. CASE stdin_text(p)
    <2>1. P!SInv'
      BY <1>0, <1>1, <1>6, TextSInv
    <2>2. UNCHANGED <<inc, peers, sockQ>> /\ pc[p] = "loop"
      BY <1>6, TextEffect
    <2>3. pc' = [pc EXCEPT ![p] = "loop"] \/ pc' = [pc EXCEPT ![p] = "failed"]
      BY <1>6, TextEffect
    <2>4. \A q \in Peer : pc'[q] = pc[q] \/ (pc[q] = "loop" /\ pc'[q] = "failed")
      BY <1>0, <2>2, <2>3 DEF P!TypeOK
    <2>5. \A q \in Peer :
              /\ pc'[q] \in P!Listening => pc[q] \in P!Listening \union P!Searching
              /\ pc'[q] \in P!Searching => pc[q] \in P!Searching
              /\ pc'[q] \in P!Running => pc[q] \in P!Running
      BY <2>4 DEF P!Listening, P!Searching, P!Running
    <2>6. P!KInv'
      BY <1>0, <2>2, <2>5, Constants, P!KnownSameStep
    <2> QED
      BY <1>1, <2>1, <2>6 DEF Inv
  <1> QED
    BY <1>2, <1>3, <1>4, <1>5, <1>6

(* Inv holds in every reachable state.                                     *)
LEMMA InvInvariant == Spec => []Inv
  <1>1. Init => Inv
    <2> SUFFICES ASSUME P!Init
                 PROVE  Inv
      BY SameInit
    <2>1. P!TypeOK
      BY DEF P!Init, P!TypeOK, P!Place
    <2>2. P!SInv
      BY <2>1 DEF P!Init, P!SInv, P!EntriesOK, P!AnswersOK, P!RequestsOK, P!OffOK, P!StartedOK
    <2>3. P!KInv
      BY DEF P!Init, P!KInv, P!QuietOK, P!ConfirmedIsMutual, P!AcceptedIsKnown,
             P!Answered, P!Lists
    <2>4. FInv
      BY DEF P!Init, FInv, ListenOK, NotToSelf, NeverListsSelf
    <2> QED
      BY <2>2, <2>3, <2>4 DEF Inv
  <1>2. Inv /\ [Next]_vars => Inv'
    <2>1. ASSUME Inv, UNCHANGED vars
          PROVE  Inv'
      <3>1. P!SInv'
        BY <2>1 DEF Inv, vars, P!SInv, P!TypeOK, P!EntriesOK, P!AnswersOK, P!RequestsOK,
                    P!OffOK, P!StartedOK
      <3>2. P!KInv'
        BY <2>1, Constants, P!KnownSameStep DEF Inv, vars
      <3>3. FInv'
        BY <2>1, QuietFInv DEF Inv, vars
      <3> QED
        BY <3>1, <3>2, <3>3 DEF Inv
    <2> QED
      BY <2>1, InvStep
  <1> QED
    BY <1>1, <1>2, PTL DEF Spec

(* No process lists itself, although it receives its own am-find requests  *)
(* and although texts may be taken for requests: the comparison with       *)
(* bind_addr, which ignores too much, ignores at least the process itself. *)
THEOREM NobodyListsItself == Spec => []NeverListsSelf
  <1>1. Inv => NeverListsSelf
    BY DEF Inv, FInv
  <1> QED
    BY <1>1, InvInvariant, PTL

(* Also in the broadcast chat, where requests may be chat texts, a process *)
(* that answered a running process and still listens lists it.             *)
THEOREM AnsweredIsListed == Spec => []ConfirmedIsMutual
  <1>1. Inv => ConfirmedIsMutual
    BY SameMutual DEF Inv, P!KInv
  <1> QED
    BY <1>1, InvInvariant, PTL

-----------------------------------------------------------------------------
(***************************************************************************)
(* AcquaintanceSpec: LanChatV4 implements Acquaintance too.  The mapping   *)
(* is that of LanChatV5, so that a step of the multicast chat, shown to be *)
(* one of Acquaintance there, is one here; only the sets Ignored and       *)
(* Mimics, which no shared action but the acceptance looks at, differ.     *)
(***************************************************************************)

(* What Acquaintance sees of a state is the same in both modules.          *)
LEMMA SameView ==
    /\ \A q : V5!Phase(q) = P!Phase(q)
    /\ \A q, via : V5!Entered(q, via) = P!Entered(q, via)
    /\ \A Q : V5!Numbered(Q) = P!Numbered(Q) /\ V5!Senders(Q) = P!Senders(Q)
  BY DEF V5!Phase, P!Phase, V5!Listening, P!Listening, V5!Entered, P!Entered,
         V5!Numbered, P!Numbered, V5!Senders, P!Senders

(* So is what it sees of the next state.                                   *)
LEMMA SameViewNext ==
    /\ \A q : V5!Phase(q)' = P!Phase(q)'
    /\ \A q, via : V5!Entered(q, via)' = P!Entered(q, via)'
    /\ [q \in Peer |-> V5!Numbered(joinQ[q])]' = [q \in Peer |-> P!Numbered(joinQ[q])]'
    /\ [q \in Peer |-> V5!Numbered(sockQ[q])]' = [q \in Peer |-> P!Numbered(sockQ[q])]'
    /\ [q \in Peer |-> V5!Senders(listenQ[q])]' = [q \in Peer |-> P!Senders(listenQ[q])]'
  BY DEF V5!Phase, P!Phase, V5!Listening, P!Listening, V5!Entered, P!Entered,
         V5!Numbered, P!Numbered, V5!Senders, P!Senders

(* A request to all reaches the same hosts.                                *)
LEMMA SameAsk ==
    ASSUME NEW p, NEW l, NEW n, P!Acq!Ask(p, l, n)
    PROVE  Acq!Ask(p, l, n)
  <1>1. Acq!Listeners = P!Acq!Listeners
    BY SameView DEF Acq!Listeners, P!Acq!Listeners
  <1>2. \A S : Acq!Reached(S) = P!Acq!Reached(S)
    BY DEF Acq!Reached, P!Acq!Reached
  <1>3. [q \in Peer |-> V5!Numbered(joinQ[q])] = [q \in Peer |-> P!Numbered(joinQ[q])]
    BY SameView
  <1>4. \A Q, R, m : Acq!Put(Q, R, m) = P!Acq!Put(Q, R, m)
    BY DEF Acq!Put, P!Acq!Put
  <1> QED
    BY <1>1, <1>2, <1>3, <1>4, SameViewNext DEF P!Acq!Ask, Acq!Ask

(* The actions of Acquaintance that ignore and mimic nobody.               *)
LEMMA SameSteps ==
    ASSUME NEW p \in Peer
    PROVE  /\ P!Acq!Start(p) => Acq!Start(p)
           /\ P!Acq!EndSearch(p) => Acq!EndSearch(p)
           /\ P!Acq!AskAgain(p) => Acq!AskAgain(p)
           /\ P!Acq!End(p) => Acq!End(p)
           /\ \A g : P!Acq!Confirm(p, g) => Acq!Confirm(p, g)
           /\ \A t : P!Acq!Hear(p, t) => Acq!Hear(p, t)
  <1>1. P!Acq!Start(p) => Acq!Start(p)
    BY SameAsk, SameView, SameViewNext DEF P!Acq!Start, Acq!Start
  <1>2. P!Acq!EndSearch(p) => Acq!EndSearch(p)
    BY SameView, SameViewNext DEF P!Acq!EndSearch, Acq!EndSearch
  <1>3. P!Acq!AskAgain(p) => Acq!AskAgain(p)
    BY SameAsk, SameView, SameViewNext DEF P!Acq!AskAgain, Acq!AskAgain
  <1>4. P!Acq!End(p) => Acq!End(p)
    BY SameView, SameViewNext DEF P!Acq!End, Acq!End
  <1>5. \A g : P!Acq!Confirm(p, g) => Acq!Confirm(p, g)
    BY SameView, SameViewNext DEF P!Acq!Confirm, Acq!Confirm, P!Acq!Alive, Acq!Alive,
        P!Acq!Process, Acq!Process, P!Acq!Stop, Acq!Stop
  <1>6. \A t : P!Acq!Hear(p, t) => Acq!Hear(p, t)
    BY SameView, SameViewNext DEF P!Acq!Hear, Acq!Hear
  <1> QED
    BY <1>1, <1>2, <1>3, <1>4, <1>5, <1>6

(* A step that Acquaintance does not see.                                  *)
LEMMA Unseen ==
    ASSUME UNCHANGED <<inc, peers, sockQ, listenQ, joinQ, req>>,
           \A q \in Peer : P!Phase(q)' = P!Phase(q)
    PROVE  UNCHANGED Acq!vars
  <1>1. UNCHANGED P!Acq!vars
    BY Constants, P!Unseen
  <1> QED
    BY <1>1, SameView, SameViewNext DEF P!Acq!vars, Acq!vars

(* A shared action is a step of Acquaintance, or is not seen there.        *)
LEMMA SharedImplements ==
    ASSUME P!RInv, NEW p \in Peer, Shared(p)
    PROVE  [Acq!Next]_Acq!vars
  <1>1. ASSUME P!Acq!End(p)
        PROVE  Acq!Next
    BY <1>1, SameSteps DEF Acq!Next
  <1>2. ASSUME pc[p] # "off", P!Exit(p)
        PROVE  Acq!Next
    BY <1>1, <1>2, Constants, P!ExitImplements
  <1>3. ASSUME UNCHANGED <<inc, peers, sockQ, listenQ, joinQ, req>>,
               \A q \in Peer : P!Phase(q)' = P!Phase(q)
        PROVE  UNCHANGED Acq!vars
    BY <1>3, Unseen
  <1>4. CASE P!connect_to_listener(p)
    BY <1>4, Constants, P!StartImplements, SameSteps DEF Acq!Next
  <1>5. CASE P!find_peer_confirm(p) \/ P!find_peer_unblock(p) \/ P!stdin_find_confirm(p)
    <2>1. \E g \in P!Numbered(sockQ[p]) : P!Acq!Confirm(p, g)
      BY <1>5, Constants, P!ConfirmImplements
         DEF P!find_peer_confirm, P!find_peer_unblock, P!stdin_find_confirm
    <2>2. \E g \in V5!Numbered(sockQ[p]) : Acq!Confirm(p, g)
      BY <2>1, SameSteps, SameView
    <2> QED
      BY <2>2 DEF Acq!Next
  <1>6. CASE P!find_peer_stdin(p)
    <2>1. CASE sockQ[p] = {}
      <3>1. /\ pc[p] = "find" /\ pc' = [pc EXCEPT ![p] = "blocked"]
            /\ UNCHANGED <<inc, peers, sockQ, listenQ, joinQ, req>>
        BY <1>6, <2>1 DEF P!find_peer_stdin
      <3>2. P!Phase(p) = "search"
        BY <3>1, Constants, P!PhaseCases
      <3>3. P!TypeOK
        BY DEF P!RInv, P!SInv
      <3>4. \A q \in Peer : P!Phase(q)' = P!Phase(q)
        BY <3>1, <3>2, <3>3, Constants, P!PhaseMoves DEF P!Place
      <3> QED
        BY <1>3, <3>1, <3>4
    <2>2. CASE sockQ[p] # {}
      BY <1>2, <1>6, <2>2 DEF P!find_peer_stdin
    <2> QED
      BY <2>1, <2>2
  <1>7. CASE P!find_peer_alarm(p)
    BY <1>7, Constants, P!AlarmImplements, SameSteps DEF Acq!Next
  <1>8. CASE P!stdin_end(p) \/ P!err_sys(p)
    BY <1>2, <1>8 DEF P!stdin_end, P!err_sys, P!Running
  <1>9. CASE P!stdin_eof(p) \/ P!user_types(p)
    <2>1. UNCHANGED <<pc, inc, peers, sockQ, listenQ, joinQ, req>>
      BY <1>9 DEF P!stdin_eof, P!user_types
    <2>2. \A q \in Peer : P!Phase(q)' = P!Phase(q)
      BY <2>1 DEF P!Phase
    <2> QED
      BY <1>3, <2>1, <2>2
  <1>10. CASE P!stdin_find(p)
    BY <1>10, Constants, P!FindImplements, SameSteps DEF Acq!Next
  <1> QED
    BY <1>4, <1>5, <1>6, <1>7, <1>8, <1>9, <1>10 DEF Shared

(* A request that is not ignored is accepted.                              *)
LEMMA AcceptImplements ==
    ASSUME P!RInv, NEW p \in Peer, NEW d \in joinQ[p],
           pc[p] = "loop", UNCHANGED <<inc, req>>,
           joinQ' = [joinQ EXCEPT ![p] = @ \ {d}],
           Handle(p, d), d.body = "CAN", ~Ignores(p, d.host)
    PROVE  \E r \in V5!Numbered(joinQ[p]) : Acq!Accept(p, r)
  <1>1. P!auth_accept(p, d) /\ P!AddPeer(p, P!Requester(d), "loop")
    BY SameAccept, SameAddPeer, SameRequester DEF Handle
  <1>2. P!Num(d) \in P!Numbered(joinQ[p]) /\ P!Acq!Accept(p, P!Num(d))
    BY <1>1, Constants, P!AcceptImplements
  <1>3. P!Num(d).host = d.host
    BY DEF P!Num
  <1>4. /\ \A q : Acq!Alive(q) <=> P!Acq!Alive(q)
        /\ \A S : Acq!Reached(S) = P!Acq!Reached(S)
        /\ \A Q, R, m : Acq!Put(Q, R, m) = P!Acq!Put(Q, R, m)
        /\ \A q, l : Acq!Process(q, l) = P!Acq!Process(q, l)
        /\ \A q : Acq!Stop(q) <=> P!Acq!Stop(q)
    BY SameView, SameViewNext
       DEF P!Acq!Alive, Acq!Alive, P!Acq!Reached, Acq!Reached, P!Acq!Put, Acq!Put,
           P!Acq!Process, Acq!Process, P!Acq!Stop, Acq!Stop
  <1> DEFINE r == P!Num(d)
             to == {q \in Peer : q = r.host /\ Acq!Alive(q) /\ inc[q] = r.life}
             toP == {q \in Peer : q = r.host /\ P!Acq!Alive(q) /\ inc[q] = r.life}
  <1>5. to = toP
    BY <1>4
  <1>6. \E R \in Acq!Reached(to) :
            [q \in Peer |-> V5!Numbered(sockQ[q])]'
                = Acq!Put([q \in Peer |-> V5!Numbered(sockQ[q])], R,
                          [host |-> p, life |-> inc[p], n |-> r.n])
    <2>1. \E R \in P!Acq!Reached(toP) :
              [q \in Peer |-> P!Numbered(sockQ[q])]'
                  = P!Acq!Put([q \in Peer |-> P!Numbered(sockQ[q])], R,
                              [host |-> p, life |-> inc[p], n |-> r.n])
      BY <1>2 DEF P!Acq!Accept
    <2>2. [q \in Peer |-> V5!Numbered(sockQ[q])] = [q \in Peer |-> P!Numbered(sockQ[q])]
      BY SameView
    <2> QED
      BY <1>4, <1>5, <2>1, <2>2, SameViewNext
  <1>7. \/ /\ [q \in Peer |-> V5!Entered(q, "CAN")]'
               = [[q \in Peer |-> V5!Entered(q, "CAN")] EXCEPT ![p] = @ \union {Acq!Process(r.host, r.life)}]
           /\ UNCHANGED [q \in Peer |-> V5!Phase(q)]
        \/ Acq!Stop(p) /\ UNCHANGED [q \in Peer |-> V5!Entered(q, "CAN")]
    <2>1. \/ /\ [q \in Peer |-> P!Entered(q, "CAN")]'
                 = [[q \in Peer |-> P!Entered(q, "CAN")] EXCEPT ![p] = @ \union {P!Acq!Process(r.host, r.life)}]
             /\ UNCHANGED [q \in Peer |-> P!Phase(q)]
          \/ P!Acq!Stop(p) /\ UNCHANGED [q \in Peer |-> P!Entered(q, "CAN")]
      BY <1>2 DEF P!Acq!Accept
    <2> QED
      BY <1>4, <2>1, SameView, SameViewNext
  <1>8. Acq!Accept(p, r)
    <2> HIDE DEF r
    <2>1. P!Acq!Accept(p, r) /\ r.host = d.host
      BY <1>2, <1>3 DEF r
    <2>2. /\ [q \in Peer |-> P!Phase(q)][p] = "listen"
          /\ [q \in Peer |-> P!Numbered(joinQ[q])]'
                = [[q \in Peer |-> P!Numbered(joinQ[q])] EXCEPT ![p] = @ \ {r}]
          /\ UNCHANGED <<inc, req, [q \in Peer |-> P!Entered(q, "OFC")],
                         [q \in Peer |-> P!Senders(listenQ[q])]>>
      BY <2>1 DEF P!Acq!Accept
    <2>3. /\ [q \in Peer |-> V5!Phase(q)][p] = "listen"
          /\ [q \in Peer |-> V5!Numbered(joinQ[q])]'
                = [[q \in Peer |-> V5!Numbered(joinQ[q])] EXCEPT ![p] = @ \ {r}]
          /\ UNCHANGED <<inc, req, [q \in Peer |-> V5!Entered(q, "OFC")],
                         [q \in Peer |-> V5!Senders(listenQ[q])]>>
      BY <2>2, SameView, SameViewNext
    <2>4. <<p, r.host>> \notin {pair \in Peer \X Peer : Ignores(pair[1], pair[2])}
      BY <2>1
    <2> QED
      BY <1>6, <1>7, <2>3, <2>4 DEF Acq!Accept
  <1> QED
    BY <1>2, <1>8, SameView

(* A request that is ignored goes away.                                    *)
LEMMA IgnoreImplements ==
    ASSUME P!RInv, NEW p \in Peer, NEW d \in joinQ[p],
           pc[p] = "loop", UNCHANGED <<pc, inc, peers, sockQ, listenQ, req>>,
           joinQ' = [joinQ EXCEPT ![p] = @ \ {d}], Ignores(p, d.host)
    PROVE  \E r \in V5!Numbered(joinQ[p]) : Acq!Ignore(p, r)
  <1>1. P!SInv /\ P!TypeOK
    BY DEF P!RInv, P!SInv
  <1>2. /\ P!Numbered(joinQ[p] \ {d}) = P!Numbered(joinQ[p]) \ {P!Num(d)}
        /\ P!Num(d) \in P!Numbered(joinQ[p])
    BY <1>1, Constants, P!NumberedRemove, P!RequestsDiffer
  <1>3. \A q \in Peer : V5!Numbered(joinQ'[q]) = IF q = p THEN V5!Numbered(joinQ[q]) \ {P!Num(d)}
                                                          ELSE V5!Numbered(joinQ[q])
    BY <1>1, <1>2, SameView DEF P!TypeOK
  <1>4. V5!Phase(p) = "listen" /\ \A q \in Peer : V5!Phase(q)' = V5!Phase(q)
    BY DEF V5!Phase, V5!Listening
  <1>5. \A q, via : V5!Entered(q, via)' = V5!Entered(q, via)
    BY DEF V5!Entered
  <1>6. P!Num(d).host = d.host /\ d.host \in Peer
    BY <1>1 DEF P!Num, P!TypeOK, P!Datagram
  <1>7. Acq!Ignore(p, P!Num(d))
    <2>1. <<p, P!Num(d).host>> \in {pair \in Peer \X Peer : Ignores(pair[1], pair[2])}
      BY <1>6
    <2>2. [q \in Peer |-> V5!Numbered(joinQ[q])]'
             = [[q \in Peer |-> V5!Numbered(joinQ[q])] EXCEPT ![p] = @ \ {P!Num(d)}]
      BY <1>3
    <2> QED
      BY <1>4, <1>5, <2>1, <2>2 DEF Acq!Ignore
  <1> QED
    BY <1>2, <1>7, SameView

(* One datagram of listenfd: a request, ignored or not, or a text.         *)
LEMMA ListenImplements ==
    ASSUME P!RInv, NEW p \in Peer, handle_listenfd(p)
    PROVE  Acq!Next
  <1>1. P!SInv /\ P!TypeOK /\ P!TextsOK
    BY DEF P!RInv, P!SInv
  <1>2. PICK d \in listenQ[p] \union joinQ[p] :
          /\ listenQ' = [listenQ EXCEPT ![p] = @ \ {d}]
          /\ joinQ' = [joinQ EXCEPT ![p] = @ \ {d}]
          /\ Handle(p, d)
    BY DEF handle_listenfd
  <1>3. pc[p] = "loop" /\ UNCHANGED <<inc, req>>
    BY DEF handle_listenfd
  <1>4. /\ \A c \in joinQ[p] : c.body = "CAN"
        /\ \A c \in listenQ[p] : c.body = "TXT"
    BY <1>1 DEF P!SInv, P!RequestsOK, P!TextsOK
  <1>5. CASE d \in joinQ[p]
    <2>1. d.body = "CAN" /\ d \notin listenQ[p]
      BY <1>4, <1>5
    <2>2. listenQ' = listenQ
      BY <1>1, <1>2, <2>1 DEF P!TypeOK
    <2>3. CASE Ignores(p, d.host)
      <3>1. UNCHANGED <<pc, peers, sockQ>>
        BY <1>2, <2>3 DEF Handle
      <3>2. \E r \in V5!Numbered(joinQ[p]) : Acq!Ignore(p, r)
        BY <1>2, <1>3, <1>5, <2>2, <2>3, <3>1, IgnoreImplements
      <3> QED
        BY <3>2 DEF Acq!Next
    <2>4. CASE ~Ignores(p, d.host)
      <3>1. \E r \in V5!Numbered(joinQ[p]) : Acq!Accept(p, r)
        BY <1>2, <1>3, <1>5, <2>1, <2>4, AcceptImplements
      <3> QED
        BY <3>1 DEF Acq!Next
    <2> QED
      BY <2>3, <2>4
  <1>6. CASE d \in listenQ[p]
    <2>1. d.body # "CAN" /\ d \notin joinQ[p]
      BY <1>4, <1>6
    <2>2. joinQ' = joinQ
      BY <1>1, <1>2, <2>1 DEF P!TypeOK
    <2>3. UNCHANGED <<pc, peers, sockQ>>
      BY <1>2, <2>1 DEF Handle
    <2>4. P!From(d) \in P!Senders(listenQ[p]) /\ P!Acq!Hear(p, P!From(d))
      BY <1>2, <1>3, <1>6, <2>2, <2>3, Constants, P!HearImplements
    <2>5. P!From(d) \in V5!Senders(listenQ[p]) /\ Acq!Hear(p, P!From(d))
      BY <2>4, SameView, SameSteps
    <2> QED
      BY <2>5 DEF Acq!Next
  <1> QED
    BY <1>5, <1>6

(* A line goes to the hosts of the first k entries that listen.            *)
LEMMA TextReaches ==
    ASSUME P!TypeOK, NEW p \in Peer, stdin_text(p)
    PROVE  \E R \in SUBSET (Acq!Acquaintances(p) \intersect Acq!Listeners) :
              /\ \/ /\ listenQ' = Deliver(listenQ, R, Text(p, "TXT"))
                    /\ UNCHANGED joinQ
                 \/ /\ p \in AuthNamed
                    /\ joinQ' = Deliver(joinQ, R, Text(p, "CAN"))
                    /\ UNCHANGED listenQ
              /\ \/ /\ Lossy \/ R = Acq!Acquaintances(p) \intersect Acq!Listeners
                    /\ pc' = [pc EXCEPT ![p] = "loop"]
                 \/ pc' = [pc EXCEPT ![p] = "failed"]
  <1> DEFINE To(k) == {peers[p][i].host : i \in 1 .. k}
  <1>1. PICK k \in 0 .. Len(peers[p]) :
           /\ \E R \in V5!Reached(To(k)) :
                \/ /\ listenQ' = Deliver(listenQ, R, Text(p, "TXT"))
                   /\ UNCHANGED joinQ
                \/ /\ p \in AuthNamed
                   /\ joinQ' = Deliver(joinQ, R, Text(p, "CAN"))
                   /\ UNCHANGED listenQ
           /\ pc' = [pc EXCEPT ![p] = IF k < Len(peers[p]) THEN "failed" ELSE "loop"]
    BY DEF stdin_text, Text
  <1>2. PICK H \in V5!Reached(To(k)) :
                \/ /\ listenQ' = Deliver(listenQ, H, Text(p, "TXT"))
                   /\ UNCHANGED joinQ
                \/ /\ p \in AuthNamed
                   /\ joinQ' = Deliver(joinQ, H, Text(p, "CAN"))
                   /\ UNCHANGED listenQ
    BY <1>1
  <1>3. Acq!Acquaintances(p) = To(Len(peers[p]))
    <2>1. P!Acq!Acquaintances(p) = To(Len(peers[p]))
      BY Constants, P!AcquaintancesListed
    <2> QED
      BY <2>1, SameView DEF Acq!Acquaintances, P!Acq!Acquaintances
  <1>4. Acq!Listeners = {q \in Peer : pc[q] \in V5!Listening}
    BY DEF Acq!Listeners, V5!Phase, V5!Listening
  <1>5. Len(peers[p]) \in Nat
    BY DEF P!TypeOK
  <1>6. H \subseteq To(Len(peers[p])) /\ (~Lossy => H = To(k))
    BY <1>2, <1>1, <1>5 DEF V5!Reached
  <1> DEFINE R == H \intersect Acq!Listeners
  <1>7. /\ Deliver(listenQ, H, Text(p, "TXT")) = Deliver(listenQ, R, Text(p, "TXT"))
        /\ Deliver(joinQ, H, Text(p, "CAN")) = Deliver(joinQ, R, Text(p, "CAN"))
    BY <1>4 DEF Deliver
  <1>8. CASE k < Len(peers[p])
    <2>1. pc' = [pc EXCEPT ![p] = "failed"]
      BY <1>1, <1>8
    <2> QED
      BY <1>2, <1>3, <1>6, <1>7, <2>1
  <1>9. CASE ~(k < Len(peers[p]))
    <2>1. k = Len(peers[p])
      BY <1>5, <1>9
    <2>2. pc' = [pc EXCEPT ![p] = "loop"]
      BY <1>1, <1>9
    <2>3. Lossy \/ R = Acq!Acquaintances(p) \intersect Acq!Listeners
      BY <1>3, <1>6, <2>1
    <2> HIDE DEF To
    <2>4. R \in SUBSET (Acq!Acquaintances(p) \intersect Acq!Listeners)
      BY <1>3, <1>6
    <2> HIDE DEF R
    <2> QED
      BY <1>2, <1>7, <2>2, <2>3, <2>4
  <1> QED
    BY <1>8, <1>9

(* The line a user types; it may be taken for a request.                   *)
LEMMA TextImplements ==
    ASSUME P!RInv, NEW p \in Peer, stdin_text(p)
    PROVE  Acq!Say(p)
  <1>1. P!TypeOK
    BY DEF P!RInv, P!SInv
  <1>2. PICK R \in SUBSET (Acq!Acquaintances(p) \intersect Acq!Listeners) :
              /\ \/ /\ listenQ' = Deliver(listenQ, R, Text(p, "TXT"))
                    /\ UNCHANGED joinQ
                 \/ /\ p \in AuthNamed
                    /\ joinQ' = Deliver(joinQ, R, Text(p, "CAN"))
                    /\ UNCHANGED listenQ
              /\ \/ /\ Lossy \/ R = Acq!Acquaintances(p) \intersect Acq!Listeners
                    /\ pc' = [pc EXCEPT ![p] = "loop"]
                 \/ pc' = [pc EXCEPT ![p] = "failed"]
    BY <1>1, TextReaches
  <1>3. pc[p] = "loop" /\ UNCHANGED <<inc, peers, sockQ, req>>
    BY TextEffect
  <1>4. \A q, via : V5!Entered(q, via)' = V5!Entered(q, via)
    BY <1>3 DEF V5!Entered
  <1>5. V5!Phase(p) = "listen"
    BY <1>3 DEF V5!Phase, V5!Listening
  <1>6. \/ /\ Lossy \/ R = Acq!Acquaintances(p) \intersect Acq!Listeners
           /\ \A q \in Peer : V5!Phase(q)' = V5!Phase(q)
        \/ \A q \in Peer : V5!Phase(q)' = IF q = p THEN "stopped" ELSE V5!Phase(q)
    BY <1>1, <1>2, <1>3, <1>5, SameView, SameViewNext, Constants, P!PhaseMoves
       DEF P!Place, P!Listening
  <1>7. \A q \in Acq!Listeners : pc[q] \in V5!Listening
    BY DEF Acq!Listeners, V5!Phase, V5!Listening
  <1>8. CASE listenQ' = Deliver(listenQ, R, Text(p, "TXT")) /\ UNCHANGED joinQ
    <2> DEFINE t == Acq!Process(p, inc[p])
    <2>1. ASSUME NEW q \in Peer
          PROVE  V5!Senders(listenQ'[q]) = IF q \in R THEN V5!Senders(listenQ[q]) \union {t}
                                                      ELSE V5!Senders(listenQ[q])
      <3>1. listenQ'[q] = IF q \in R THEN listenQ[q] \union {Text(p, "TXT")} ELSE listenQ[q]
        BY <1>2, <1>7, <1>8 DEF Deliver
      <3>2. P!Senders(listenQ[q] \union {Text(p, "TXT")}) = P!Senders(listenQ[q]) \union {P!From(Text(p, "TXT"))}
        BY Constants, P!SendersAdd
      <3>3. P!From(Text(p, "TXT")) = t
        BY DEF P!From, Text, Acq!Process
      <3> QED
        BY <3>1, <3>2, <3>3, SameView
    <2>2. [q \in Peer |-> V5!Senders(listenQ[q])]'
             = Acq!Put([q \in Peer |-> V5!Senders(listenQ[q])], R, t)
      BY <2>1 DEF Acq!Put
    <2> QED
      BY <1>2, <1>3, <1>4, <1>5, <1>6, <1>8, <2>2 DEF Acq!Say, Acq!Stop
  <1>9. CASE p \in AuthNamed /\ joinQ' = Deliver(joinQ, R, Text(p, "CAN")) /\ UNCHANGED listenQ
    <2> DEFINE r == [host |-> p, life |-> inc[p], n |-> 0]
    <2>1. ASSUME NEW q \in Peer
          PROVE  V5!Numbered(joinQ'[q]) = IF q \in R THEN V5!Numbered(joinQ[q]) \union {r}
                                                     ELSE V5!Numbered(joinQ[q])
      <3>1. joinQ'[q] = IF q \in R THEN joinQ[q] \union {Text(p, "CAN")} ELSE joinQ[q]
        BY <1>2, <1>7, <1>9 DEF Deliver
      <3>2. P!Numbered(joinQ[q] \union {Text(p, "CAN")}) = P!Numbered(joinQ[q]) \union {P!Num(Text(p, "CAN"))}
        BY Constants, P!NumberedAdd
      <3>3. P!Num(Text(p, "CAN")) = r
        BY DEF P!Num, Text
      <3> QED
        BY <3>1, <3>2, <3>3, SameView
    <2>2. [q \in Peer |-> V5!Numbered(joinQ[q])]'
             = Acq!Put([q \in Peer |-> V5!Numbered(joinQ[q])], R, r)
      BY <2>1 DEF Acq!Put
    <2> QED
      BY <1>2, <1>3, <1>4, <1>5, <1>6, <1>9, <2>2 DEF Acq!Say, Acq!Stop
  <1> QED
    BY <1>2, <1>8, <1>9

(* Every text in listenQ stays one.                                        *)
LEMMA TextsStep ==
    ASSUME P!RInv, Next
    PROVE  P!TextsOK'
  <1>1. P!SInv /\ P!TypeOK /\ P!TextsOK
    BY DEF P!RInv, P!SInv
  <1>2. PICK p \in Peer : \/ Shared(p)
                          \/ message_loop_select(p)
                          \/ handle_listenfd(p)
                          \/ stdin_text(p)
    BY NextCases
  <1>3. CASE Shared(p)
    BY <1>3, SharedIsV5, Constants, P!TextsStep
  <1>4. CASE message_loop_select(p)
    BY <1>1, <1>4 DEF message_loop_select, P!TextsOK
  <1>5. CASE handle_listenfd(p)
    <2>1. \A q \in Peer : listenQ'[q] \subseteq listenQ[q]
      BY <1>1, <1>5 DEF handle_listenfd, P!TypeOK
    <2> QED
      BY <1>1, <2>1 DEF P!TextsOK
  <1>6. CASE stdin_text(p)
    <2>1. CASE listenQ' = listenQ
      BY <1>1, <2>1 DEF P!TextsOK
    <2>2. CASE \E R : listenQ' = Deliver(listenQ, R, Text(p, "TXT"))
      <3>1. \A q \in Peer : \A d \in listenQ'[q] : d \in listenQ[q] \/ d = Text(p, "TXT")
        BY <2>2 DEF Deliver
      <3>2. LET d == Text(p, "TXT") IN d.body = "TXT" /\ d.port = d.inc /\ d.n = 0
        BY DEF Text
      <3> QED
        BY <1>1, <3>1, <3>2 DEF P!TextsOK
    <2> QED
      BY <1>6, <2>1, <2>2, TextEffect
  <1> QED
    BY <1>2, <1>3, <1>4, <1>5, <1>6

(* The invariant of the refinement holds here as well.                     *)
LEMMA RInvInvariant == Spec => []P!RInv
  <1>1. Init => P!TextsOK
    BY SameInit DEF P!Init, P!TextsOK
  <1>2. P!RInv /\ [Next]_vars => P!TextsOK'
    <2>1. P!RInv /\ UNCHANGED vars => P!TextsOK'
      BY DEF P!RInv, P!TextsOK, vars
    <2> QED
      BY <2>1, TextsStep
  <1>3. Inv /\ P!TextsOK => P!RInv
    BY DEF Inv, P!RInv
  <1>4. Inv /\ P!TextsOK /\ [Next]_vars => P!TextsOK'
    BY <1>2, <1>3
  <1> QED
    BY <1>1, <1>3, <1>4, InvInvariant, PTL DEF Spec

(* Every step is a step of Acquaintance, or is not seen there.             *)
LEMMA StepImplements ==
    ASSUME P!RInv, [Next]_vars
    PROVE  [Acq!Next]_Acq!vars
  <1>1. ASSUME UNCHANGED <<pc, inc, peers, sockQ, listenQ, joinQ, req>>
        PROVE  UNCHANGED Acq!vars
    <2>1. \A q \in Peer : P!Phase(q)' = P!Phase(q)
      BY <1>1 DEF P!Phase
    <2> QED
      BY <1>1, <2>1, Unseen
  <1>2. CASE UNCHANGED vars
    BY <1>1, <1>2 DEF vars
  <1>3. CASE Next
    <2>1. PICK p \in Peer : \/ Shared(p)
                            \/ message_loop_select(p)
                            \/ handle_listenfd(p)
                            \/ stdin_text(p)
      BY <1>3, NextCases
    <2>2. CASE Shared(p)
      BY <2>2, SharedImplements
    <2>3. CASE message_loop_select(p)
      BY <1>1, <2>3 DEF message_loop_select
    <2>4. CASE handle_listenfd(p)
      BY <2>4, ListenImplements
    <2>5. CASE stdin_text(p)
      BY <2>5, TextImplements DEF Acq!Next
    <2> QED
      BY <2>1, <2>2, <2>3, <2>4, <2>5
  <1> QED
    BY <1>2, <1>3

(* The broadcast chat implements Acquaintance as well: for every set of    *)
(* hosts of a subnet, a process answers all requests but those that it     *)
(* ignores, and none comes from elsewhere but the texts of users named     *)
(* "auth"; and again nobody writes to hosts it has not come to know.       *)
THEOREM ImplementsAcquaintance == Spec => AcquaintanceSpec
  <1>1. ASSUME P!Init
        PROVE  Acq!Init
    <2>1. ASSUME NEW via, NEW q \in Peer
          PROVE  V5!Entered(q, via) = {}
      <3>1. peers[q] = <<>> /\ DOMAIN <<>> = {}
        BY <1>1 DEF P!Init
      <3> QED
        BY <3>1 DEF V5!Entered
    <2>2. V5!Numbered({}) = {} /\ V5!Senders({}) = {}
      BY DEF V5!Numbered, V5!Senders
    <2>3. ASSUME NEW q \in Peer
          PROVE  V5!Phase(q) = "off"
      <3>1. pc[q] = "off"
        BY <1>1 DEF P!Init
      <3> QED
        BY <3>1, Constants, P!PhaseCases, SameView
    <2> QED
      BY <1>1, <2>1, <2>2, <2>3 DEF P!Init, Acq!Init
  <1>2. P!RInv /\ [Next]_vars => [Acq!Next]_Acq!vars
    BY StepImplements
  <1>3. Init => Acq!Init
    BY <1>1, SameInit
  <1> QED
    BY <1>2, <1>3, RInvInvariant, PTL DEF Spec, AcquaintanceSpec, Acq!Spec
=============================================================================
