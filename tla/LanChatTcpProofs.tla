-------------------------- MODULE LanChatTcpProofs --------------------------
(***************************************************************************)
(* Theorems about LanChatTcp, for every set of users on every assignment   *)
(* of users to hosts, every range of ports, every capacity of a connection *)
(* and every number of starts.                                             *)
(***************************************************************************)
EXTENDS LanChatTcp, TLAPS

-----------------------------------------------------------------------------
(* Starts and addresses.                                                   *)

(* A user and the number of one of his starts make a process.              *)
LEMMA ProcMember ==
    ASSUME NEW u \in User, NEW i \in 1 .. MaxStarts[u]
    PROVE  [user |-> u, inc |-> i] \in Proc
  BY DEF Proc

(* And a process is made of nothing else.                                  *)
LEMMA ProcParts ==
    ASSUME NEW c \in Proc
    PROVE  /\ c.user \in User /\ c.inc \in Nat \ {0}
           /\ c = [user |-> c.user, inc |-> c.inc]
  <1>1. PICK u \in User : c \in [user : {u}, inc : 1 .. MaxStarts[u]]
    BY DEF Proc
  <1>2. MaxStarts[u] \in Nat
    BY BoundsAssumption
  <1> QED
    BY <1>1, <1>2

(* The ports a user may choose, and the own address of a user.             *)
LEMMA OwnAddress ==
    ASSUME NEW u \in User, NEW port \in PORT_MIN .. PORT_MAX
    PROVE  [host |-> Host[u], port |-> port] \in Address
  BY HostAssumption DEF Address

(* Nobody listens on an address that is none.                              *)
LEMMA ListensType ==
    ASSUME TypeOK, NEW a, Listens(a)
    PROVE  a \in Address
  BY DEF TypeOK, Listens, Listener

(* A user's process is there once it has been started.                     *)
CountOK ==
    \A u \in User : inc[u] <= MaxStarts[u] /\ (main[u] # "off" => inc[u] # 0)

(* The running process of a user is one of his processes.                  *)
LEMMA ThisType ==
    ASSUME TypeOK, CountOK, NEW u \in User, main[u] # "off"
    PROVE  This(u) \in Proc
  <1>1. inc[u] \in Nat /\ MaxStarts[u] \in Nat
    BY BoundsAssumption DEF TypeOK
  <1>2. inc[u] \in 1 .. MaxStarts[u]
    BY <1>1 DEF CountOK
  <1> QED
    BY <1>2, ProcMember DEF This

-----------------------------------------------------------------------------
(* The connections of an address, and the lines of a connection.           *)

(* Connections that wait or are served at an address bear names of         *)
(* processes.                                                              *)
LEMMA HeldType ==
    ASSUME TypeOK, NEW a \in Address
    PROVE  Held(a) \subseteq Proc
  BY DEF Held, TypeOK

(* The elements of a queue that gets one more, and that loses its head.    *)
LEMMA AppendElements ==
    ASSUME NEW S, NEW s \in Seq(S), NEW e \in S
    PROVE  {Append(s, e)[i] : i \in DOMAIN Append(s, e)} = {s[i] : i \in DOMAIN s} \union {e}
  <1> DEFINE t == Append(s, e)
  <1>1. Len(t) = Len(s) + 1 /\ DOMAIN t = 1 .. Len(s) + 1 /\ DOMAIN s = 1 .. Len(s)
    OBVIOUS
  <1>2. \A i \in 1 .. Len(s) : t[i] = s[i]
    OBVIOUS
  <1>3. t[Len(s) + 1] = e
    OBVIOUS
  <1> HIDE DEF t
  <1>4. ASSUME NEW i \in DOMAIN t
        PROVE  t[i] \in {s[j] : j \in DOMAIN s} \union {e}
    BY <1>1, <1>2, <1>3, <1>4
  <1>5. ASSUME NEW x \in {s[j] : j \in DOMAIN s} \union {e}
        PROVE  x \in {t[i] : i \in DOMAIN t}
    <2>1. CASE x = e
      BY <1>1, <1>3, <2>1
    <2>2. CASE x # e
      <3>1. PICK j \in DOMAIN s : x = s[j]
        BY <2>2
      <3>2. j \in DOMAIN t /\ t[j] = x
        BY <1>1, <1>2, <3>1
      <3> QED
        BY <3>2
    <2> QED
      BY <2>1, <2>2
  <1> QED
    BY <1>4, <1>5 DEF t

(* And of a queue that loses its head.                                     *)
LEMMA TailElements ==
    ASSUME NEW S, NEW s \in Seq(S), s # <<>>
    PROVE  /\ Head(s) \in S /\ Tail(s) \in Seq(S)
           /\ {s[i] : i \in DOMAIN s} = {Tail(s)[i] : i \in DOMAIN Tail(s)} \union {Head(s)}
  <1> DEFINE t == Tail(s)
  <1>1. /\ Head(s) = s[1] /\ Head(s) \in S /\ t \in Seq(S)
        /\ Len(s) \in Nat \ {0} /\ DOMAIN t = 1 .. Len(s) - 1 /\ DOMAIN s = 1 .. Len(s)
    OBVIOUS
  <1>2. \A i \in 1 .. Len(s) - 1 : t[i] = s[i + 1]
    OBVIOUS
  <1> HIDE DEF t
  <1>3. ASSUME NEW i \in DOMAIN s
        PROVE  s[i] \in {t[j] : j \in DOMAIN t} \union {Head(s)}
    <2>1. CASE i = 1
      BY <1>1, <2>1
    <2>2. CASE i # 1
      <3>1. i - 1 \in DOMAIN t /\ t[i - 1] = s[i]
        BY <1>1, <1>2, <2>2
      <3> QED
        BY <3>1
    <2> QED
      BY <2>1, <2>2
  <1>4. ASSUME NEW x \in {t[j] : j \in DOMAIN t} \union {Head(s)}
        PROVE  x \in {s[i] : i \in DOMAIN s}
    <2>1. CASE x = Head(s)
      <3>1. 1 \in DOMAIN s /\ x = s[1]
        BY <1>1, <2>1
      <3> QED
        BY <3>1
    <2>2. CASE x # Head(s)
      <3>1. PICK j \in DOMAIN t : x = t[j]
        BY <2>2
      <3>2. j + 1 \in DOMAIN s /\ s[j + 1] = x
        BY <1>1, <1>2, <3>1
      <3> QED
        BY <3>2
    <2> QED
      BY <2>1, <2>2
  <1> QED
    BY <1>1, <1>3, <1>4 DEF t

(* The lines unread in a connection, which has an entry if there are any.  *)
LEMMA LinesType ==
    ASSUME TypeOK, NEW c \in Proc
    PROVE  /\ Lines(c) \in 0 .. SendBuf
           /\ Lines(c) > 0 <=> c \in DOMAIN unread
  BY BoundsAssumption DEF TypeOK, Lines

(* unread once c has n lines.                                              *)
LEMMA WithLinesEffect ==
    ASSUME TypeOK, NEW c \in Proc, NEW n \in 0 .. SendBuf, unread' = WithLines(c, n)
    PROVE  /\ DOMAIN unread' = (DOMAIN unread \ {c}) \union (IF n = 0 THEN {} ELSE {c})
           /\ DOMAIN unread' \subseteq Proc
           /\ \A d \in DOMAIN unread' : unread'[d] \in 1 .. SendBuf
  <1>1. /\ DOMAIN unread' = (DOMAIN unread \ {c}) \union (IF n = 0 THEN {} ELSE {c})
        /\ \A d \in DOMAIN unread' : unread'[d] = IF d = c THEN n ELSE unread[d]
    BY DEF WithLines
  <1> QED
    BY <1>1, BoundsAssumption DEF TypeOK

(* A new connection.                                                       *)
LEMMA ConnectEffect ==
    ASSUME TypeOK, CountOK, NEW u \in User, main[u] # "off", NEW a \in Address, Connect(u, a),
           UNCHANGED connfd
    PROVE  /\ queue' \in [Address -> Seq(Proc)]
           /\ main' = [main EXCEPT ![u] = "chat"]
           /\ Held(a)' = Held(a) \union {This(u)}
           /\ \A b \in Address \ {a} : Held(b)' = Held(b)
  <1>1. This(u) \in Proc
    BY ThisType
  <1>2. queue[a] \in Seq(Proc) /\ Append(queue[a], This(u)) \in Seq(Proc)
    BY <1>1 DEF TypeOK
  <1>3. queue' = [queue EXCEPT ![a] = Append(queue[a], This(u))]
    BY DEF Connect, TypeOK
  <1>4. queue'[a] = Append(queue[a], This(u)) /\ \A b \in Address \ {a} : queue'[b] = queue[b]
    BY <1>3 DEF TypeOK
  <1>5. Held(a)' = Held(a) \union {This(u)}
    BY <1>1, <1>2, <1>4, AppendElements DEF Held
  <1>6. \A b \in Address \ {a} : Held(b)' = Held(b)
    BY <1>4 DEF Held
  <1>7. queue' \in [Address -> Seq(Proc)]
    BY <1>2, <1>3 DEF TypeOK
  <1> QED
    BY <1>5, <1>6, <1>7 DEF Connect

(* Accept moves a connection and loses none.                               *)
LEMMA AcceptEffect ==
    ASSUME TypeOK, NEW a \in Address, listener_accept(a)
    PROVE  /\ queue' \in [Address -> Seq(Proc)]
           /\ connfd' \in [Address -> SUBSET Proc]
           /\ \A b \in Address : Held(b)' = Held(b)
           /\ connfd'[a] = {Head(queue[a])} /\ \A b \in Address \ {a} : connfd'[b] = connfd[b]
  <1>1. queue[a] \in Seq(Proc) /\ queue[a] # <<>> /\ connfd[a] = {}
    BY DEF listener_accept, TypeOK
  <1>2. Head(queue[a]) \in Proc /\ Tail(queue[a]) \in Seq(Proc)
    BY <1>1, TailElements
  <1>3. /\ connfd' = [connfd EXCEPT ![a] = {Head(queue[a])}]
        /\ queue' = [queue EXCEPT ![a] = Tail(queue[a])]
    BY DEF listener_accept, TypeOK
  <1>4. /\ queue'[a] = Tail(queue[a]) /\ connfd'[a] = {Head(queue[a])}
        /\ \A b \in Address \ {a} : queue'[b] = queue[b] /\ connfd'[b] = connfd[b]
    BY <1>3 DEF TypeOK
  <1>5. Held(a)' = Held(a)
    <2> DEFINE t == Tail(queue[a])
    <2>1. {queue[a][i] : i \in DOMAIN queue[a]}
              = {t[i] : i \in DOMAIN t} \union {Head(queue[a])}
      BY <1>1, TailElements
    <2>2. queue'[a] = t /\ connfd'[a] = {Head(queue[a])}
      BY <1>4
    <2> HIDE DEF t
    <2>3. Held(a)' = {t[i] : i \in DOMAIN t} \union {Head(queue[a])}
      BY <2>2 DEF Held
    <2>4. Held(a) = {queue[a][i] : i \in DOMAIN queue[a]}
      BY <1>1 DEF Held
    <2> QED
      BY <2>1, <2>3, <2>4
  <1>6. \A b \in Address \ {a} : Held(b)' = Held(b)
    BY <1>4 DEF Held
  <1>7. queue' \in [Address -> Seq(Proc)] /\ connfd' \in [Address -> SUBSET Proc]
    BY <1>2, <1>3 DEF TypeOK
  <1> QED
    BY <1>4, <1>5, <1>6, <1>7

(* The end of a listener loses those of its address, with their lines.     *)
LEMMA EndEffect ==
    ASSUME TypeOK, NEW l \in bound, EndListener(l)
    PROVE  /\ l.addr \in Address /\ bound' = bound \ {l}
           /\ queue' \in [Address -> Seq(Proc)] /\ connfd' \in [Address -> SUBSET Proc]
           /\ DOMAIN unread' = DOMAIN unread \ Held(l.addr)
           /\ \A c \in DOMAIN unread' : unread'[c] = unread[c]
           /\ Held(l.addr)' = {} /\ \A b \in Address \ {l.addr} : Held(b)' = Held(b)
           /\ \A b \in Address : connfd'[b] \subseteq connfd[b]
  <1>1. l.addr \in Address
    BY DEF TypeOK, Listener
  <1> DEFINE a == l.addr
  <1>2. /\ queue'[a] = <<>> /\ connfd'[a] = {}
        /\ \A b \in Address \ {a} : queue'[b] = queue[b] /\ connfd'[b] = connfd[b]
    BY <1>1 DEF EndListener, TypeOK
  <1>3. << >> \in Seq(Proc)
    OBVIOUS
  <1>4. queue' \in [Address -> Seq(Proc)] /\ connfd' \in [Address -> SUBSET Proc]
    BY <1>3 DEF EndListener, TypeOK
  <1>5. Held(a)' = {}
    BY <1>2 DEF Held
  <1>6. \A b \in Address \ {a} : Held(b)' = Held(b)
    BY <1>2 DEF Held
  <1>7. /\ DOMAIN unread' = DOMAIN unread \ Held(a)
        /\ \A c \in DOMAIN unread' : unread'[c] = unread[c]
    BY DEF EndListener
  <1> QED
    BY <1>1, <1>2, <1>4, <1>5, <1>6, <1>7 DEF EndListener

-----------------------------------------------------------------------------
(* Types.                                                                  *)

(* The actions, one per disjunct of Next.                                  *)
LEMMA NextCases ==
    ASSUME Next
    PROVE  \/ \E u \in User :
                 \/ start_v1(u) \/ start_v2(u)
                 \/ find_peer_v1(u) \/ find_peer_v2(u) \/ find_peer_v2_quit(u)
                 \/ message_loop(u)
                 \/ kill_and_exit(u)
                 \/ err_sys(u)
           \/ \E l \in forked : bind_listener(l)
           \/ \E l \in bound : listener_err_sys(l)
           \/ \E a \in Address : listener_accept(a) \/ listener_read(a) \/ listener_close(a)
  BY DEF Next, FindStep, ListenerStep

(* What both programs do to start.                                         *)
Starts(u) ==
    \E program \in {"v1", "v2"}, port \in PORT_MIN .. PORT_MAX, i \in Nat :
        spawn_listener(u, program, port, i)

(* Either program starts with a listener of its own.                       *)
LEMMA StartIsSpawn ==
    ASSUME NEW u \in User, start_v1(u) \/ start_v2(u)
    PROVE  Starts(u)
  <1>1. CASE start_v1(u)
    <2>1. PORT_MIN \in Nat
      BY PortAssumption
    <2> QED
      BY <1>1, <2>1 DEF start_v1, Starts
  <1>2. CASE start_v2(u)
    <2>1. CHAT_PORT \in PORT_MIN .. PORT_MAX
      BY PortAssumption DEF CHAT_PORT
    <2> QED
      BY <1>2, <2>1, IdxAssumption DEF start_v2, Starts
  <1> QED
    BY <1>1, <1>2

(* A connection is made by a round of either search.                       *)
LEMMA FindEffect ==
    ASSUME TypeOK, NEW u \in User, find_peer_v1(u) \/ find_peer_v2(u)
    PROVE  /\ main[u] = "find" /\ next' \in [User -> Nat]
           /\ UNCHANGED <<inc, prog, own, forked, bound, connfd, unread, failed>>
           /\ \/ UNCHANGED <<main, queue>>
              \/ \E a \in Address :
                    /\ Listens(a) /\ Connect(u, a)
                    /\ prog[u] = "v1" => a # [host |-> Host[u], port |-> own[u]]
  <1>1. PORT_MIN \in Nat /\ PORT_MAX \in Nat /\ own[u] \in Nat /\ next[u] \in Nat
    BY PortAssumption DEF TypeOK
  <1>2. CASE find_peer_v1(u)
    <2> DEFINE a == [host |-> Host[u], port |-> TryPort(u)]
    <2>1. TryPort(u) \in Nat /\ TryPort(u) # own[u]
      BY <1>1 DEF TryPort
    <2>2. /\ next' = [next EXCEPT ![u] = a.port + 1]
          /\ IF Listens(a) THEN Connect(u, a) ELSE UNCHANGED <<main, queue>>
      BY <1>2 DEF find_peer_v1
    <2>3. a.port = TryPort(u) /\ a # [host |-> Host[u], port |-> own[u]]
      BY <2>1
    <2>4. next' \in [User -> Nat]
      BY <2>1, <2>2, <2>3 DEF TypeOK
    <2> HIDE DEF a
    <2>5. \/ UNCHANGED <<main, queue>>
          \/ a \in Address /\ Listens(a) /\ Connect(u, a)
      BY <2>2, ListensType
    <2> QED
      BY <1>2, <2>3, <2>4, <2>5 DEF find_peer_v1
  <1>3. CASE find_peer_v2(u)
    <2> DEFINE a == [host |-> next[u], port |-> CHAT_PORT]
    <2>1. /\ next' = [next EXCEPT ![u] = next[u] + 1]
          /\ (Listens(a) /\ Connect(u, a)) \/ UNCHANGED <<main, queue>>
      BY <1>3 DEF find_peer_v2, TypeOK
    <2>2. next' \in [User -> Nat]
      BY <1>1, <2>1 DEF TypeOK
    <2> HIDE DEF a
    <2>3. \/ UNCHANGED <<main, queue>>
          \/ a \in Address /\ Listens(a) /\ Connect(u, a)
      BY <2>1, ListensType
    <2> QED
      BY <1>3, <2>2, <2>3 DEF find_peer_v2
  <1> QED
    BY <1>2, <1>3

(* The type invariant is inductive, together with the count of starts.     *)
TInv == TypeOK /\ CountOK

(* A start keeps TInv.                                                     *)
LEMMA StartTInv ==
    ASSUME TInv, NEW u \in User, Starts(u)
    PROVE  TInv'
  <1>1. PICK program \in {"v1", "v2"}, port \in PORT_MIN .. PORT_MAX, i \in Nat :
            spawn_listener(u, program, port, i)
    BY DEF Starts
  <1>2. inc[u] \in Nat /\ MaxStarts[u] \in Nat /\ inc[u] < MaxStarts[u]
    BY <1>1, BoundsAssumption DEF TInv, TypeOK, spawn_listener
  <1> DEFINE l == [proc |-> [user |-> u, inc |-> inc[u] + 1],
                   addr |-> [host |-> Host[u], port |-> port]]
  <1>3. l \in Listener
    <2>1. [user |-> u, inc |-> inc[u] + 1] \in Proc
      BY <1>2, ProcMember
    <2> QED
      BY <2>1, OwnAddress DEF Listener
  <1>4. forked' = forked \union {l}
    BY <1>1 DEF spawn_listener
  <1>5. TypeOK'
    BY <1>1, <1>2, <1>3, <1>4 DEF TInv, TypeOK, spawn_listener
  <1>6. CountOK'
    <2>1. inc'[u] = inc[u] + 1 /\ \A v \in User \ {u} : inc'[v] = inc[v] /\ main'[v] = main[v]
      BY <1>1 DEF spawn_listener, TInv, TypeOK
    <2> QED
      BY <1>2, <2>1 DEF TInv, CountOK
  <1> QED
    BY <1>5, <1>6 DEF TInv

(* A failure keeps TInv.                                                   *)
LEMMA FailTInv ==
    ASSUME TInv, NEW u \in User, main[u] # "off", Fail(u)
    PROVE  TInv'
  <1>1. This(u) \in Proc
    BY ThisType DEF TInv
  <1>2. TypeOK'
    BY <1>1 DEF TInv, TypeOK, Fail
  <1>3. CountOK'
    BY DEF TInv, TypeOK, CountOK, Fail
  <1> QED
    BY <1>2, <1>3 DEF TInv

(* Every step keeps TInv: one case per action.                             *)
LEMMA TInvStep ==
    ASSUME TInv, Next
    PROVE  TInv'
  <1>0. TypeOK /\ CountOK
    BY DEF TInv
  <1>1. ASSUME NEW u \in User, start_v1(u) \/ start_v2(u)
        PROVE  TInv'
    BY <1>1, StartIsSpawn, StartTInv
  <1>2. ASSUME NEW u \in User, find_peer_v1(u) \/ find_peer_v2(u)
        PROVE  TInv'
    <2>1. /\ main[u] = "find" /\ next' \in [User -> Nat]
          /\ UNCHANGED <<inc, prog, own, forked, bound, connfd, unread, failed>>
      BY <1>0, <1>2, FindEffect
    <2>2. CASE UNCHANGED <<main, queue>>
      BY <1>0, <2>1, <2>2 DEF TInv, TypeOK, CountOK
    <2>3. CASE \E a \in Address : Connect(u, a)
      <3>1. PICK a \in Address : Connect(u, a)
        BY <2>3
      <3>2. main' = [main EXCEPT ![u] = "chat"] /\ queue' \in [Address -> Seq(Proc)]
        BY <1>0, <2>1, <3>1, ConnectEffect
      <3>3. TypeOK'
        BY <1>0, <2>1, <3>2 DEF TypeOK
      <3>4. CountOK'
        BY <1>0, <2>1, <3>2 DEF CountOK, TypeOK
      <3> QED
        BY <3>3, <3>4 DEF TInv
    <2> QED
      BY <1>0, <1>2, <2>2, <2>3, FindEffect
  <1>3. ASSUME NEW u \in User, find_peer_v2_quit(u)
        PROVE  TInv'
    BY <1>3, FailTInv DEF find_peer_v2_quit
  <1>4. ASSUME NEW u \in User, message_loop(u)
        PROVE  TInv'
    <2>1. main[u] # "off" /\ This(u) \in Proc
      BY <1>0, <1>4, ThisType DEF message_loop
    <2>2. CASE /\ Lines(This(u)) < SendBuf
               /\ unread' = WithLines(This(u), Lines(This(u)) + 1)
               /\ UNCHANGED <<main, inc, prog, own, next, forked, bound, queue, connfd, failed>>
      <3>1. Lines(This(u)) + 1 \in 0 .. SendBuf
        BY <1>0, <2>1, <2>2, LinesType, BoundsAssumption
      <3>2. /\ DOMAIN unread' \subseteq Proc
            /\ \A d \in DOMAIN unread' : unread'[d] \in 1 .. SendBuf
        BY <1>0, <2>1, <2>2, <3>1, WithLinesEffect
      <3> QED
        BY <1>0, <2>2, <3>2 DEF TInv, TypeOK, CountOK
    <2>3. CASE Fail(u)
      BY <2>1, <2>3, FailTInv
    <2> QED
      BY <1>4, <2>2, <2>3 DEF message_loop
  <1>5. ASSUME NEW u \in User, kill_and_exit(u)
        PROVE  TInv'
    <2>1. /\ main[u] = "chat" /\ main' = [main EXCEPT ![u] = "off"] /\ forked' \subseteq forked
          /\ UNCHANGED <<inc, prog, own, next, failed>>
      BY <1>5 DEF kill_and_exit
    <2>2. CountOK'
      BY <1>0, <2>1 DEF CountOK, TypeOK
    <2>3. CASE \E l \in bound : EndListener(l)
      <3>1. PICK l \in bound : EndListener(l)
        BY <2>3
      <3>2. /\ bound' = bound \ {l}
            /\ queue' \in [Address -> Seq(Proc)] /\ connfd' \in [Address -> SUBSET Proc]
            /\ DOMAIN unread' = DOMAIN unread \ Held(l.addr)
            /\ \A c \in DOMAIN unread' : unread'[c] = unread[c]
        BY <1>0, <3>1, EndEffect
      <3> QED
        BY <1>0, <2>1, <2>2, <3>2 DEF TInv, TypeOK
    <2>4. CASE UNCHANGED <<bound, queue, connfd, unread>>
      BY <1>0, <2>1, <2>2, <2>4 DEF TInv, TypeOK
    <2> QED
      BY <1>5, <2>3, <2>4 DEF kill_and_exit
  <1>6. ASSUME NEW u \in User, err_sys(u)
        PROVE  TInv'
    BY <1>6, FailTInv DEF err_sys
  <1>7. ASSUME NEW l \in forked, bind_listener(l)
        PROVE  TInv'
    BY <1>0, <1>7 DEF bind_listener, TInv, TypeOK, CountOK
  <1>8. ASSUME NEW l \in bound, listener_err_sys(l)
        PROVE  TInv'
    <2>1. EndListener(l) /\ UNCHANGED <<main, inc, prog, own, next, forked, failed>>
      BY <1>8 DEF listener_err_sys
    <2>2. /\ bound' = bound \ {l}
          /\ queue' \in [Address -> Seq(Proc)] /\ connfd' \in [Address -> SUBSET Proc]
          /\ DOMAIN unread' = DOMAIN unread \ Held(l.addr)
          /\ \A c \in DOMAIN unread' : unread'[c] = unread[c]
      BY <1>0, <2>1, EndEffect
    <2> QED
      BY <1>0, <2>1, <2>2 DEF TInv, TypeOK, CountOK
  <1>9. ASSUME NEW a \in Address, listener_accept(a)
        PROVE  TInv'
    <2>1. queue' \in [Address -> Seq(Proc)] /\ connfd' \in [Address -> SUBSET Proc]
      BY <1>0, <1>9, AcceptEffect
    <2> QED
      BY <1>0, <1>9, <2>1 DEF listener_accept, TInv, TypeOK, CountOK
  <1>10. ASSUME NEW a \in Address, listener_read(a)
         PROVE  TInv'
    <2>1. PICK c \in connfd[a] : Lines(c) > 0 /\ unread' = WithLines(c, Lines(c) - 1)
      BY <1>10 DEF listener_read
    <2>2. c \in Proc
      BY <1>0 DEF TypeOK
    <2>3. Lines(c) - 1 \in 0 .. SendBuf
      BY <1>0, <2>1, <2>2, LinesType, BoundsAssumption
    <2>4. /\ DOMAIN unread' \subseteq Proc
          /\ \A d \in DOMAIN unread' : unread'[d] \in 1 .. SendBuf
      BY <1>0, <2>1, <2>2, <2>3, WithLinesEffect
    <2> QED
      BY <1>0, <1>10, <2>4 DEF listener_read, TInv, TypeOK, CountOK
  <1>11. ASSUME NEW a \in Address, listener_close(a)
         PROVE  TInv'
    BY <1>0, <1>11 DEF listener_close, TInv, TypeOK, CountOK
  <1> QED
    BY NextCases, <1>1, <1>2, <1>3, <1>4, <1>5, <1>6, <1>7, <1>8, <1>9, <1>10, <1>11

(* TInv holds in every reachable state.                                    *)
LEMMA TInvInvariant == Spec => []TInv
  <1>1. Init => TInv
    <2> SUFFICES ASSUME Init
                 PROVE  TInv
      OBVIOUS
    <2>1. PORT_MIN \in PORT_MIN .. PORT_MAX /\ << >> \in Seq(Proc)
      BY PortAssumption
    <2> QED
      BY <2>1, BoundsAssumption DEF Init, TInv, TypeOK, CountOK
  <1>2. TInv /\ [Next]_vars => TInv'
    <2>1. ASSUME TInv, UNCHANGED vars
          PROVE  TInv'
      BY <2>1 DEF vars, TInv, TypeOK, CountOK
    <2> QED
      BY <2>1, TInvStep
  <1> QED
    BY <1>1, <1>2, PTL DEF Spec

(* Every reachable state of the TCP chats is one of the declared types; in *)
(* particular no connection holds more unread lines than its buffers.      *)
THEOREM TypeCorrect == Spec => []TypeOK
  <1>1. TInv => TypeOK
    BY DEF TInv
  <1> QED
    BY <1>1, TInvInvariant, PTL

-----------------------------------------------------------------------------
(***************************************************************************)
(* OrphansOnlyFromFailures.  am-end kills one listener, so there must be   *)
(* no second one of the same start; and a start must not find a listener   *)
(* that already has its name.                                              *)
(***************************************************************************)
Started(c) == c.inc <= inc[c.user]

ListenersOK ==
    /\ \A l \in forked \union bound : Started(l.proc)
    /\ \A l, m \in forked \union bound : l.proc = m.proc => l = m

LInv == ListenersOK /\ OrphansOnlyFromFailures

(* LInv survives steps that add no listener and end no main process.       *)
LEMMA QuietLInv ==
    ASSUME TypeOK, LInv, forked' \union bound' \subseteq forked \union bound,
           UNCHANGED <<inc, failed>>,
           \A u \in User : main[u] # "off" => main'[u] # "off"
    PROVE  LInv'
  <1>1. \A l \in forked \union bound : l.proc \in Proc
    BY DEF TypeOK, Listener
  <1>2. \A l \in forked \union bound : Alive(l.proc) => Alive(l.proc)'
    BY <1>1, ProcParts DEF Alive
  <1>3. OrphansOnlyFromFailures'
    BY <1>2 DEF LInv, OrphansOnlyFromFailures
  <1>4. ListenersOK'
    BY DEF LInv, ListenersOK, Started
  <1> QED
    BY <1>3, <1>4 DEF LInv

(* It survives the end of a main process that leaves its listener behind,  *)
(* which is counted as a failure,                                          *)
LEMMA FailLInv ==
    ASSUME TypeOK, LInv, NEW u \in User, Fail(u)
    PROVE  LInv'
  <1>1. /\ main' = [main EXCEPT ![u] = "off"] /\ failed' = failed \union {This(u)}
        /\ UNCHANGED <<inc, forked, bound>>
    BY DEF Fail
  <1>2. ASSUME NEW l \in forked \union bound, Alive(l.proc)
        PROVE  Alive(l.proc)' \/ l.proc \in failed'
    <2>1. l.proc \in Proc
      BY DEF TypeOK, Listener
    <2>2. CASE l.proc.user = u
      <3>1. l.proc = This(u)
        BY <1>2, <2>1, <2>2, ProcParts DEF Alive, This
      <3> QED
        BY <1>1, <3>1
    <2>3. CASE l.proc.user # u
      <3>1. main'[l.proc.user] = main[l.proc.user]
        BY <1>1, <2>1, <2>3, ProcParts DEF TypeOK
      <3> QED
        BY <1>1, <1>2, <3>1 DEF Alive
    <2> QED
      BY <2>2, <2>3
  <1>3. OrphansOnlyFromFailures'
    BY <1>1, <1>2 DEF LInv, OrphansOnlyFromFailures
  <1>4. ListenersOK'
    BY <1>1 DEF LInv, ListenersOK, Started
  <1> QED
    BY <1>3, <1>4 DEF LInv

(* the end that kills it,                                                  *)
LEMMA KillLInv ==
    ASSUME TypeOK, LInv, NEW u \in User, kill_and_exit(u)
    PROVE  LInv'
  <1>1. /\ main' = [main EXCEPT ![u] = "off"]
        /\ forked' = {l \in forked : l.proc # This(u)}
        /\ UNCHANGED <<inc, failed>>
    BY DEF kill_and_exit
  <1>2. \/ \E l \in bound : l.proc = This(u) /\ bound' = bound \ {l}
        \/ (\A l \in bound : l.proc # This(u)) /\ bound' = bound
    BY DEF kill_and_exit, EndListener
  <1>3. forked' \union bound' \subseteq forked \union bound
    BY <1>1, <1>2
  <1>4. \A l \in forked' \union bound' : l.proc # This(u)
    BY <1>1, <1>2 DEF LInv, ListenersOK
  <1>5. ASSUME NEW l \in forked' \union bound', Alive(l.proc)
        PROVE  Alive(l.proc)'
    <2>1. l.proc \in Proc
      BY <1>3 DEF TypeOK, Listener
    <2>2. l.proc.user # u
      BY <1>4, <1>5, <2>1, ProcParts DEF Alive, This
    <2>3. main'[l.proc.user] = main[l.proc.user]
      BY <1>1, <2>1, <2>2, ProcParts DEF TypeOK
    <2> QED
      BY <1>1, <1>5, <2>3 DEF Alive
  <1>6. OrphansOnlyFromFailures'
    BY <1>1, <1>3, <1>5 DEF LInv, OrphansOnlyFromFailures
  <1>7. ListenersOK'
    BY <1>1, <1>3 DEF LInv, ListenersOK, Started
  <1> QED
    BY <1>6, <1>7 DEF LInv

(* and the start of a program.                                             *)
LEMMA StartLInv ==
    ASSUME TypeOK, LInv, NEW u \in User, Starts(u)
    PROVE  LInv'
  <1>1. PICK program \in {"v1", "v2"}, port \in PORT_MIN .. PORT_MAX, i \in Nat :
            spawn_listener(u, program, port, i)
    BY DEF Starts
  <1> PICK n : n = [proc |-> [user |-> u, inc |-> inc[u] + 1],
                    addr |-> [host |-> Host[u], port |-> port]]
    OBVIOUS
  <1>2. /\ forked' \union bound' = (forked \union bound) \union {n}
        /\ main[u] = "off" /\ failed' = failed
        /\ main' = [main EXCEPT ![u] = "find"] /\ inc' = [inc EXCEPT ![u] = inc[u] + 1]
    BY <1>1 DEF spawn_listener, TypeOK
  <1>3. /\ inc[u] \in Nat /\ inc'[u] = inc[u] + 1 /\ main'[u] = "find"
        /\ \A v \in User \ {u} : inc'[v] = inc[v] /\ main'[v] = main[v]
    BY <1>2 DEF TypeOK
  <1>4. n.proc.user = u /\ n.proc.inc = inc[u] + 1
    OBVIOUS
  <1>5. ASSUME NEW l \in forked \union bound
        PROVE  /\ l.proc \in Proc /\ l.proc # n.proc /\ Started(l.proc)'
               /\ Alive(l.proc) => Alive(l.proc)'
    <2>1. l.proc \in Proc /\ Started(l.proc)
      BY DEF TypeOK, Listener, LInv, ListenersOK
    <2>2. l.proc.user \in User /\ l.proc.inc \in Nat
      BY <2>1, ProcParts
    <2>3. l.proc # n.proc
      BY <1>3, <1>4, <2>1, <2>2 DEF Started
    <2>4. Started(l.proc)'
      BY <1>3, <2>1, <2>2 DEF Started
    <2>5. Alive(l.proc) => Alive(l.proc)'
      BY <1>2, <1>3, <2>2 DEF Alive
    <2> QED
      BY <2>1, <2>3, <2>4, <2>5
  <1>6. Alive(n.proc)' /\ Started(n.proc)'
    BY <1>3, <1>4 DEF Alive, Started
  <1>7. OrphansOnlyFromFailures'
    BY <1>2, <1>5, <1>6 DEF LInv, OrphansOnlyFromFailures
  <1>8. ListenersOK'
    BY <1>2, <1>5, <1>6 DEF LInv, ListenersOK
  <1> QED
    BY <1>7, <1>8 DEF LInv

(* Every step keeps LInv: one case per action.                             *)
LEMMA LInvStep ==
    ASSUME TInv, LInv, Next
    PROVE  LInv'
  <1>0. TypeOK /\ CountOK
    BY DEF TInv
  <1>1. ASSUME NEW u \in User, start_v1(u) \/ start_v2(u)
        PROVE  LInv'
    BY <1>0, <1>1, StartIsSpawn, StartLInv
  <1>2. ASSUME NEW u \in User, find_peer_v1(u) \/ find_peer_v2(u)
        PROVE  LInv'
    <2>1. main' = main \/ main' = [main EXCEPT ![u] = "chat"]
      BY <1>0, <1>2, FindEffect DEF Connect
    <2>2. \A v \in User : main[v] # "off" => main'[v] # "off"
      BY <1>0, <2>1 DEF TypeOK
    <2>3. UNCHANGED <<inc, forked, bound, failed>>
      BY <1>0, <1>2, FindEffect
    <2> QED
      BY <1>0, <2>2, <2>3, QuietLInv
  <1>3. ASSUME NEW u \in User, find_peer_v2_quit(u) \/ err_sys(u)
        PROVE  LInv'
    BY <1>0, <1>3, FailLInv DEF find_peer_v2_quit, err_sys
  <1>4. ASSUME NEW u \in User, message_loop(u)
        PROVE  LInv'
    <2>1. CASE UNCHANGED <<main, inc, prog, own, next, forked, bound, queue, connfd, failed>>
      BY <1>0, <2>1, QuietLInv
    <2> QED
      BY <1>0, <1>4, <2>1, FailLInv DEF message_loop
  <1>5. ASSUME NEW u \in User, kill_and_exit(u)
        PROVE  LInv'
    BY <1>0, <1>5, KillLInv
  <1>6. ASSUME NEW l \in forked, bind_listener(l)
        PROVE  LInv'
    <2>1. forked' \union bound' \subseteq forked \union bound /\ UNCHANGED <<main, inc, failed>>
      BY <1>6 DEF bind_listener
    <2> QED
      BY <1>0, <2>1, QuietLInv
  <1>7. ASSUME NEW l \in bound, listener_err_sys(l)
        PROVE  LInv'
    <2>1. forked' \union bound' \subseteq forked \union bound /\ UNCHANGED <<main, inc, failed>>
      BY <1>7 DEF listener_err_sys, EndListener
    <2> QED
      BY <1>0, <2>1, QuietLInv
  <1>8. ASSUME NEW a \in Address, listener_accept(a) \/ listener_read(a) \/ listener_close(a)
        PROVE  LInv'
    <2>1. UNCHANGED <<main, inc, forked, bound, failed>>
      BY <1>8 DEF listener_accept, listener_read, listener_close
    <2> QED
      BY <1>0, <2>1, QuietLInv
  <1> QED
    BY NextCases, <1>1, <1>2, <1>3, <1>4, <1>5, <1>6, <1>7, <1>8

(* A listener whose main process has gone was left by a failure: am-end    *)
(* kills the listener it forked, whether or not it has bound yet.          *)
THEOREM OrphansAreFailures == Spec => []OrphansOnlyFromFailures
  <1>1. Init => LInv
    BY DEF Init, LInv, ListenersOK, OrphansOnlyFromFailures
  <1>2. TInv /\ LInv /\ [Next]_vars => LInv'
    <2>1. ASSUME TInv, LInv, UNCHANGED vars
          PROVE  LInv'
      BY <2>1, QuietLInv DEF vars, TInv
    <2> QED
      BY <2>1, LInvStep
  <1>3. LInv => OrphansOnlyFromFailures
    BY DEF LInv
  <1> QED
    BY <1>1, <1>2, <1>3, TInvInvariant, PTL DEF Spec

-----------------------------------------------------------------------------
(***************************************************************************)
(* NoChatWithOwnPort and UnreadHasReader.  Both rest on where connections  *)
(* are: each at one address only, at which somebody listens; and a process *)
(* that still searches has none, so that the one it makes is its only one. *)
(***************************************************************************)
HeldOK ==
    /\ \A a \in Address : Held(a) # {} => Listens(a)
    /\ \A a \in Address : \A c \in Held(a) :
          Started(c) /\ (c = This(c.user) => main[c.user] # "find")
    /\ \A a, b \in Address : \A c \in Held(a) : c \in Held(b) => a = b
    /\ \A a \in Address : \A c, d \in connfd[a] : c = d

UnreadOK == \A c \in DOMAIN unread : \E a \in Address : c \in Held(a)

HInv == HeldOK /\ UnreadOK /\ NoChatWithOwnPort

(* HInv survives steps that make no connection and start nothing, if what  *)
(* is left of an address is left with its listener.                        *)
LEMMA ShrinkHInv ==
    ASSUME TypeOK, HInv, UNCHANGED <<inc, prog, own>>,
           \A u \in User : main'[u] = main[u] \/ main'[u] = "off",
           \A a \in Address : /\ Held(a)' \subseteq Held(a)
                              /\ Held(a)' # {} => Listens(a)'
                              /\ \A c, d \in connfd'[a] : c = d,
           UnreadOK'
    PROVE  HInv'
  <1>1. \A a \in Address : Held(a) \subseteq Proc
    BY HeldType
  <1>2. ASSUME NEW a \in Address, NEW c \in Held(a)'
        PROVE  Started(c)' /\ (c = This(c.user)' => main'[c.user] # "find")
    <2>1. c \in Held(a) /\ c.user \in User
      BY <1>1, ProcParts
    <2>2. Started(c) /\ (c = This(c.user) => main[c.user] # "find")
      BY <2>1 DEF HInv, HeldOK
    <2> QED
      BY <2>1, <2>2 DEF Started, This
  <1>3. HeldOK'
    <2>1. \A a, b \in Address : \A c \in Held(a)' : c \in Held(b)' => a = b
      BY DEF HInv, HeldOK
    <2> QED
      BY <1>2, <2>1 DEF HeldOK
  <1>4. NoChatWithOwnPort'
    <2> SUFFICES ASSUME NEW u \in User, main'[u] = "chat", prog'[u] = "v1"
                 PROVE  This(u) \notin Held([host |-> Host[u], port |-> own[u]])'
      BY DEF NoChatWithOwnPort, This
    <2>1. [host |-> Host[u], port |-> own[u]] \in Address
      BY OwnAddress DEF TypeOK
    <2>2. main[u] = "chat" /\ prog[u] = "v1"
      OBVIOUS
    <2>3. This(u) \notin Held([host |-> Host[u], port |-> own[u]])
      BY <2>2 DEF HInv, NoChatWithOwnPort
    <2> QED
      BY <2>1, <2>3
  <1> QED
    BY <1>3, <1>4 DEF HInv

(* The end of a listener is such a step.                                   *)
LEMMA EndHInv ==
    ASSUME TypeOK, HInv, NEW l \in bound, EndListener(l), UNCHANGED <<inc, prog, own>>,
           \A u \in User : main'[u] = main[u] \/ main'[u] = "off"
    PROVE  HInv'
  <1>1. /\ l.addr \in Address /\ bound' = bound \ {l}
        /\ DOMAIN unread' = DOMAIN unread \ Held(l.addr)
        /\ Held(l.addr)' = {} /\ \A b \in Address \ {l.addr} : Held(b)' = Held(b)
        /\ \A b \in Address : connfd'[b] \subseteq connfd[b]
    BY EndEffect
  <1>2. ASSUME NEW a \in Address
        PROVE  /\ Held(a)' \subseteq Held(a)
               /\ Held(a)' # {} => Listens(a)'
               /\ \A c, d \in connfd'[a] : c = d
    <2>1. CASE a = l.addr
      BY <1>1, <2>1 DEF HInv, HeldOK
    <2>2. CASE a # l.addr
      <3>1. Held(a) # {} => \E m \in bound \ {l} : m.addr = a
        BY <2>2 DEF HInv, HeldOK, Listens
      <3> QED
        BY <1>1, <2>2, <3>1 DEF HInv, HeldOK, Listens
    <2> QED
      BY <2>1, <2>2
  <1>3. UnreadOK'
    BY <1>1 DEF HInv, UnreadOK
  <1> QED
    BY <1>2, <1>3, ShrinkHInv

(* HInv survives a start: the process has no connection by its name.       *)
LEMMA StartHInv ==
    ASSUME TypeOK, HInv, NEW u \in User, Starts(u)
    PROVE  HInv'
  <1>1. PICK program \in {"v1", "v2"}, port \in PORT_MIN .. PORT_MAX, i \in Nat :
            spawn_listener(u, program, port, i)
    BY DEF Starts
  <1>2. /\ inc[u] \in Nat /\ inc'[u] = inc[u] + 1 /\ main'[u] = "find"
        /\ \A v \in User \ {u} : /\ inc'[v] = inc[v] /\ main'[v] = main[v]
                                /\ prog'[v] = prog[v] /\ own'[v] = own[v]
        /\ UNCHANGED <<bound, queue, connfd, unread>>
    BY <1>1 DEF spawn_listener, TypeOK
  <1>3. \A a \in Address : Held(a)' = Held(a) /\ (Listens(a)' <=> Listens(a))
    BY <1>2 DEF Held, Listens
  <1>4. ASSUME NEW a \in Address, NEW c \in Held(a)
        PROVE  Started(c)' /\ (c = This(c.user)' => main'[c.user] # "find")
    <2>1. c.user \in User /\ c.inc \in Nat
      BY HeldType, ProcParts
    <2>2. Started(c) /\ (c = This(c.user) => main[c.user] # "find")
      BY DEF HInv, HeldOK
    <2>3. CASE c.user = u
      BY <1>2, <2>1, <2>2, <2>3 DEF Started, This
    <2>4. CASE c.user # u
      BY <1>2, <2>1, <2>2, <2>4 DEF Started, This
    <2> QED
      BY <2>3, <2>4
  <1>5. HeldOK'
    BY <1>2, <1>3, <1>4 DEF HInv, HeldOK
  <1>6. UnreadOK'
    BY <1>2, <1>3 DEF HInv, UnreadOK
  <1>7. NoChatWithOwnPort'
    <2> SUFFICES ASSUME NEW v \in User, main'[v] = "chat", prog'[v] = "v1"
                 PROVE  This(v)' \notin Held([host |-> Host[v], port |-> own[v]])'
      BY DEF NoChatWithOwnPort
    <2>1. v # u
      BY <1>2
    <2>2. This(v) \notin Held([host |-> Host[v], port |-> own[v]])
      BY <1>2, <2>1 DEF HInv, NoChatWithOwnPort
    <2>3. [host |-> Host[v], port |-> own[v]] \in Address
      BY OwnAddress DEF TypeOK
    <2> QED
      BY <1>2, <1>3, <2>1, <2>2, <2>3 DEF This
  <1> QED
    BY <1>5, <1>6, <1>7 DEF HInv

(* HInv survives a connection of a process that searches to an address     *)
(* that is not its own, if it runs v1.                                     *)
LEMMA ConnectHInv ==
    ASSUME TInv, HInv, NEW u \in User, main[u] = "find", NEW a \in Address,
           Listens(a), Connect(u, a),
           prog[u] = "v1" => a # [host |-> Host[u], port |-> own[u]],
           UNCHANGED <<inc, prog, own, bound, connfd, unread>>
    PROVE  HInv'
  <1>0. TypeOK /\ CountOK /\ This(u) \in Proc
    BY ThisType DEF TInv
  <1>1. /\ main' = [main EXCEPT ![u] = "chat"]
        /\ Held(a)' = Held(a) \union {This(u)}
        /\ \A b \in Address \ {a} : Held(b)' = Held(b)
    BY <1>0, ConnectEffect
  <1>2. main'[u] = "chat" /\ \A v \in User \ {u} : main'[v] = main[v]
    BY <1>0, <1>1 DEF TypeOK
  <1>3. \A b \in Address : This(u) \notin Held(b)
    <2>1. This(u).user = u
      BY DEF This
    <2> QED
      BY <2>1 DEF HInv, HeldOK
  <1>4. /\ \A b \in Address : Listens(b)' <=> Listens(b)
        /\ \A v \in User : This(v)' = This(v)
    BY DEF Listens, This
  <1>5. ASSUME NEW b \in Address, NEW c \in Held(b)'
        PROVE  Started(c)' /\ (c = This(c.user)' => main'[c.user] # "find")
    <2>1. CASE c \in Held(b)
      <3>1. c.user \in User
        BY <1>0, <2>1, HeldType, ProcParts
      <3> QED
        BY <1>2, <1>4, <2>1, <3>1 DEF HInv, HeldOK, Started
    <2>2. CASE c = This(u)
      <3>1. c.user = u /\ c.inc = inc[u] /\ inc[u] \in Nat
        BY <1>0, <2>2 DEF This, TypeOK
      <3> QED
        BY <1>2, <3>1 DEF Started
    <2> QED
      BY <1>1, <2>1, <2>2
  <1>6. \A b, d \in Address : \A c \in Held(b)' : c \in Held(d)' => b = d
    BY <1>1, <1>3 DEF HInv, HeldOK
  <1>7. HeldOK'
    BY <1>1, <1>4, <1>5, <1>6 DEF HInv, HeldOK
  <1>8. UnreadOK'
    BY <1>1 DEF HInv, UnreadOK
  <1>9. NoChatWithOwnPort'
    <2> SUFFICES ASSUME NEW v \in User, main'[v] = "chat", prog'[v] = "v1"
                 PROVE  This(v)' \notin Held([host |-> Host[v], port |-> own[v]])'
      BY DEF NoChatWithOwnPort
    <2> PICK b \in Address : b = [host |-> Host[v], port |-> own[v]]
      BY <1>0, OwnAddress DEF TypeOK
    <2>1. CASE v = u
      <3>1. b # a
        BY <2>1
      <3> QED
        BY <1>1, <1>3, <1>4, <2>1, <3>1
    <2>2. CASE v # u
      <3>1. This(v) \notin Held(b)
        BY <1>2, <2>2 DEF HInv, NoChatWithOwnPort
      <3>2. This(v) # This(u)
        BY <2>2 DEF This
      <3> QED
        BY <1>1, <1>4, <3>1, <3>2
    <2> QED
      BY <2>1, <2>2
  <1> QED
    BY <1>7, <1>8, <1>9 DEF HInv

(* HInv survives the end of a main process, which leaves connections alone.*)
LEMMA FailHInv ==
    ASSUME TypeOK, HInv, NEW u \in User,
           main' = [main EXCEPT ![u] = "off"],
           UNCHANGED <<inc, prog, own, bound, queue, connfd, unread>>
    PROVE  HInv'
  <1>1. \A a \in Address : /\ Held(a)' = Held(a)
                           /\ Listens(a)' <=> Listens(a)
    BY DEF Held, Listens
  <1>2. \A v \in User : main'[v] = main[v] \/ main'[v] = "off"
    BY DEF TypeOK
  <1>3. \A a \in Address : /\ Held(a)' \subseteq Held(a)
                           /\ Held(a)' # {} => Listens(a)'
                           /\ \A c, d \in connfd'[a] : c = d
    BY <1>1 DEF HInv, HeldOK
  <1>4. UnreadOK'
    BY <1>1 DEF HInv, UnreadOK
  <1> QED
    BY <1>2, <1>3, <1>4, ShrinkHInv

(* HInv survives what only moves lines of connections that are there.      *)
LEMMA LineHInv ==
    ASSUME TypeOK, HInv, UNCHANGED <<main, inc, prog, own, bound, queue, connfd>>,
           NEW c \in Proc, NEW n \in 0 .. SendBuf, unread' = WithLines(c, n),
           \E a \in Address : c \in Held(a)
    PROVE  HInv'
  <1>1. \A a \in Address : /\ Held(a)' = Held(a)
                           /\ Listens(a)' <=> Listens(a)
    BY DEF Held, Listens
  <1>2. DOMAIN unread' \subseteq DOMAIN unread \union {c}
    BY WithLinesEffect
  <1>3. UnreadOK'
    BY <1>1, <1>2 DEF HInv, UnreadOK
  <1>4. \A a \in Address : /\ Held(a)' \subseteq Held(a)
                           /\ Held(a)' # {} => Listens(a)'
                           /\ \A d, e \in connfd'[a] : d = e
    BY <1>1 DEF HInv, HeldOK
  <1> QED
    BY <1>3, <1>4, ShrinkHInv

(* Every step keeps HInv: one case per action.                             *)
LEMMA HInvStep ==
    ASSUME TInv, HInv, Next
    PROVE  HInv'
  <1>0. TypeOK /\ CountOK
    BY DEF TInv
  <1>1. ASSUME NEW u \in User, start_v1(u) \/ start_v2(u)
        PROVE  HInv'
    BY <1>0, <1>1, StartIsSpawn, StartHInv
  <1>2. ASSUME NEW u \in User, find_peer_v1(u) \/ find_peer_v2(u)
        PROVE  HInv'
    <2>1. main[u] = "find" /\ UNCHANGED <<inc, prog, own, bound, connfd, unread>>
      BY <1>0, <1>2, FindEffect
    <2>2. CASE UNCHANGED <<main, queue>>
      <3>1. UNCHANGED <<main, inc, prog, own, bound, queue, connfd, unread>>
        BY <2>1, <2>2
      <3>2. \A a \in Address : Held(a)' = Held(a) /\ (Listens(a)' <=> Listens(a))
        BY <3>1 DEF Held, Listens
      <3>3. UnreadOK'
        BY <3>1, <3>2 DEF HInv, UnreadOK
      <3>4. \A a \in Address : /\ Held(a)' \subseteq Held(a)
                               /\ Held(a)' # {} => Listens(a)'
                               /\ \A c, d \in connfd'[a] : c = d
        BY <3>1, <3>2 DEF HInv, HeldOK
      <3> QED
        BY <1>0, <3>1, <3>3, <3>4, ShrinkHInv
    <2>3. CASE \E a \in Address :
                  /\ Listens(a) /\ Connect(u, a)
                  /\ prog[u] = "v1" => a # [host |-> Host[u], port |-> own[u]]
      BY <2>1, <2>3, ConnectHInv
    <2> QED
      BY <1>0, <1>2, <2>2, <2>3, FindEffect
  <1>3. ASSUME NEW u \in User, find_peer_v2_quit(u) \/ err_sys(u)
        PROVE  HInv'
    BY <1>0, <1>3, FailHInv DEF find_peer_v2_quit, err_sys, Fail
  <1>4. ASSUME NEW u \in User, message_loop(u)
        PROVE  HInv'
    <2>1. This(u) \in Proc
      BY <1>0, <1>4, ThisType DEF message_loop
    <2>2. CASE \E a \in Address : This(u) \in Held(a)
      <3>1. /\ Lines(This(u)) < SendBuf
            /\ unread' = WithLines(This(u), Lines(This(u)) + 1)
            /\ UNCHANGED <<main, inc, prog, own, bound, queue, connfd>>
        BY <1>4, <2>2 DEF message_loop
      <3>2. Lines(This(u)) + 1 \in 0 .. SendBuf
        BY <1>0, <2>1, <3>1, LinesType, BoundsAssumption
      <3> QED
        BY <1>0, <2>1, <2>2, <3>1, <3>2, LineHInv
    <2>3. CASE ~\E a \in Address : This(u) \in Held(a)
      BY <1>0, <1>4, <2>3, FailHInv DEF message_loop, Fail
    <2> QED
      BY <2>2, <2>3
  <1>5. ASSUME NEW u \in User, kill_and_exit(u)
        PROVE  HInv'
    <2>1. main' = [main EXCEPT ![u] = "off"] /\ UNCHANGED <<inc, prog, own>>
      BY <1>5 DEF kill_and_exit
    <2>2. \A v \in User : main'[v] = main[v] \/ main'[v] = "off"
      BY <1>0, <2>1 DEF TypeOK
    <2>3. CASE \E l \in bound : EndListener(l)
      BY <1>0, <2>1, <2>2, <2>3, EndHInv
    <2>4. CASE UNCHANGED <<bound, queue, connfd, unread>>
      BY <1>0, <2>1, <2>4, FailHInv
    <2> QED
      BY <1>5, <2>3, <2>4 DEF kill_and_exit
  <1>6. ASSUME NEW l \in forked, bind_listener(l)
        PROVE  HInv'
    <2>1. bound \subseteq bound' /\ UNCHANGED <<main, inc, prog, own, queue, connfd, unread>>
      BY <1>6 DEF bind_listener
    <2>2. \A a \in Address : Held(a)' = Held(a) /\ (Listens(a) => Listens(a)')
      BY <2>1 DEF Held, Listens
    <2>3. UnreadOK'
      BY <2>1, <2>2 DEF HInv, UnreadOK
    <2>4. \A a \in Address : /\ Held(a)' \subseteq Held(a)
                             /\ Held(a)' # {} => Listens(a)'
                             /\ \A c, d \in connfd'[a] : c = d
      BY <2>1, <2>2 DEF HInv, HeldOK
    <2> QED
      BY <1>0, <2>1, <2>3, <2>4, ShrinkHInv
  <1>7. ASSUME NEW l \in bound, listener_err_sys(l)
        PROVE  HInv'
    BY <1>0, <1>7, EndHInv DEF listener_err_sys
  <1>8. ASSUME NEW a \in Address, listener_accept(a)
        PROVE  HInv'
    <2>1. /\ \A b \in Address : Held(b)' = Held(b)
          /\ connfd'[a] = {Head(queue[a])} /\ \A b \in Address \ {a} : connfd'[b] = connfd[b]
      BY <1>0, <1>8, AcceptEffect
    <2>2. UNCHANGED <<main, inc, prog, own, bound, unread>>
      BY <1>8 DEF listener_accept
    <2>3. UnreadOK'
      BY <2>1, <2>2 DEF HInv, UnreadOK
    <2>4. \A b \in Address : /\ Held(b)' \subseteq Held(b)
                             /\ Held(b)' # {} => Listens(b)'
                             /\ \A c, d \in connfd'[b] : c = d
      BY <2>1, <2>2 DEF HInv, HeldOK, Listens
    <2> QED
      BY <1>0, <2>2, <2>3, <2>4, ShrinkHInv
  <1>9. ASSUME NEW a \in Address, listener_read(a)
        PROVE  HInv'
    <2>1. PICK c \in connfd[a] : Lines(c) > 0 /\ unread' = WithLines(c, Lines(c) - 1)
      BY <1>9 DEF listener_read
    <2>2. c \in Proc /\ c \in Held(a)
      BY <1>0 DEF TypeOK, Held
    <2>3. Lines(c) - 1 \in 0 .. SendBuf
      BY <1>0, <2>1, <2>2, LinesType, BoundsAssumption
    <2> QED
      BY <1>0, <1>9, <2>1, <2>2, <2>3, LineHInv DEF listener_read
  <1>10. ASSUME NEW a \in Address, listener_close(a)
         PROVE  HInv'
    <2>1. PICK c \in connfd[a] : Lines(c) = 0
      BY <1>10 DEF listener_close
    <2>2. /\ connfd' = [connfd EXCEPT ![a] = {}]
          /\ UNCHANGED <<main, inc, prog, own, bound, queue, unread>>
      BY <1>10 DEF listener_close
    <2>3. connfd'[a] = {} /\ \A b \in Address \ {a} : connfd'[b] = connfd[b]
      BY <1>0, <2>2 DEF TypeOK
    <2>4. c \in Proc /\ c \notin DOMAIN unread /\ connfd[a] = {c}
      <3>1. c \in Proc
        BY <1>0 DEF TypeOK
      <3>2. c \notin DOMAIN unread
        BY <1>0, <2>1, <3>1, LinesType
      <3> QED
        BY <3>1, <3>2 DEF HInv, HeldOK
    <2>5. \A b \in Address : Held(b) \ {c} \subseteq Held(b)' /\ Held(b)' \subseteq Held(b)
      BY <2>2, <2>3, <2>4 DEF Held
    <2>6. UnreadOK'
      BY <2>2, <2>4, <2>5 DEF HInv, UnreadOK
    <2>7. \A b \in Address : /\ Held(b)' \subseteq Held(b)
                             /\ Held(b)' # {} => Listens(b)'
                             /\ \A d, e \in connfd'[b] : d = e
      BY <2>2, <2>3, <2>5 DEF HInv, HeldOK, Listens
    <2> QED
      BY <1>0, <2>2, <2>6, <2>7, ShrinkHInv
  <1> QED
    BY NextCases, <1>1, <1>2, <1>3, <1>4, <1>5, <1>6, <1>7, <1>8, <1>9, <1>10

(* HInv holds in every reachable state.                                    *)
LEMMA HInvInvariant == Spec => []HInv
  <1>1. Init => HInv
    <2> SUFFICES ASSUME Init
                 PROVE  HInv
      OBVIOUS
    <2>1. \A a \in Address : Held(a) = {} /\ connfd[a] = {}
      BY DEF Init, Held
    <2>2. DOMAIN unread = {} /\ \A u \in User : main[u] = "off"
      BY DEF Init
    <2> QED
      BY <2>1, <2>2 DEF HInv, HeldOK, UnreadOK, NoChatWithOwnPort
  <1>2. TInv /\ HInv /\ [Next]_vars => HInv'
    <2>1. ASSUME TInv, HInv, UNCHANGED vars
          PROVE  HInv'
      <3>1. UNCHANGED <<main, inc, prog, own, bound, queue, connfd, unread>>
        BY <2>1 DEF vars
      <3>2. \A a \in Address : Held(a)' = Held(a) /\ (Listens(a)' <=> Listens(a))
        BY <3>1 DEF Held, Listens
      <3>3. UnreadOK'
        BY <2>1, <3>1, <3>2 DEF HInv, UnreadOK
      <3>4. \A a \in Address : /\ Held(a)' \subseteq Held(a)
                               /\ Held(a)' # {} => Listens(a)'
                               /\ \A c, d \in connfd'[a] : c = d
        BY <2>1, <3>1, <3>2 DEF HInv, HeldOK
      <3> QED
        BY <2>1, <3>1, <3>3, <3>4, ShrinkHInv DEF TInv
    <2> QED
      BY <2>1, HInvStep
  <1> QED
    BY <1>1, <1>2, TInvInvariant, PTL DEF Spec

(* v1 is never connected to the port of its own listener, wherever that    *)
(* port is in its range and whoever listens there.                         *)
THEOREM NobodyChatsWithOwnPort == Spec => []NoChatWithOwnPort
  <1>1. HInv => NoChatWithOwnPort
    BY DEF HInv
  <1> QED
    BY <1>1, HInvInvariant, PTL

(* An accepted line is never lost while the listener it was sent to lives, *)
(* and no second listener holds it.                                        *)
THEOREM UnreadLinesHaveAReader == Spec => []UnreadHasReader
  <1>1. HInv => UnreadHasReader
    <2> SUFFICES ASSUME HInv, NEW c \in DOMAIN unread
                 PROVE  \E a \in Address : Listens(a) /\ \A b \in Address : c \in Held(b) <=> b = a
      BY DEF UnreadHasReader
    <2>1. PICK a \in Address : c \in Held(a)
      BY DEF HInv, UnreadOK
    <2> QED
      BY <2>1 DEF HInv, HeldOK
  <1> QED
    BY <1>1, HInvInvariant, PTL
=============================================================================
